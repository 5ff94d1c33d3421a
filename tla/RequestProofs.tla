--------------------------- MODULE RequestProofs ----------------------------
(***************************************************************************)
(* Proofs about the parts of a request's path: how its head is cut from    *)
(* the stream, what its URL and its credentials come to, which bytes of a  *)
(* file answer it, and the listing of a directory, for every configuration,*)
(* every client and every size of the buffers.  Each part is proved about  *)
(* its own specification, whose inputs are all there can be.  The last     *)
(* section shows that what the encoders write is decoded to what they got. *)
(***************************************************************************)
EXTENDS UrlPath, Encoders, AuthDialogue, RangeRequest, Listing, SequenceTheorems,
        FiniteSetTheorems, TLAPS
WF == INSTANCE WellFoundedInduction

(* A set of natural numbers has a least one.                               *)
LEMMA LeastExists ==
  ASSUME NEW T, T \subseteq Nat, T # {}
  PROVE  \E x \in T : \A y \in T : x <= y
  <1> DEFINE R == WF!OpToRel(<, Nat)
  <1>1. WF!IsWellFoundedOn(R, Nat)
    BY WF!NatLessThanWellFounded
  <1>2. R = {ss \in Nat \X Nat : ss[1] < ss[2]}
    BY DEF WF!OpToRel
  <1> HIDE DEF R
  <1>3. PICK x \in T : \A y \in T : ~(<<y, x>> \in R)
    <2>1. \E x \in T : \A y \in T : ~(<<y, x>> \in R)
      BY <1>1, WF!WFMin, Zenon
    <2> QED
      BY <2>1
  <1>4. ASSUME NEW y \in T PROVE x <= y
    <2>1. ~(<<y, x>> \in R)
      BY <1>3
    <2>2. ~(y < x)
      BY <2>1, <1>2
    <2> QED
      BY <2>2
  <1> QED
    BY <1>4
-----------------------------------------------------------------------------
(* Directory listings.                                                     *)

(* What has been printed while list_dir runs.  As long as there was no     *)
(* error the page is complete so far, its NUL is the last byte written and *)
(* there is room for it; after -2 the rows alone are as long as the        *)
(* buffer.                                                                 *)
Printing ==
  IF errcode = 0
  THEN /\ pagesize = complete /\ high = complete + 1 /\ maxsize > 0
       /\ pagesize + maxsize = BUFSIZE - 1
  ELSE errcode = -2 /\ complete >= BUFSIZE - 1 /\ high <= BUFSIZE - 1

(* What list_dir returned.                                                 *)
Printed ==
  /\ errcode = -2 => complete - FOOTLEN >= BUFSIZE - 1
  /\ errcode = 0 =>
       /\ pagesize = complete /\ complete - FOOTLEN < BUFSIZE - 1
       /\ complete < BUFSIZE - 1 => high = complete + 1

ListInv ==
  /\ ListTypeOK
  /\ high <= BUFSIZE - 1
  /\ lst = "head" => /\ pagesize = 0 /\ maxsize = BUFSIZE - 1 /\ high = 0
                     /\ complete = 0 /\ errcode = 0
  /\ lst = "rows" => Printing
  /\ lst = "send" => Printed
  /\ (lst = "done" /\ ~refused) => ListingExact

(* The assumptions on the sizes, one by one.                               *)
LEMMA Sizes ==
  /\ BUFSIZE \in Nat /\ LISTWORD \in Nat /\ BUFSIZE + ROWMAX + FOOTLEN < LISTWORD
  /\ HEADLEN \in Nat /\ HEADLEN > 0 /\ PARENTLEN \in Nat /\ PARENTLEN > 0
  /\ FOOTLEN \in Nat /\ FOOTLEN > 0 /\ ROWMAX \in Nat /\ ROWMAX > 0
  /\ HEADLEN + PARENTLEN < BUFSIZE - 1
  BY BufferHoldsHead

(* The remainder of the two error codes and of a length that fits.         *)
LEMMA Remainders ==
  ASSUME NEW n \in Nat, n < LISTWORD
  PROVE  n % LISTWORD = n
  BY Sizes
LEMMA ErrorRemainders ==
  /\ (-1) % LISTWORD = LISTWORD - 1
  /\ (-2) % LISTWORD = LISTWORD - 2
  BY Sizes

LEMMA EntryLengths ==
  ASSUME NEW s \in Seq(Entries), s # <<>>
  PROVE  /\ Tail(s) \in Seq(Entries)
         /\ Head(s).len \in 1 .. ROWMAX /\ Head(s).kind \in Kinds
  <1>1. Head(s) \in Entries /\ Tail(s) \in Seq(Entries)
    OBVIOUS
  <1> QED
    BY <1>1 DEF Entries

(* One piece that fits, and one that does not.                             *)
LEMMA Piece ==
  ASSUME ListTypeOK, NEW len \in Nat \ {0}, Snprintf(len), maxsize > 0,
         pagesize + maxsize = BUFSIZE - 1, high <= pagesize + 1
  PROVE  /\ pagesize' \in Nat /\ maxsize' \in Int /\ high' \in Nat
         /\ pagesize' = pagesize + len /\ pagesize' + maxsize' = BUFSIZE - 1
         /\ high' <= BUFSIZE - 1
         /\ maxsize' > 0 => high' = pagesize' + 1
         /\ maxsize' <= 0 => pagesize' >= BUFSIZE - 1
         /\ pagesize' < BUFSIZE - 1 => high' = pagesize' + 1
  BY Sizes DEF ListTypeOK, Snprintf, Written, Higher

LEMMA ListInitInv == ListInit => ListInv
  <1> SUFFICES ASSUME ListInit PROVE ListInv
    OBVIOUS
  <1>1. parent \in BOOLEAN /\ refused \in BOOLEAN
    BY DEF ListInit
  <1>2. entries \in Seq(Entries)
    BY DEF ListInit
  <1>3. ListTypeOK
    BY <1>1, <1>2, Sizes DEF ListInit, ListTypeOK
  <1> QED
    BY <1>3, Sizes DEF ListInit, ListInv

LEMMA ListNextInv == ListInv /\ [ListNext]_listVars => ListInv'
  <1> SUFFICES ASSUME ListInv, [ListNext]_listVars PROVE ListInv'
    OBVIOUS
  <1> USE Sizes
  <1>1. ASSUME NEW found \in Seq(Entries), NEW up \in BOOLEAN, NEW memory \in BOOLEAN,
               NEW readable \in BOOLEAN, ScanDir(found, up, memory, readable)
        PROVE  ListInv'
    <2>1. (parent \in BOOLEAN /\ refused \in BOOLEAN)'
      BY <1>1 DEF ScanDir
    <2>2. ListTypeOK'
      BY <1>1, <2>1 DEF ScanDir, ListTypeOK
    <2>3. /\ high' = 0 /\ pagesize' = 0 /\ maxsize' = BUFSIZE - 1 /\ complete' = 0
          /\ errcode' = IF readable THEN 0 ELSE -1
          /\ refused' = ~memory
          /\ lst' = IF ~memory THEN "done" ELSE IF readable THEN "head" ELSE "send"
      BY <1>1 DEF ScanDir
    <2>4. CASE ~memory
      <3>1. refused' /\ lst' = "done"
        BY <2>3, <2>4
      <3>2. high' <= BUFSIZE - 1
        BY <2>3
      <3> QED
        BY <2>2, <3>1, <3>2, Zenon DEF ListInv
    <2>5. CASE memory
      BY <2>2, <2>3, <2>5 DEF ListInv, Printed
    <2> QED
      BY <2>4, <2>5
  <1>2. CASE ListHead
    <2> DEFINE len == IF parent THEN HEADLEN + PARENTLEN ELSE HEADLEN
    <2>1. len \in Nat \ {0} /\ len < BUFSIZE - 1
      BY DEF ListInv, ListTypeOK
    <2>2. /\ pagesize = 0 /\ maxsize = BUFSIZE - 1 /\ high = 0 /\ errcode = 0
          /\ Snprintf(len)
      BY <1>2 DEF ListHead, ListInv
    <2>3. pagesize' \in Nat /\ maxsize' \in Int /\ high' \in Nat /\ high' <= BUFSIZE - 1
          /\ pagesize' = len /\ pagesize' + maxsize' = BUFSIZE - 1 /\ maxsize' > 0
          /\ high' = len + 1
      <3> HIDE DEF len
      <3> QED
        BY <2>1, <2>2 DEF Snprintf, Written, Higher
    <2>4. /\ complete' = len /\ lst' = "rows"
          /\ UNCHANGED <<entries, parent, errcode, pagelen, refused>>
      BY <1>2 DEF ListHead
    <2> HIDE DEF len
    <2> QED
      BY <2>1, <2>2, <2>3, <2>4 DEF ListInv, ListTypeOK, Printing
  <1>3. CASE ListSkip
    <2>1. entries \in Seq(Entries) /\ entries # <<>>
      BY <1>3 DEF ListSkip, ListInv, ListTypeOK
    <2>2. Tail(entries) \in Seq(Entries) /\ Head(entries).len \in 1 .. ROWMAX
      BY <2>1, EntryLengths
    <2>3. /\ complete' \in Nat /\ complete' >= complete
          /\ errcode = 0 => complete' = complete
      <3>1. complete \in Nat
        BY DEF ListInv, ListTypeOK
      <3>2. complete' = complete + (IF Shown(Head(entries)) THEN Head(entries).len ELSE 0)
        BY <1>3 DEF ListSkip
      <3>3. errcode = 0 => ~Shown(Head(entries))
        BY <1>3 DEF ListSkip, Shown
      <3> QED
        BY <2>2, <3>1, <3>2, <3>3
    <2> QED
      BY <1>3, <2>2, <2>3 DEF ListSkip, ListInv, ListTypeOK, Printing, Printed, ListingExact
  <1>4. CASE ListRow
    <2>1. entries \in Seq(Entries) /\ entries # <<>>
      BY <1>4 DEF ListRow, ListInv, ListTypeOK
    <2>2. Tail(entries) \in Seq(Entries) /\ Head(entries).len \in Nat \ {0}
      BY <2>1, EntryLengths
    <2>3. /\ errcode = 0 /\ pagesize = complete /\ high = complete + 1 /\ maxsize > 0
          /\ pagesize + maxsize = BUFSIZE - 1
      BY <1>4 DEF ListRow, ListInv, Printing
    <2>4. CASE Shown(Head(entries))
      <3>1. Snprintf(Head(entries).len) /\ complete' = complete + Head(entries).len
        BY <1>4, <2>4 DEF ListRow
      <3>2. /\ pagesize' \in Nat /\ maxsize' \in Int /\ high' \in Nat
            /\ pagesize' = complete' /\ pagesize' + maxsize' = BUFSIZE - 1
            /\ high' <= BUFSIZE - 1
            /\ maxsize' > 0 => high' = pagesize' + 1
            /\ maxsize' <= 0 => pagesize' >= BUFSIZE - 1
            /\ pagesize' < BUFSIZE - 1 => high' = pagesize' + 1
        BY <2>2, <2>3, <3>1, Piece DEF ListInv, ListTypeOK
      <3>3. errcode' = IF maxsize' <= 0 THEN -2 ELSE 0
        BY <1>4, <2>3 DEF ListRow, OutOfRoom
      <3>4. /\ lst' = "rows" /\ entries' = Tail(entries)
            /\ UNCHANGED <<parent, pagelen, refused>>
        BY <1>4 DEF ListRow
      <3>5. ListTypeOK'
        BY <2>2, <3>2, <3>3, <3>4 DEF ListInv, ListTypeOK
      <3>6. Printing'
        <4>1. CASE maxsize' > 0
          <5>1. errcode' = 0
            BY <3>2, <3>3, <4>1
          <5>2. high' = complete' + 1
            BY <3>2, <4>1
          <5> QED
            BY <3>2, <4>1, <5>1, <5>2 DEF Printing
        <4>2. CASE maxsize' <= 0
          <5>1. errcode' = -2
            BY <3>3, <4>2
          <5>2. complete' >= BUFSIZE - 1
            BY <3>2, <4>2
          <5> QED
            BY <3>2, <5>1, <5>2 DEF Printing
        <4> QED
          BY <3>2, <4>1, <4>2
      <3> QED
        BY <3>2, <3>4, <3>5, <3>6 DEF ListInv
    <2>5. CASE ~Shown(Head(entries))
      <3>1. /\ lst' = "rows" /\ entries' = Tail(entries)
            /\ UNCHANGED <<pagesize, maxsize, high, complete, parent, pagelen, refused, errcode>>
        BY <1>4, <2>3, <2>5 DEF ListRow, OutOfRoom, ListInv, ListTypeOK
      <3>2. (parent \in BOOLEAN /\ refused \in BOOLEAN)'
        BY <3>1 DEF ListInv, ListTypeOK
      <3>3. ListTypeOK' /\ Printing'
        BY <2>2, <2>3, <3>1, <3>2 DEF ListInv, ListTypeOK, Printing
      <3> QED
        BY <3>1, <3>3 DEF ListInv
    <2> QED
      BY <2>4, <2>5
  <1>5. CASE ListFoot
    <2>1. /\ complete' = complete + FOOTLEN /\ lst' = "send" /\ Printing
          /\ UNCHANGED <<entries, parent, errcode, pagelen, refused>>
      BY <1>5 DEF ListFoot, ListInv
    <2>2. CASE errcode = 0
      <3>1. Snprintf(FOOTLEN) /\ pagesize = complete /\ high = complete + 1 /\ maxsize > 0
            /\ pagesize + maxsize = BUFSIZE - 1
        BY <1>5, <2>1, <2>2 DEF ListFoot, Printing
      <3>2. /\ pagesize' \in Nat /\ maxsize' \in Int /\ high' \in Nat
            /\ pagesize' = complete' /\ pagesize' + maxsize' = BUFSIZE - 1
            /\ high' <= BUFSIZE - 1
            /\ maxsize' > 0 => high' = pagesize' + 1
            /\ maxsize' <= 0 => pagesize' >= BUFSIZE - 1
            /\ pagesize' < BUFSIZE - 1 => high' = pagesize' + 1
        BY <2>1, <3>1, Piece DEF ListInv, ListTypeOK
      <3>3. (parent \in BOOLEAN /\ refused \in BOOLEAN)'
        BY <2>1 DEF ListInv, ListTypeOK
      <3>4. ListTypeOK'
        BY <2>1, <2>2, <3>2, <3>3 DEF ListInv, ListTypeOK
      <3>5. errcode' = 0 /\ complete' - FOOTLEN < BUFSIZE - 1
        <4>1. pagesize \in Nat /\ maxsize \in Int /\ complete \in Nat
          BY DEF ListInv, ListTypeOK
        <4>2. complete < BUFSIZE - 1
          BY <3>1, <4>1
        <4> QED
          BY <2>1, <2>2, <4>1, <4>2
      <3>6. complete' < BUFSIZE - 1 => high' = complete' + 1
        BY <3>2
      <3>7. Printed'
        <4>1. ~(errcode' = -2)
          BY <3>5
        <4> QED
          BY <3>2, <3>5, <3>6, <4>1, Zenon DEF Printed
      <3> QED
        BY <2>1, <3>2, <3>4, <3>7 DEF ListInv
    <2>3. CASE errcode # 0
      <3>1. UNCHANGED <<pagesize, maxsize, high>> /\ errcode = -2 /\ complete >= BUFSIZE - 1
        BY <1>5, <2>1, <2>3 DEF ListFoot, Printing
      <3>2. (parent \in BOOLEAN /\ refused \in BOOLEAN)'
        BY <2>1 DEF ListInv, ListTypeOK
      <3>3. ListTypeOK' /\ Printed'
        BY <2>1, <3>1, <3>2 DEF ListInv, ListTypeOK, Printed
      <3> QED
        BY <2>1, <3>1, <3>3 DEF ListInv
    <2> QED
      BY <2>2, <2>3
  <1>6. CASE WriteDir
    <2>1. /\ Printed /\ lst' = "done"
          /\ UNCHANGED <<entries, parent, pagesize, maxsize, high, errcode, complete, refused>>
          /\ pagelen' = (IF errcode = 0 THEN pagesize ELSE errcode) % LISTWORD
      BY <1>6 DEF WriteDir, ListInv
    <2>2. errcode = 0 => pagelen' = pagesize
      BY <2>1, Remainders DEF Printed, ListInv, ListTypeOK
    <2>3. errcode = -1 => pagelen' = LISTWORD - 1
      BY <2>1, ErrorRemainders
    <2>4. errcode = -2 => pagelen' = LISTWORD - 2
      BY <2>1, ErrorRemainders
    <2>5. pagelen' \in -1 .. LISTWORD - 1
      BY <2>1, <2>2, <2>3, <2>4 DEF Printed, ListInv, ListTypeOK
    <2>6. ListTypeOK' /\ high' <= BUFSIZE - 1
      BY <2>1, <2>5 DEF ListInv, ListTypeOK
    <2>7. ListingExact'
      BY <2>1, <2>2, <2>3, <2>4, <2>6 DEF ListingExact, Printed, ListTypeOK, ListInv
    <2> QED
      BY <2>1, <2>6, <2>7 DEF ListInv
  <1>7. CASE ListReset
    <2>1. (parent \in BOOLEAN /\ refused \in BOOLEAN)'
      BY <1>7 DEF ListReset
    <2>2. (entries \in Seq(Entries))'
      BY <1>7 DEF ListReset
    <2>3. ListTypeOK'
      BY <1>7, <2>1, <2>2 DEF ListReset, ListTypeOK
    <2> QED
      BY <1>7, <2>3 DEF ListReset, ListInv
  <1>8. CASE UNCHANGED listVars
    BY <1>8 DEF listVars, ListInv, ListTypeOK, Printing, Printed, ListingExact
  <1> QED
    BY <1>1, <1>2, <1>3, <1>4, <1>5, <1>6, <1>7, <1>8 DEF ListNext, ListStep

(* list_dir never writes outside its buffer, for every directory, every    *)
(* size of the buffer and all lengths of the pieces: snprintf is never     *)
(* given a room that is used up, whose sign would be lost in a size_t.     *)
LEMMA ListingBounded == ListSpec => []ListingInBuffer
  <1>1. ListInv => ListingInBuffer
    BY DEF ListInv, ListingInBuffer
  <1> QED
    BY <1>1, ListInitInv, ListNextInv, PTL DEF ListSpec

(* The length write_dir declares is that of the whole page, unless the     *)
(* directory could not be read or the page did not fit in the buffer; and  *)
(* in those cases it is exactly what the unsigned pagelen makes of it.     *)
LEMMA ListingLength == ListSpec => []ListingExact
  <1>1. ListInv => ListingExact
    BY DEF ListInv, ListingExact
  <1> QED
    BY <1>1, ListInitInv, ListNextInv, PTL DEF ListSpec

(* Both, for every directory and all sizes: the page of a directory stays  *)
(* in its buffer and is as long as its head says.                          *)
THEOREM ListingCorrect == ListSpec => []ListingRight
  <1>1. ListingInBuffer /\ ListingExact => ListingRight
    BY DEF ListingRight
  <1> QED
    BY <1>1, ListingBounded, ListingLength, PTL
-----------------------------------------------------------------------------
(* Files and ranges.  The range used, its first byte, and what the header  *)
(* promises for it.                                                        *)
RangeUsed == GetParamValue(want, "Range")
Start == IF http_code = 206 THEN From(RangeUsed) ELSE 0
Promise(n) ==
  \/ http_code = 200 /\ n = want.size
  \/ /\ http_code = 206 /\ Ranged(want) /\ HasBounds(RangeUsed)
     /\ ~Unsatisfiable(want, RangeUsed) /\ n = Count(want, RangeUsed)

(* So much of what was promised is sent: the bytes from the first one to   *)
(* the offset; none of a length whose sign is lost.  And all of it is.     *)
SentPart ==
  /\ RangeTypeOK /\ Promise(declared) /\ sent = Segment(Start, offset - 1)
  /\ Start <= offset /\ ~NotChanged(want)
  /\ IF Signed(declared) > 0 THEN offset <= Start + declared ELSE offset = Start
SentAll == SentPart /\ (Signed(declared) > 0 => offset = Start + declared)

RangeInv ==
  /\ RangeTypeOK
  /\ rng = "idle" => sent = <<>> /\ offset = 0 /\ ~cut
  /\ rng \in {"mime", "header"} => Promise(count) /\ sent = <<>> /\ offset = Start /\ ~cut
  /\ rng = "copy" => /\ SentPart /\ ~cut
                     /\ count = IF Signed(declared) > 0 THEN Start + declared - offset
                                                        ELSE Signed(declared)
  /\ rng # "idle" /\ http_code # 304 => ~NotChanged(want)
  /\ rng = "done" /\ ~cut => RangeExact
  /\ RangeContained

(* Remainders of numbers next to the word.                                 *)
LEMMA WordRemainders ==
  ASSUME NEW n \in Int
  PROVE  /\ Word \in Nat /\ Word > 0 /\ Word = 2 * HALF /\ HALF \in Nat /\ HALF > 1
         /\ n % Word \in 0 .. Word - 1
         /\ 0 <= n /\ n < Word => n % Word = n
         /\ -Word <= n /\ n < 0 => n % Word = n + Word
         /\ Word <= n /\ n < 2 * Word => n % Word = n - Word
  <1>1. Word \in Nat /\ Word > 0 /\ Word = 2 * HALF /\ HALF \in Nat /\ HALF > 1
    BY HalfPositive DEF Word
  <1> HIDE DEF Word
  <1>2. n % Word \in 0 .. Word - 1
    BY <1>1
  <1>3. 0 <= n /\ n < Word => n % Word = n
    BY <1>1
  <1>4. -Word <= n /\ n < 0 => n % Word = n + Word
    BY <1>1
  <1>5. Word <= n /\ n < 2 * Word => n % Word = n - Word
    BY <1>1
  <1> QED
    BY <1>1, <1>2, <1>3, <1>4, <1>5

(* get_param_value finds the first field of a name.                        *)
LEMMA FirstField ==
  ASSUME NEW w, WantType(w), NEW name, Fields(w, name) # {}
  PROVE  \E i \in Fields(w, name) : /\ GetParamValue(w, name) = w.fields[i].value
                                    /\ \A j \in Fields(w, name) : i <= j
  <1> DEFINE P(i) == \A j \in Fields(w, name) : i <= j
  <1>1. Fields(w, name) \subseteq Nat
    BY DEF Fields, WantType
  <1>2. \E i \in Fields(w, name) : P(i)
    BY <1>1, LeastExists
  <1>3. (CHOOSE i \in Fields(w, name) : P(i)) \in Fields(w, name)
        /\ P(CHOOSE i \in Fields(w, name) : P(i))
    BY <1>2, Zenon
  <1>4. GetParamValue(w, name) = w.fields[CHOOSE i \in Fields(w, name) : P(i)].value
    BY DEF GetParamValue
  <1> QED
    BY <1>3, <1>4, Zenon

(* The bounds of the range that is used.                                   *)
LEMMA RangeBounds ==
  ASSUME NEW w, WantType(w), Ranged(w), HasBounds(GetParamValue(w, "Range"))
  PROVE  LET v == GetParamValue(w, "Range")
         IN  /\ v \in RangeSent(w) /\ From(v) \in 0 .. HALF - 1 /\ To(w, v) \in 0 .. Word - 1
             /\ ~Suffix(v) => v.from = From(v)
  <1> DEFINE v == GetParamValue(w, "Range")
  <1>1. PICK i \in Fields(w, "Range") : v = w.fields[i].value
    BY FirstField DEF Ranged
  <1>2. i \in DOMAIN w.fields
    BY DEF Fields
  <1>3. v \in RangeSent(w)
    BY <1>1, <1>2 DEF RangeSent
  <1>4. /\ v.from = Empty \/ v.from \in 0 .. HALF - 1
        /\ v.to = Empty \/ v.to \in 0 .. Word - 1
    BY <1>1, <1>2 DEF WantType, HasBounds
  <1>5. From(v) \in 0 .. HALF - 1
    BY <1>4, HalfPositive DEF From
  <1>6. To(w, v) \in 0 .. Word - 1
    <2>1. w.size - 1 \in Int
      BY DEF WantType
    <2> QED
      BY <1>4, <2>1, WordRemainders DEF To
  <1>7. ~Suffix(v) => v.from = From(v)
    BY DEF Suffix, From
  <1> QED
    BY <1>3, <1>5, <1>6, <1>7

(* The arithmetic of bytes_to_send on the bounds f and t of a file of s    *)
(* bytes: a range that is accepted lies in the file, or is reversed and    *)
(* its length has no sign left to be positive.                             *)
LEMMA RangeArithmetic ==
  ASSUME NEW f \in 0 .. HALF - 1, NEW t \in 0 .. Word - 1, NEW s \in 0 .. HALF - 1,
         NEW c, c = (t - f + 1) % Word, f < s, (f + c) % Word <= s
  PROVE  /\ c \in 0 .. Word - 1
         /\ f > Signed(t) => Signed(c) <= 0
         /\ f <= Signed(t) => t < s /\ c = t - f + 1 /\ c < HALF /\ Signed(c) = c
  <1>0. Word \in Nat /\ Word > 0 /\ Word = 2 * HALF /\ HALF \in Nat /\ HALF > 1
    BY WordRemainders
  <1> HIDE DEF Word
  <1>1. c \in 0 .. Word - 1
    BY WordRemainders, <1>0
  <1>2. CASE t < f
    <2>1. c = IF t - f + 1 = 0 THEN 0 ELSE t - f + 1 + Word
      BY <1>0, <1>2, WordRemainders
    <2> QED
      BY <1>0, <1>1, <1>2, <2>1 DEF Signed
  <1>3. CASE t >= f /\ t = Word - 1
    <2>1. c = IF f = 0 THEN 0 ELSE Word - f
      <3>1. t - f + 1 = Word - f
        BY <1>0, <1>3
      <3> QED
        BY <1>0, <3>1, WordRemainders
    <2> QED
      BY <1>0, <1>1, <1>3, <2>1 DEF Signed
  <1>4. CASE t >= f /\ t < Word - 1
    <2>1. c = t - f + 1
      BY <1>0, <1>4, WordRemainders
    <2>2. (f + c) % Word = t + 1
      BY <1>0, <1>4, <2>1, WordRemainders
    <2> QED
      BY <1>0, <1>1, <1>4, <2>1, <2>2 DEF Signed
  <1> QED
    BY <1>2, <1>3, <1>4, <1>0

(* A range of bytes of the file is accepted, even when it is reversed.     *)
LEMMA InsideFits ==
  ASSUME NEW f \in 0 .. HALF - 1, NEW t \in 0 .. Word - 1, NEW s \in 0 .. HALF - 1, f < s, t < s
  PROVE  (f + ((t - f + 1) % Word)) % Word = t + 1
  <1>0. Word \in Nat /\ Word = 2 * HALF /\ HALF \in Nat /\ HALF > 1
    BY WordRemainders
  <1> DEFINE d == t - f + 1
  <1> HIDE DEF Word
  <1>1. d \in Int /\ -Word <= d /\ d < Word /\ f + d = t + 1 /\ t + 1 \in Nat /\ t + 1 < Word
    BY <1>0
  <1> HIDE DEF d
  <1>2. CASE d >= 0
    <2>1. d % Word = d
      BY <1>1, <1>2, WordRemainders
    <2> QED
      BY <1>1, <2>1, WordRemainders DEF d
  <1>3. CASE d < 0
    <2>1. d % Word = d + Word
      BY <1>1, <1>3, WordRemainders
    <2>2. f + (d + Word) = t + 1 + Word
      BY <1>0, <1>1
    <2>3. t + 1 + Word \in Int /\ Word <= t + 1 + Word /\ t + 1 + Word < 2 * Word
      BY <1>0, <1>1
    <2> DEFINE e == f + (d % Word)
    <2>4. e = t + 1 + Word
      BY <2>1, <2>2
    <2> HIDE DEF e
    <2>5. e \in Int /\ Word <= e /\ e < 2 * Word
      BY <2>3, <2>4
    <2>6. e % Word = e - Word
      BY <2>5, WordRemainders
    <2>7. e % Word = t + 1
      BY <1>0, <2>4, <2>6
    <2> QED
      BY <2>7 DEF d, e
  <1> QED
    BY <1>1, <1>2, <1>3

(* What a promise amounts to.                                              *)
LEMMA PromiseKept ==
  ASSUME WantType(want), NEW n, Promise(n)
  PROVE  /\ n \in 0 .. Word - 1 /\ Start \in 0 .. HALF - 1
         /\ Signed(n) > 0 => Signed(n) = n /\ Start + n <= want.size
         /\ Signed(n) <= 0 /\ n # 0 => http_code = 206 /\ Reversed(want, RangeUsed)
         /\ http_code = 206 =>
              /\ RangeUsed \in RangeSent(want) /\ Etag(want) = want.mtime
              /\ ~Suffix(RangeUsed) => RangeUsed.from = Start
              /\ ~Reversed(want, RangeUsed) => n = To(want, RangeUsed) - Start + 1 /\ Signed(n) > 0
         /\ http_code # 206 => http_code = 200 /\ n = want.size /\ Start = 0 /\ Signed(n) = n
  <1>0. Word \in Nat /\ Word > 0 /\ Word = 2 * HALF /\ HALF \in Nat /\ HALF > 1
    BY WordRemainders
  <1>1. want.size \in 0 .. HALF - 1
    BY DEF WantType
  <1>2. CASE http_code = 206
    <2> DEFINE f == From(RangeUsed)
    <2> DEFINE t == To(want, RangeUsed)
    <2>1. /\ Ranged(want) /\ HasBounds(RangeUsed) /\ ~Unsatisfiable(want, RangeUsed)
          /\ n = Count(want, RangeUsed)
      BY <1>2 DEF Promise
    <2>2. /\ RangeUsed \in RangeSent(want) /\ f \in 0 .. HALF - 1 /\ t \in 0 .. Word - 1
          /\ ~Suffix(RangeUsed) => RangeUsed.from = f
      BY <2>1, RangeBounds DEF RangeUsed
    <2>3. n = (t - f + 1) % Word
      BY <2>1 DEF Count
    <2>4. f < want.size /\ (f + n) % Word <= want.size
      <3>1. ~(f >= want.size) /\ ~((f + n) % Word > want.size)
        BY <2>1 DEF Unsatisfiable
      <3>2. n \in 0 .. Word - 1
        <4> HIDE DEF f, t, Word
        <4> QED
          BY <1>0, <2>2, <2>3, WordRemainders
      <3>3. (f + n) % Word \in 0 .. Word - 1
        <4> HIDE DEF f, t, Word
        <4> QED
          BY <1>0, <2>2, <3>2, WordRemainders
      <3> HIDE DEF f, t, Word
      <3> QED
        BY <1>0, <1>1, <2>2, <3>1, <3>3
    <2>5. Start = f
      BY <1>2 DEF Start
    <2>6. Reversed(want, RangeUsed) <=> f > Signed(t)
      BY DEF Reversed
    <2>7. Etag(want) = want.mtime
      BY <2>1 DEF Ranged
    <2> HIDE DEF f, t, Word
    <2>8. /\ n \in 0 .. Word - 1
          /\ f > Signed(t) => Signed(n) <= 0
          /\ f <= Signed(t) => t < want.size /\ n = t - f + 1 /\ n < HALF /\ Signed(n) = n
      BY <1>1, <2>2, <2>3, <2>4, RangeArithmetic
    <2>9. Signed(t) \in Int
      BY <1>0, <2>2 DEF Signed
    <2>10. CASE f > Signed(t)
      <3>1. Reversed(want, RangeUsed) /\ Signed(n) <= 0
        BY <2>6, <2>8, <2>10
      <3>2. ~(Signed(n) > 0)
        BY <3>1, <2>8, <1>0 DEF Signed
      <3> QED
        BY <1>2, <2>2, <2>5, <2>7, <2>8, <3>1, <3>2
    <2>11. CASE f <= Signed(t)
      <3>1. n > 0
        BY <2>2, <2>8, <2>9, <2>11, <1>0 DEF Signed
      <3>2. ~Reversed(want, RangeUsed)
        <4>1. f \in Int /\ ~(f > Signed(t))
          BY <1>0, <2>2, <2>9, <2>11
        <4> QED
          BY <2>6, <4>1
      <3>3. n = To(want, RangeUsed) - Start + 1
        BY <2>5, <2>8, <2>11 DEF t
      <3>4. Start + n <= want.size /\ Signed(n) > 0 /\ Signed(n) = n
        BY <1>0, <1>1, <2>2, <2>5, <2>8, <2>11, <3>1
      <3> QED
        BY <1>2, <2>2, <2>5, <2>7, <2>8, <3>2, <3>3, <3>4
    <2> QED
      BY <2>2, <2>9, <2>10, <2>11
  <1>3. CASE http_code # 206
    <2>1. http_code = 200 /\ n = want.size /\ Start = 0
      BY <1>3 DEF Promise, Start
    <2> HIDE DEF Word
    <2> QED
      BY <1>0, <1>1, <1>3, <2>1 DEF Signed
  <1> QED
    BY <1>2, <1>3

(* Runs of offsets.                                                        *)
LEMMA SegmentFacts ==
  ASSUME NEW a \in Int, NEW b \in Int, a <= b
  PROVE  /\ Len(Segment(a, b - 1)) = b - a /\ DOMAIN Segment(a, b - 1) = 1 .. b - a
         /\ \A i \in 1 .. b - a : Segment(a, b - 1)[i] = a + i - 1
         /\ Segment(a, b - 1) \in Seq(Int)
         /\ a = b => Segment(a, b - 1) = <<>>
         /\ a < b => Segment(a, b - 1) # <<>>
  <1>1. Segment(a, b - 1) = [i \in 1 .. b - a |-> a + i - 1]
    <2>1. b - 1 - a + 1 = b - a
      OBVIOUS
    <2> QED
      BY <2>1 DEF Segment
  <1>2. Segment(a, b - 1) \in Seq(Int) /\ Len(Segment(a, b - 1)) = b - a
    BY <1>1
  <1>3. a = b => Segment(a, b - 1) = <<>>
    BY <1>2
  <1>4. a < b => Segment(a, b - 1) # <<>>
    BY <1>2
  <1> QED
    BY <1>1, <1>2, <1>3, <1>4

LEMMA SegmentGrows ==
  ASSUME NEW a \in Int, NEW b \in Int, a <= b, NEW r \in Nat
  PROVE  Segment(a, b - 1) \o [i \in 1 .. r |-> b + i - 1] = Segment(a, b + r - 1)
  <1> DEFINE s == Segment(a, b - 1)
  <1> DEFINE t == [i \in 1 .. r |-> b + i - 1]
  <1> DEFINE u == Segment(a, b + r - 1)
  <1>1. /\ s \in Seq(Int) /\ Len(s) = b - a
        /\ \A i \in 1 .. b - a : s[i] = a + i - 1
    BY SegmentFacts
  <1>2. t \in Seq(Int) /\ Len(t) = r /\ \A i \in 1 .. r : t[i] = b + i - 1
    OBVIOUS
  <1>3. /\ u \in Seq(Int) /\ Len(u) = b + r - a
        /\ \A i \in 1 .. b + r - a : u[i] = a + i - 1
    <2> DEFINE e == b + r
    <2>1. e \in Int /\ a <= e
      OBVIOUS
    <2> HIDE DEF e
    <2>2. /\ Segment(a, e - 1) \in Seq(Int) /\ Len(Segment(a, e - 1)) = e - a
          /\ \A i \in 1 .. e - a : Segment(a, e - 1)[i] = a + i - 1
      BY <2>1, SegmentFacts
    <2> QED
      BY <2>2 DEF e
  <1> HIDE DEF s, t, u
  <1>4. s \o t \in Seq(Int) /\ Len(s \o t) = b + r - a
    <2>1. s \o t \in Seq(Int) /\ Len(s \o t) = Len(s) + Len(t)
      BY <1>1, <1>2, ConcatProperties
    <2> QED
      BY <1>1, <1>2, <2>1
  <1>5. ASSUME NEW i \in 1 .. b + r - a PROVE (s \o t)[i] = u[i]
    <2>1. CASE i <= b - a
      BY <1>1, <1>2, <1>3, <2>1
    <2>2. CASE i > b - a
      <3>1. (s \o t)[i] = t[i - (b - a)]
        BY <1>1, <1>2, <2>2
      <3>2. i - (b - a) \in 1 .. r
        BY <2>2
      <3>3. t[i - (b - a)] = b + (i - (b - a)) - 1
        BY <1>2, <3>2
      <3> QED
        BY <1>3, <3>1, <3>3
    <2>3. i <= b - a \/ i > b - a
      OBVIOUS
    <2> QED
      BY <2>1, <2>2, <2>3, Zenon
  <1>6. s \o t = u
    BY <1>3, <1>4, <1>5, SeqEqual
  <1> QED
    BY <1>6 DEF s, t, u

(* check_etag and the copies the client names.                             *)
LEMMA EtagChecked ==
  ASSUME NEW w, WantType(w)
  PROVE  /\ NotChanged(w) => w.mtime \in Copies(w)
         /\ ~NotChanged(w) => w.mtime \notin Copies(w) \/ Repeated(w, "If-None-Match")
  <1> DEFINE F == Fields(w, "If-None-Match")
  <1>1. F = {k \in DOMAIN w.fields : w.fields[k].name = "If-None-Match"}
    BY DEF Fields, NamesHolding
  <1>2. Copies(w) = {w.fields[i].value.etag : i \in F}
    BY <1>1 DEF Copies
  <1>3. ASSUME F # {}
        PROVE  \E i \in F : GetParamValue(w, "If-None-Match") = w.fields[i].value
    BY <1>3, FirstField
  <1> HIDE DEF F
  <1>4. NotChanged(w) => w.mtime \in Copies(w)
    BY <1>2, <1>3 DEF NotChanged, F
  <1>5. ASSUME ~NotChanged(w), w.mtime \in Copies(w) PROVE Repeated(w, "If-None-Match")
    <2>1. PICK i \in F : w.mtime = w.fields[i].value.etag
      BY <1>2, <1>5
    <2>2. PICK j \in F : GetParamValue(w, "If-None-Match") = w.fields[j].value
      BY <1>3, <2>1
    <2>3. i # j
      BY <1>5, <2>1, <2>2 DEF NotChanged, F
    <2> QED
      BY <2>1, <2>2, <2>3 DEF Repeated, F
  <1> QED
    BY <1>4, <1>5

LEMMA RangeInitInv == RangeInit => RangeInv
  <1> SUFFICES ASSUME RangeInit PROVE RangeInv
    OBVIOUS
  <1>1. WantType(NoFile)
    BY HalfPositive DEF NoFile, WantType
  <1>2. RangeTypeOK
    <2>1. cut \in BOOLEAN
      BY DEF RangeInit
    <2>2. offset \in 0 .. Word - 1 /\ count \in (-Word) .. (Word - 1) /\ declared \in 0 .. Word - 1
      BY HalfPositive DEF RangeInit, Word
    <2> QED
      BY <1>1, <2>1, <2>2 DEF RangeInit, RangeTypeOK
  <1>3. RangeContained
    BY DEF RangeInit, RangeContained
  <1> QED
    BY <1>2, <1>3 DEF RangeInit, RangeInv

(* Before anything is sent, nothing wrong was.                             *)
LEMMA NothingSent ==
  sent = <<>> /\ (rng # "done" \/ ~(http_code \in {200, 206})) => RangeContained
  <1>1. sent = <<>> => DOMAIN sent = {}
    OBVIOUS
  <1> QED
    BY <1>1, Zenon DEF RangeContained

LEMMA NothingSentNext ==
  (sent = <<>> /\ (rng # "done" \/ ~(http_code \in {200, 206})) => RangeContained)'
  BY NothingSent, PTL

(* What is sent is in order and inside the file.                           *)
LEMMA SentContained == SentPart /\ (rng = "done" /\ ~cut => SentAll) => RangeContained
  <1> SUFFICES ASSUME SentPart, rng = "done" /\ ~cut => SentAll PROVE RangeContained
    OBVIOUS
  <1> DEFINE n == declared
  <1>a. /\ RangeTypeOK /\ Promise(n) /\ offset \in Int /\ Start <= offset
        /\ sent = Segment(Start, offset - 1)
    BY DEF SentPart, RangeTypeOK
  <1>1. /\ n \in 0 .. Word - 1 /\ Start \in 0 .. HALF - 1
        /\ Signed(n) > 0 => Signed(n) = n /\ Start + n <= want.size
        /\ Signed(n) <= 0 /\ n # 0 => http_code = 206 /\ Reversed(want, RangeUsed)
        /\ http_code = 206 => RangeUsed \in RangeSent(want)
    BY <1>a, PromiseKept DEF RangeTypeOK
  <1>0. Word \in Nat /\ Word = 2 * HALF /\ HALF \in Nat /\ HALF > 1 /\ want.size \in Nat
    BY <1>a, WordRemainders DEF RangeTypeOK, WantType
  <1>2. Start \in Int /\ Signed(n) \in Int
    BY <1>0, <1>1 DEF Signed
  <1> DEFINE s == Start
  <1>b. /\ Signed(n) > 0 => offset <= Start + n
        /\ Signed(n) <= 0 => offset = Start
    BY <1>2 DEF SentPart
  <1> HIDE DEF n, s, Word
  <1>3. /\ Len(sent) = offset - s /\ DOMAIN sent = 1 .. offset - s
        /\ \A i \in 1 .. offset - s : sent[i] = s + i - 1
        /\ s = offset => sent = <<>>
    BY <1>a, <1>2, SegmentFacts DEF s
  <1>4. sent = <<>> \/ sent = Segment(sent[1], sent[1] + Len(sent) - 1)
    <2>1. CASE s = offset
      BY <1>3, <2>1
    <2>2. CASE s < offset
      <3>1. sent[1] = s /\ sent[1] + Len(sent) - 1 = offset - 1
        BY <1>a, <1>2, <1>3, <2>2 DEF s
      <3> QED
        BY <1>a, <3>1 DEF s
    <2> QED
      BY <1>a, <1>2, <2>1, <2>2 DEF s
  <1>5. ASSUME NEW i \in DOMAIN sent PROVE sent[i] < want.size
    <2>1. i \in 1 .. offset - s /\ sent[i] = s + i - 1
      BY <1>3, <1>5
    <2>2. Signed(n) > 0 /\ offset <= s + n /\ s + n <= want.size
      BY <1>a, <1>b, <1>1, <1>2, <2>1 DEF s
    <2> QED
      BY <1>a, <1>0, <1>1, <1>2, <2>1, <2>2 DEF s
  <1>6. ASSUME rng = "done", ~cut, declared # Len(sent)
        PROVE  \E v \in RangeSent(want) : Reversed(want, v)
    <2>1. declared = n /\ (Signed(n) > 0 => offset = s + n)
      BY <1>6 DEF s, n, SentAll
    <2>2. Signed(n) <= 0 /\ n # 0
      <3>1. CASE Signed(n) > 0
        BY <1>a, <1>1, <1>2, <1>3, <1>6, <2>1, <3>1 DEF s
      <3>2. CASE Signed(n) <= 0
        BY <1>a, <1>b, <1>1, <1>2, <1>3, <1>6, <2>1, <3>2 DEF s
      <3> QED
        BY <1>2, <3>1, <3>2
    <2> QED
      BY <1>1, <2>2
  <1> QED
    BY <1>4, <1>5, <1>6, Zenon DEF RangeContained

(* At the end of fd_copy the promise is kept.                              *)
LEMMA AllSent == SentAll => RangeExact
  <1> SUFFICES ASSUME SentAll PROVE RangeExact
    OBVIOUS
  <1> DEFINE n == declared
  <1>a. /\ RangeTypeOK /\ Promise(declared) /\ ~NotChanged(want) /\ offset \in Int
        /\ sent = Segment(Start, offset - 1)
        /\ IF Signed(n) > 0 THEN offset = Start + n ELSE offset = Start
    BY DEF SentAll, SentPart, RangeTypeOK
  <1>1. /\ n \in 0 .. Word - 1 /\ Start \in 0 .. HALF - 1
        /\ http_code = 206 =>
              /\ RangeUsed \in RangeSent(want) /\ Etag(want) = want.mtime
              /\ ~Suffix(RangeUsed) => RangeUsed.from = Start
              /\ ~Reversed(want, RangeUsed) => n = To(want, RangeUsed) - Start + 1 /\ Signed(n) > 0
        /\ http_code # 206 => http_code = 200 /\ n = want.size /\ Start = 0 /\ Signed(n) = n
    BY <1>a, PromiseKept DEF RangeTypeOK
  <1>0. Word \in Nat /\ Word = 2 * HALF /\ HALF \in Nat /\ HALF > 1 /\ want.size \in Nat
    BY <1>a, WordRemainders DEF RangeTypeOK, WantType
  <1>2. Start \in Int /\ Signed(n) \in Int
    BY <1>0, <1>1 DEF Signed
  <1>3. want.mtime \notin Copies(want) \/ Repeated(want, "If-None-Match")
    BY <1>a, EtagChecked DEF RangeTypeOK
  <1>4. CASE http_code = 206
    <2>1. ASSUME ~Reversed(want, RangeUsed), ~Suffix(RangeUsed)
          PROVE  sent = Segment(RangeUsed.from, To(want, RangeUsed)) /\ declared = Len(sent)
      <3>1. offset = Start + n /\ n = To(want, RangeUsed) - Start + 1 /\ RangeUsed.from = Start
            /\ n > 0
        <4>1. Signed(n) > 0 /\ n = To(want, RangeUsed) - Start + 1 /\ RangeUsed.from = Start
          BY <1>1, <1>4, <2>1
        <4>2. n > 0
          BY <1>0, <1>1, <4>1 DEF Signed
        <4> QED
          BY <1>a, <4>1, <4>2
      <3>2. n \in Nat /\ Start \in Nat
        BY <1>0, <1>1
      <3>3. To(want, RangeUsed) \in Int
        <4>1. Ranged(want) /\ HasBounds(RangeUsed)
          BY <1>a, <1>4 DEF Promise
        <4>2. To(want, RangeUsed) \in 0 .. Word - 1
          BY <1>a, <4>1, RangeBounds DEF RangeUsed, RangeTypeOK
        <4> QED
          BY <1>0, <4>2
      <3>4. offset - 1 = To(want, RangeUsed)
        BY <1>a, <3>1, <3>2, <3>3
      <3>5. Len(sent) = offset - Start
        <4>1. Start <= offset
          BY <3>1, <3>2
        <4>2. Len(Segment(Start, offset - 1)) = offset - Start
          BY <1>a, <1>2, <4>1, SegmentFacts, Zenon
        <4> QED
          BY <1>a, <4>2
      <3> QED
        BY <1>a, <3>1, <3>2, <3>4, <3>5
    <2>2. \E v \in RangeSent(want) :
            \/ Reversed(want, v) \/ Suffix(v)
            \/ sent = Segment(v.from, To(want, v)) /\ declared = Len(sent)
      BY <1>1, <1>4, <2>1
    <2> QED
      BY <1>1, <1>3, <1>4, <2>2 DEF RangeExact
  <1>5. CASE http_code # 206
    <2>1. offset = want.size /\ declared = want.size /\ Start = 0 /\ http_code = 200
      BY <1>a, <1>0, <1>1, <1>5
    <2> QED
      BY <1>a, <1>3, <2>1 DEF RangeExact
  <1> QED
    BY <1>4, <1>5

LEMMA SentNext ==
  /\ (SentPart /\ (rng = "done" /\ ~cut => SentAll) => RangeContained)'
  /\ (SentAll => RangeExact)'
  BY SentContained, AllSent, PTL

(* check_etag and bytes_to_send.                                           *)
LEMMA RangeStarts ==
  ASSUME RangeInv, NEW w, WantType(w), WriteFile(w)
  PROVE  RangeInv'
  <1>0. /\ rng = "idle" /\ want' = w /\ UNCHANGED <<declared, sent, cut>> /\ sent = <<>>
        /\ offset = 0 /\ ~cut /\ rng' # "idle"
    BY DEF RangeInv, WriteFile, CheckEtag, BytesToSend
  <1>w. Word \in Nat /\ Word = 2 * HALF /\ HALF \in Nat /\ HALF > 1
    BY WordRemainders
  <1>b. cut' \in BOOLEAN
    BY <1>0 DEF RangeInv, RangeTypeOK
  <1>1. CASE CheckEtag(w)
    <2>1. /\ NotChanged(w) /\ http_code' = 304 /\ rng' = "done"
          /\ UNCHANGED <<offset, count, declared, sent, cut>>
      BY <1>1 DEF CheckEtag
    <2>2. RangeTypeOK'
      BY <1>0, <1>b, <2>1 DEF RangeInv, RangeTypeOK
    <2>3. RangeContained'
      <3>1. ~(http_code' \in {200, 206})
        BY <2>1
      <3> QED
        BY <1>0, <2>1, <2>2, <3>1, NothingSentNext
    <2>4. RangeExact'
      <3>1. (want.mtime \in Copies(want))'
        BY <1>0, <2>1, EtagChecked
      <3> QED
        BY <1>0, <2>1, <3>1 DEF RangeExact
    <2> QED
      BY <2>1, <2>2, <2>3, <2>4 DEF RangeInv
  <1>2. CASE BytesToSend(w)
    <2> DEFINE v == GetParamValue(w, "Range")
    <2>0. ~NotChanged(w)
      BY <1>2 DEF BytesToSend
    <2>1. CASE ~Ranged(w) /\ http_code' = 200 /\ count' = w.size /\ rng' = "mime" /\ UNCHANGED offset
      <3>1. RangeTypeOK'
        <4>1. count' \in (-Word) .. (Word - 1)
          BY <1>w, <2>1 DEF WantType
        <4> QED
          BY <1>0, <1>b, <2>1, <4>1 DEF RangeInv, RangeTypeOK
      <3>2. RangeContained'
        BY <1>0, <2>1, <3>1, NothingSentNext
      <3>3. Promise(count)' /\ Start' = 0
        BY <1>0, <2>1 DEF Promise, Start
      <3> QED
        BY <1>0, <2>0, <2>1, <3>1, <3>2, <3>3 DEF RangeInv
    <2>2. CASE Ranged(w) /\ ~HasBounds(v) /\ http_code' = 400 /\ rng' = "done" /\ UNCHANGED <<offset, count>>
      <3>1. RangeTypeOK'
        BY <1>0, <1>b, <2>2 DEF RangeInv, RangeTypeOK
      <3>2. RangeContained'
        BY <1>0, <2>2, <3>1, NothingSentNext
      <3>3. (want.mtime \notin Copies(want) \/ Repeated(want, "If-None-Match"))'
        BY <1>0, <2>0, EtagChecked
      <3>4. RangeExact'
        BY <1>0, <2>2, <3>3 DEF RangeExact
      <3> QED
        BY <1>0, <2>0, <2>2, <3>1, <3>2, <3>4 DEF RangeInv
    <2>3. CASE Ranged(w) /\ HasBounds(v) /\ Unsatisfiable(w, v) /\ http_code' = 416 /\ rng' = "done"
               /\ UNCHANGED <<offset, count>>
      <3>1. RangeTypeOK'
        BY <1>0, <1>b, <2>3 DEF RangeInv, RangeTypeOK
      <3>2. RangeContained'
        BY <1>0, <2>3, <3>1, NothingSentNext
      <3>3. (want.mtime \notin Copies(want) \/ Repeated(want, "If-None-Match"))'
        BY <1>0, <2>0, EtagChecked
      <3>4. v \in RangeSent(w) /\ From(v) \in 0 .. HALF - 1 /\ To(w, v) \in 0 .. Word - 1
        BY <2>3, RangeBounds
      <3>5. From(v) >= w.size \/ To(w, v) >= w.size
        <4> DEFINE f == From(v)
        <4> DEFINE t == To(w, v)
        <4>1. f >= w.size \/ (f + ((t - f + 1) % Word)) % Word > w.size
          <5> HIDE DEF v, Word
          <5> QED
            BY <2>3 DEF Unsatisfiable, Count
        <4>2. f \in 0 .. HALF - 1 /\ t \in 0 .. Word - 1 /\ w.size \in 0 .. HALF - 1
          BY <3>4 DEF WantType
        <4> DEFINE z == w.size
        <4> HIDE DEF f, t, z, Word
        <4>3. f < z /\ t < z => (f + ((t - f + 1) % Word)) % Word = t + 1
          BY <4>2, InsideFits DEF z
        <4>4. f >= w.size \/ t >= w.size
          <5>1. f >= z \/ t >= z
            BY <1>w, <4>1, <4>2, <4>3 DEF z
          <5> QED
            BY <5>1 DEF z
        <4> QED
          BY <4>4 DEF f, t
      <3>6. RangeExact'
        BY <1>0, <2>3, <3>3, <3>4, <3>5 DEF RangeExact
      <3> QED
        BY <1>0, <2>0, <2>3, <3>1, <3>2, <3>6 DEF RangeInv
    <2>4. CASE Ranged(w) /\ HasBounds(v) /\ ~Unsatisfiable(w, v) /\ http_code' = 206
               /\ count' = Count(w, v) /\ offset' = From(v) /\ rng' = "mime"
      <3>1. Promise(count)' /\ Start' = offset'
        BY <1>0, <2>4 DEF Promise, Start, RangeUsed
      <3>2. From(v) \in 0 .. HALF - 1 /\ To(w, v) \in 0 .. Word - 1
        BY <2>4, RangeBounds
      <3>3. RangeTypeOK'
        <4>1. To(w, v) - From(v) + 1 \in Int
          BY <1>w, <3>2
        <4>2. count' \in 0 .. Word - 1
          BY <2>4, <4>1, WordRemainders DEF Count
        <4>3. offset' \in 0 .. Word - 1 /\ count' \in (-Word) .. (Word - 1)
          BY <1>w, <2>4, <3>2, <4>2
        <4> QED
          BY <1>0, <1>b, <2>4, <4>3 DEF RangeInv, RangeTypeOK
      <3>4. RangeContained'
        BY <1>0, <2>4, <3>3, NothingSentNext
      <3> QED
        BY <1>0, <2>0, <2>4, <3>1, <3>3, <3>4 DEF RangeInv
    <2> QED
      BY <1>2, <2>1, <2>2, <2>3, <2>4 DEF BytesToSend
  <1> QED
    BY <1>1, <1>2 DEF WriteFile

(* One turn of fd_copy.                                                    *)
LEMMA RangeCopies ==
  ASSUME RangeInv, FdCopy
  PROVE  RangeInv'
  <1> DEFINE n == IF FILEBUF < count THEN FILEBUF ELSE count
  <1> DEFINE reads == IF want.size - offset < n THEN want.size - offset ELSE n
  <1>0. /\ rng = "copy" /\ SentPart /\ ~cut /\ RangeTypeOK
        /\ count = IF Signed(declared) > 0 THEN Start + declared - offset ELSE Signed(declared)
        /\ UNCHANGED <<want, http_code, declared>>
    BY DEF RangeInv, FdCopy
  <1>1. /\ Word \in Nat /\ Word = 2 * HALF /\ HALF \in Nat /\ HALF > 1 /\ want.size \in 0 .. HALF - 1
        /\ offset \in Nat /\ count \in Int /\ declared \in 0 .. Word - 1 /\ FILEBUF \in Nat /\ FILEBUF > 0
    <2>1. Word \in Nat /\ Word = 2 * HALF /\ HALF \in Nat /\ HALF > 1
      BY WordRemainders
    <2> QED
      BY <1>0, <2>1, FilebufPositive DEF RangeTypeOK, WantType
  <1>2. /\ Start \in 0 .. HALF - 1 /\ Start <= offset
        /\ Signed(declared) > 0 => Signed(declared) = declared /\ Start + declared <= want.size
    BY <1>0, PromiseKept DEF SentPart, RangeTypeOK
  <1>3. Signed(declared) \in Int /\ Start \in Int
    BY <1>1, <1>2 DEF Signed
  <1>4. Start' = Start /\ Promise(declared)' = Promise(declared)
    BY <1>0 DEF Start, Promise, RangeUsed
  <1>5. ~NotChanged(want)
    BY <1>0 DEF SentPart
  <1>b. ~NotChanged(want)'
    BY <1>0, <1>5
  <1>6. CASE count > 0 /\ reads > 0
    <2>1. /\ offset' = offset + reads /\ count' = count - reads
          /\ \/ sent' = sent \o [i \in 1 .. reads |-> offset + i - 1] /\ UNCHANGED <<rng, cut>>
             \/ rng' = "done" /\ cut' = TRUE /\ UNCHANGED sent
      BY <1>6 DEF FdCopy
    <2>2. Signed(declared) > 0 /\ count = Start + declared - offset
      <3>1. Signed(declared) > 0 \/ count = Signed(declared)
        BY <1>0
      <3> QED
        BY <1>0, <1>1, <1>3, <1>6, <3>1
    <2>3. reads \in Nat /\ reads <= count
      BY <1>1, <1>6
    <2> HIDE DEF reads, n, Word
    <2>4. /\ offset' \in 0 .. HALF - 1 /\ Start <= offset' /\ offset' <= Start + declared
          /\ count' = Start + declared - offset' /\ count' \in 0 .. HALF - 1
      <3>1. declared \in Nat /\ Start \in Nat /\ Start + declared <= want.size
        BY <1>1, <1>2, <2>2
      <3> QED
        BY <1>1, <1>2, <2>1, <2>2, <2>3, <3>1
    <2>5. CASE sent' = sent \o [i \in 1 .. reads |-> offset + i - 1] /\ UNCHANGED <<rng, cut>>
      <3>1. sent' = Segment(Start, offset' - 1)
        <4>1. sent = Segment(Start, offset - 1)
          BY <1>0 DEF SentPart
        <4>2. Segment(Start, offset - 1) \o [i \in 1 .. reads |-> offset + i - 1]
                = Segment(Start, offset + reads - 1)
          <5>1. Start \in Int /\ offset \in Int /\ Start <= offset /\ reads \in Nat
            BY <1>1, <1>2, <1>3, <2>3
          <5> QED
            BY <5>1, SegmentGrows, Zenon
        <4>3. sent' = Segment(Start, offset + reads - 1)
          BY <2>5, <4>1, <4>2, Zenon
        <4>4. offset' = offset + reads
          BY <2>1, Zenon
        <4>5. offset' - 1 = offset + reads - 1
          BY <1>1, <2>3, <4>4
        <4> QED
          BY <4>3, <4>5, Zenon
      <3>2. RangeTypeOK'
        <4>1. cut' \in BOOLEAN
          BY <1>0, <2>5 DEF RangeTypeOK
        <4>2. offset' \in 0 .. Word - 1 /\ count' \in (-Word) .. (Word - 1)
          BY <1>1, <2>4
        <4> QED
          BY <1>0, <2>5, <4>1, <4>2 DEF RangeTypeOK, Word
      <3>3. SentPart'
        <4>1. Signed(declared') > 0
          BY <1>0, <2>2
        <4> QED
          BY <1>0, <1>4, <1>b, <2>4, <3>1, <3>2, <4>1 DEF SentPart
      <3>4. RangeContained'
        BY <1>0, <2>5, <3>3, SentNext
      <3> QED
        BY <1>0, <1>4, <1>b, <2>2, <2>4, <2>5, <3>2, <3>3, <3>4 DEF RangeInv
    <2>6. CASE rng' = "done" /\ cut' = TRUE /\ UNCHANGED sent
      <3>1. RangeTypeOK'
        <4>1. cut' \in BOOLEAN
          BY <2>6
        <4>2. offset' \in 0 .. Word - 1 /\ count' \in (-Word) .. (Word - 1)
          BY <1>1, <2>4
        <4> QED
          BY <1>0, <2>6, <4>1, <4>2 DEF RangeTypeOK, Word
      <3>2. RangeContained'
        <4>1. RangeContained
          BY DEF RangeInv
        <4>2. /\ sent' = <<>> \/ sent' = Segment(sent'[1], sent'[1] + Len(sent') - 1)
              /\ \A i \in DOMAIN sent' : sent'[i] < want'.size
          BY <1>0, <2>6, <4>1 DEF RangeContained
        <4> QED
          BY <2>6, <4>2, Zenon DEF RangeContained
      <3> QED
        BY <1>b, <2>6, <3>1, <3>2 DEF RangeInv
    <2> QED
      BY <2>1, <2>5, <2>6
  <1>7. CASE ~(count > 0 /\ reads > 0)
    <2>1. rng' = "done" /\ UNCHANGED <<offset, count, sent, cut>>
      BY <1>7 DEF FdCopy
    <2>2. Signed(declared) > 0 => offset = Start + declared
      <3>1. ASSUME Signed(declared) > 0 PROVE offset = Start + declared
        <4>1. /\ count = Start + declared - offset /\ offset <= Start + declared
              /\ Start + declared <= want.size /\ declared \in Nat /\ Start \in Nat
          BY <1>0, <1>1, <1>2, <3>1 DEF SentPart
        <4> QED
          BY <1>1, <1>7, <4>1
      <3> QED
        BY <3>1
    <2>3. SentAll
      BY <1>0, <2>2 DEF SentAll
    <2>4. SentAll'
      <3>1. RangeTypeOK'
        BY <1>0, <2>1 DEF RangeTypeOK
      <3> QED
        BY <1>0, <1>4, <1>b, <2>1, <2>3, <3>1 DEF SentAll, SentPart
    <2>5. RangeExact' /\ RangeContained'
      BY <2>4, SentNext DEF SentAll
    <2> QED
      BY <1>b, <2>1, <2>4, <2>5 DEF RangeInv, SentAll, SentPart
  <1> QED
    BY <1>6, <1>7

LEMMA RangeNextInv == RangeInv /\ [RangeNext]_rangeVars => RangeInv'
  <1> SUFFICES ASSUME RangeInv, [RangeNext]_rangeVars PROVE RangeInv'
    OBVIOUS
  <1>0. Word \in Nat /\ Word = 2 * HALF /\ HALF \in Nat /\ HALF > 1
    BY WordRemainders
  <1>b. cut \in BOOLEAN /\ RangeTypeOK
    BY DEF RangeInv, RangeTypeOK
  <1>1. ASSUME NEW w, WantType(w), WriteFile(w) PROVE RangeInv'
    BY <1>1, RangeStarts
  <1>2. CASE MimeGetFd \/ NoMime
    <2>1. /\ rng = "mime" /\ rng' = "header" /\ offset' = offset
          /\ UNCHANGED <<want, count, http_code, declared, sent, cut>>
      BY <1>2 DEF MimeGetFd, NoMime
    <2>2. RangeTypeOK'
      BY <1>b, <2>1 DEF RangeTypeOK
    <2>3. Promise(count)' /\ Start' = Start /\ sent = <<>> /\ offset = Start /\ ~cut
      BY <2>1 DEF RangeInv, Promise, Start, RangeUsed
    <2>4. RangeContained'
      BY <2>1, <2>3, NothingSentNext
    <2>5. http_code' # 304 => ~NotChanged(want')
      BY <2>1 DEF RangeInv
    <2> QED
      BY <2>1, <2>2, <2>3, <2>4, <2>5 DEF RangeInv
  <1>3. CASE MimeCrash
    <2>1. /\ rng = "mime" /\ rng' = "crash"
          /\ UNCHANGED <<want, offset, count, http_code, declared, sent, cut>>
      BY <1>3 DEF MimeCrash
    <2>2. RangeTypeOK' /\ sent = <<>>
      BY <1>b, <2>1 DEF RangeTypeOK, RangeInv
    <2>3. RangeContained'
      BY <2>1, <2>2, NothingSentNext
    <2>4. http_code' # 304 => ~NotChanged(want')
      BY <2>1 DEF RangeInv
    <2> QED
      BY <2>1, <2>2, <2>3, <2>4 DEF RangeInv
  <1>4. CASE RangeHeader
    <2>1. /\ rng = "header" /\ rng' = "copy" /\ declared' = count /\ count' = Signed(count)
          /\ UNCHANGED <<want, offset, http_code, sent, cut>>
      BY <1>4 DEF RangeHeader
    <2>2. Promise(count) /\ Start' = Start /\ sent = <<>> /\ offset = Start /\ ~cut
      BY <2>1 DEF RangeInv, Promise, Start, RangeUsed
    <2>3. count \in 0 .. Word - 1 /\ Start \in 0 .. HALF - 1
      BY <1>b, <2>2, PromiseKept DEF RangeTypeOK
    <2>4. Signed(count) \in Int /\ Signed(count) \in (-Word) .. (Word - 1) /\ Signed(count) <= count
      BY <1>0, <2>3 DEF Signed
    <2>5. RangeTypeOK'
      BY <1>b, <2>1, <2>3, <2>4 DEF RangeTypeOK
    <2>6. Promise(declared)'
      BY <2>1, <2>2 DEF Promise, RangeUsed
    <2>7. http_code' # 304 => ~NotChanged(want')
      BY <2>1 DEF RangeInv
    <2>8. http_code' # 304
      BY <2>1, <2>2 DEF Promise
    <2>9. sent' = Segment(Start', offset' - 1)
      <3>1. Start \in Int
        BY <1>0, <2>3
      <3>2. Segment(Start, Start - 1) = <<>>
        BY <3>1, SegmentFacts
      <3> QED
        BY <2>1, <2>2, <3>2
    <2>10. SentPart'
      <3>1. Start' <= offset'
        BY <1>0, <2>1, <2>2, <2>3
      <3>2. IF Signed(declared') > 0 THEN offset' <= Start' + declared' ELSE offset' = Start'
        BY <1>0, <2>1, <2>2, <2>3, <2>4
      <3> QED
        BY <2>5, <2>6, <2>7, <2>8, <2>9, <3>1, <3>2 DEF SentPart
    <2>11. count' = IF Signed(declared') > 0 THEN Start' + declared' - offset' ELSE Signed(declared')
      <3>1. Signed(count) > 0 => Signed(count) = count
        BY <1>0, <2>3 DEF Signed
      <3> QED
        BY <1>0, <2>1, <2>2, <2>3, <2>4, <3>1
    <2>12. RangeContained'
      BY <2>1, <2>2, NothingSentNext
    <2> QED
      BY <2>1, <2>2, <2>5, <2>7, <2>10, <2>11, <2>12 DEF RangeInv
  <1>5. CASE FdCopy
    BY <1>5, RangeCopies
  <1>6. CASE RangeReset
    <2>1. WantType(NoFile) /\ cut' \in BOOLEAN
      <3>1. WantType(NoFile)
        BY HalfPositive DEF NoFile, WantType
      <3>2. cut' \in BOOLEAN
        BY <1>6 DEF RangeReset
      <3> QED
        BY <3>1, <3>2
    <2>2. offset' \in 0 .. Word - 1 /\ count' \in (-Word) .. (Word - 1) /\ declared' \in 0 .. Word - 1
      BY <1>0, <1>6 DEF RangeReset
    <2>3. RangeTypeOK'
      BY <1>6, <2>1, <2>2 DEF RangeReset, RangeTypeOK
    <2>4. RangeContained'
      BY <1>6, NothingSentNext DEF RangeReset
    <2> QED
      BY <1>6, <2>3, <2>4 DEF RangeReset, RangeInv
  <1>7. CASE UNCHANGED rangeVars
    BY <1>7 DEF rangeVars, RangeInv, RangeTypeOK, Promise, Start, RangeUsed, SentPart, RangeExact, RangeContained
  <1> QED
    BY <1>1, <1>2, <1>3, <1>4, <1>5, <1>6, <1>7 DEF RangeNext, RangeStep

(* What a client gets of a file is what its head says, for every file and  *)
(* every list of fields, and for every width of the numbers and size of    *)
(* fd_copy's buffer: a 200 brings the whole file and a 206 the range that  *)
(* was asked for, whatever was read for the MIME type in between, and no   *)
(* range, a reversed one included, brings a byte from outside the file.    *)
THEOREM RangeCorrect == RangeSpec => []RangeRight
  <1>1. RangeInv => RangeRight
    <2>1. rng # "done" \/ cut => RangeExact
      BY DEF RangeExact
    <2> QED
      BY <2>1 DEF RangeInv, RangeRight
  <1> QED
    BY <1>1, RangeInitInv, RangeNextInv, PTL DEF RangeSpec
-----------------------------------------------------------------------------
(* Heads and URLs.  Strings in the buffer: where they end, and where a     *)
(* text occurs first in them.                                              *)
Memory == [0 .. INBUFFER -> 0 .. 255]
Occurs(mem, i, pat) == \A k \in 1 .. Len(pat) : mem[i + k - 1] = pat[k]

LEMMA StrEndFacts ==
  ASSUME NEW mem \in Memory, NEW p \in 0 .. INBUFFER, NEW q \in p .. INBUFFER, mem[q] = NUL
  PROVE  /\ StrEnd(mem, p) \in p .. q /\ mem[StrEnd(mem, p)] = NUL
         /\ \A j \in p .. StrEnd(mem, p) - 1 : mem[j] # NUL
  <1> DEFINE Nuls == {i \in p .. INBUFFER : mem[i] = NUL}
  <1> DEFINE P(i) == i >= p /\ mem[i] = NUL /\ \A j \in p .. i - 1 : mem[j] # NUL
  <1>0. INBUFFER \in Nat /\ DOMAIN mem = 0 .. INBUFFER /\ p \in Nat /\ p <= INBUFFER
    BY InbufferPositive DEF Memory
  <1>1. PICK f \in Nuls : \A m \in Nuls : f <= m
    <2>1. Nuls \subseteq Nat /\ q \in Nuls
      BY <1>0
    <2> HIDE DEF Nuls
    <2> QED
      BY <2>1, LeastExists
  <1>2. f \in p .. q /\ f <= INBUFFER /\ mem[f] = NUL /\ \A j \in p .. f - 1 : mem[j] # NUL
    BY <1>0, <1>1
  <1>3. f \in DOMAIN mem /\ P(f)
    BY <1>0, <1>2
  <1>4. ASSUME NEW i \in DOMAIN mem, P(i) PROVE i = f
    BY <1>0, <1>2, <1>4
  <1>5. (CHOOSE i \in DOMAIN mem : P(i)) = f
    BY <1>3, <1>4
  <1>6. StrEnd(mem, p) = f
    BY <1>5 DEF StrEnd
  <1> QED
    BY <1>2, <1>6

LEMMA StrStrFacts ==
  ASSUME NEW mem \in Memory, NEW p \in 0 .. INBUFFER, NEW pat \in Seq(0 .. 255),
         NEW e \in p .. INBUFFER, StrEnd(mem, p) = e, NEW h, h = StrStr(mem, p, pat)
  PROVE  /\ h = NULL => \A i \in p .. e - Len(pat) : ~Occurs(mem, i, pat)
         /\ h # NULL => /\ h \in p .. e - Len(pat) /\ Occurs(mem, h, pat)
                        /\ \A i \in p .. h - 1 : ~Occurs(mem, i, pat)
  <1> DEFINE hits == {i \in p .. e - Len(pat) : Occurs(mem, i, pat)}
  <1>0. INBUFFER \in Nat /\ p \in Nat /\ e \in Nat /\ Len(pat) \in Nat
    BY InbufferPositive
  <1>1. h = IF hits = {} THEN NULL ELSE CHOOSE i \in hits : \A j \in hits : i <= j
    BY DEF StrStr, Occurs
  <1>2. CASE hits = {}
    BY <1>1, <1>2
  <1>3. CASE hits # {}
    <2>1. PICK f \in hits : \A m \in hits : f <= m
      <3>1. hits \subseteq Nat
        BY <1>0
      <3> HIDE DEF hits
      <3> QED
        BY <1>3, <3>1, LeastExists
    <2>2. h \in hits /\ \A j \in hits : h <= j
      <3> HIDE DEF hits
      <3> QED
        BY <1>1, <1>3, <2>1
    <2>3. h # NULL
      BY <1>0, <2>2 DEF NULL
    <2>4. ASSUME NEW i \in p .. h - 1, Occurs(mem, i, pat) PROVE FALSE
      <3>1. i \in hits
        BY <1>0, <2>2, <2>4
      <3> QED
        BY <1>0, <2>2, <3>1
    <2> QED
      BY <2>2, <2>3, <2>4
  <1> QED
    BY <1>2, <1>3

LEMMA Patterns ==
  ASSUME NEW mem, NEW i \in Int
  PROVE  /\ CRLFCR \in Seq(0 .. 255) /\ Len(CRLFCR) = 3
         /\ CRLFCRLF \in Seq(0 .. 255) /\ Len(CRLFCRLF) = 4
         /\ Occurs(mem, i, CRLFCR) <=> (mem[i] = CR /\ mem[i + 1] = LF /\ mem[i + 2] = CR)
         /\ Occurs(mem, i, CRLFCRLF)
              <=> (mem[i] = CR /\ mem[i + 1] = LF /\ mem[i + 2] = CR /\ mem[i + 3] = LF)
  <1>1. /\ CRLFCR \in Seq(0 .. 255) /\ Len(CRLFCR) = 3
        /\ CRLFCR[1] = CR /\ CRLFCR[2] = LF /\ CRLFCR[3] = CR
    BY DEF CRLFCR, CR, LF
  <1>2. /\ CRLFCRLF \in Seq(0 .. 255) /\ Len(CRLFCRLF) = 4
        /\ CRLFCRLF[1] = CR /\ CRLFCRLF[2] = LF /\ CRLFCRLF[3] = CR /\ CRLFCRLF[4] = LF
    BY DEF CRLFCRLF, CR, LF
  <1>3. i + 1 - 1 = i /\ i + 2 - 1 = i + 1 /\ i + 3 - 1 = i + 2 /\ i + 4 - 1 = i + 3
    OBVIOUS
  <1>4. Occurs(mem, i, CRLFCR) <=> (mem[i] = CR /\ mem[i + 1] = LF /\ mem[i + 2] = CR)
    <2>1. Occurs(mem, i, CRLFCR) <=> \A k \in 1 .. 3 : mem[i + k - 1] = CRLFCR[k]
      BY <1>1 DEF Occurs
    <2>2. ASSUME NEW k \in 1 .. 3 PROVE k = 1 \/ k = 2 \/ k = 3
      OBVIOUS
    <2>3. 1 \in 1 .. 3 /\ 2 \in 1 .. 3 /\ 3 \in 1 .. 3
      OBVIOUS
    <2>4. ASSUME \A k \in 1 .. 3 : mem[i + k - 1] = CRLFCR[k]
          PROVE  mem[i] = CR /\ mem[i + 1] = LF /\ mem[i + 2] = CR
      BY <1>1, <1>3, <2>3, <2>4, Zenon
    <2>5. ASSUME mem[i] = CR /\ mem[i + 1] = LF /\ mem[i + 2] = CR, NEW k \in 1 .. 3
          PROVE  mem[i + k - 1] = CRLFCR[k]
      BY <1>1, <1>3, <2>2, <2>5
    <2> QED
      BY <2>1, <2>4, <2>5
  <1>5. Occurs(mem, i, CRLFCRLF)
          <=> (mem[i] = CR /\ mem[i + 1] = LF /\ mem[i + 2] = CR /\ mem[i + 3] = LF)
    <2>1. Occurs(mem, i, CRLFCRLF) <=> \A k \in 1 .. 4 : mem[i + k - 1] = CRLFCRLF[k]
      BY <1>2 DEF Occurs
    <2>2. ASSUME NEW k \in 1 .. 4 PROVE k = 1 \/ k = 2 \/ k = 3 \/ k = 4
      OBVIOUS
    <2>3. 1 \in 1 .. 4 /\ 2 \in 1 .. 4 /\ 3 \in 1 .. 4 /\ 4 \in 1 .. 4
      OBVIOUS
    <2>4. ASSUME \A k \in 1 .. 4 : mem[i + k - 1] = CRLFCRLF[k]
          PROVE  mem[i] = CR /\ mem[i + 1] = LF /\ mem[i + 2] = CR /\ mem[i + 3] = LF
      BY <1>2, <1>3, <2>3, <2>4, Zenon
    <2>5. ASSUME mem[i] = CR /\ mem[i + 1] = LF /\ mem[i + 2] = CR /\ mem[i + 3] = LF, NEW k \in 1 .. 4
          PROVE  mem[i + k - 1] = CRLFCRLF[k]
      BY <1>2, <1>3, <2>2, <2>5
    <2> QED
      BY <2>1, <2>4, <2>5
  <1> QED
    BY <1>1, <1>2, <1>4, <1>5

(* What the end of a head is, in the bytes themselves.                     *)
LEMMA EndsAtFacts ==
  ASSUME NEW s \in Seq(0 .. 255), NEW i \in Int
  PROVE  i \in EndsAt(s) <=> i \in 1 .. Len(s) - 2 /\ s[i] = CR /\ s[i + 1] = LF /\ s[i + 2] = CR
  <1>1. ASSUME i \in 1 .. Len(s) - 2
        PROVE  SubSeq(s, i, i + 2) = CRLFCR <=> (s[i] = CR /\ s[i + 1] = LF /\ s[i + 2] = CR)
    <2> DEFINE t == SubSeq(s, i, i + 2)
    <2>0. i + 2 - i + 1 = 3 /\ i \in 1 .. Len(s) /\ i + 2 \in 1 .. Len(s) /\ i <= i + 2
      BY <1>1
    <2>1. t \in Seq(0 .. 255) /\ Len(t) = 3 /\ \A k \in 1 .. 3 : t[k] = s[i + k - 1]
      <3>1. t = [k \in 1 .. 3 |-> s[i + k - 1]]
        BY <2>0
      <3>2. ASSUME NEW k \in 1 .. 3 PROVE s[i + k - 1] \in 0 .. 255
        <4>1. i + k - 1 \in 1 .. Len(s)
          BY <2>0
        <4> QED
          BY <4>1, ElementOfSeq
      <3> HIDE DEF t
      <3> QED
        BY <3>1, <3>2
    <2> HIDE DEF t
    <2>2. i + 1 - 1 = i /\ i + 2 - 1 = i + 1 /\ i + 3 - 1 = i + 2
      BY <1>1
    <2>3. t[1] = s[i] /\ t[2] = s[i + 1] /\ t[3] = s[i + 2]
      BY <2>1, <2>2
    <2>4. /\ CRLFCR \in Seq(0 .. 255) /\ Len(CRLFCR) = 3
          /\ CRLFCR[1] = CR /\ CRLFCR[2] = LF /\ CRLFCR[3] = CR
      BY DEF CRLFCR, CR, LF
    <2>5. ASSUME s[i] = CR /\ s[i + 1] = LF /\ s[i + 2] = CR PROVE t = CRLFCR
      <3>1. ASSUME NEW k \in 1 .. 3 PROVE t[k] = CRLFCR[k]
        <4>1. k = 1 \/ k = 2 \/ k = 3
          OBVIOUS
        <4> QED
          BY <2>3, <2>4, <2>5, <4>1
      <3> QED
        BY <2>1, <2>4, <3>1, SeqEqual, ZenonT(60)
    <2> QED
      BY <2>3, <2>4, <2>5 DEF t
  <1> QED
    BY <1>1 DEF EndsAt

LEMMA FirstEndFacts ==
  ASSUME NEW s \in Seq(0 .. 255), EndsAt(s) # {}
  PROVE  /\ FirstEnd(s) \in 1 .. Len(s) - 2
         /\ s[FirstEnd(s)] = CR /\ s[FirstEnd(s) + 1] = LF /\ s[FirstEnd(s) + 2] = CR
         /\ \A i \in EndsAt(s) : FirstEnd(s) <= i
  <1>1. EndsAt(s) \subseteq Nat /\ EndsAt(s) \subseteq 1 .. Len(s) - 2
    BY DEF EndsAt
  <1>2. PICK f \in EndsAt(s) : \A j \in EndsAt(s) : f <= j
    BY <1>1, LeastExists
  <1>3. FirstEnd(s) \in EndsAt(s) /\ \A j \in EndsAt(s) : FirstEnd(s) <= j
    BY <1>2 DEF FirstEnd
  <1>4. FirstEnd(s) \in Int
    BY <1>1, <1>3
  <1> QED
    BY <1>3, <1>4, EndsAtFacts

LEMMA WellFormedFacts ==
  ASSUME NEW s \in Seq(0 .. 255), WellFormed(s), NEW F, F = FirstEnd(s)
  PROVE  /\ F \in 1 .. Len(s) - 3
         /\ s[F] = CR /\ s[F + 1] = LF /\ s[F + 2] = CR /\ s[F + 3] = LF
         /\ \A i \in 1 .. F + 3 : s[i] # NUL
         /\ \A i \in 1 .. Len(s) - 2 : s[i] = CR /\ s[i + 1] = LF /\ s[i + 2] = CR => F <= i
  <1>1. /\ EndsAt(s) # {} /\ F + 3 <= Len(s) /\ s[F + 3] = LF
        /\ \A i \in 1 .. F : s[i] # NUL
    BY DEF WellFormed
  <1>2. /\ F \in 1 .. Len(s) - 2
        /\ s[F] = CR /\ s[F + 1] = LF /\ s[F + 2] = CR
        /\ \A i \in EndsAt(s) : F <= i
    BY <1>1, FirstEndFacts
  <1>3. ASSUME NEW i \in 1 .. Len(s) - 2, s[i] = CR /\ s[i + 1] = LF /\ s[i + 2] = CR PROVE F <= i
    BY <1>2, <1>3, EndsAtFacts
  <1>4. ASSUME NEW i \in 1 .. F + 3 PROVE s[i] # NUL
    <2>1. i \in 1 .. F \/ i = F + 1 \/ i = F + 2 \/ i = F + 3
      BY <1>2
    <2> QED
      BY <1>1, <1>2, <2>1 DEF CR, LF, NUL
  <1> QED
    BY <1>1, <1>2, <1>3, <1>4

LEMMA RestFacts ==
  ASSUME NEW s \in Seq(0 .. 255), NEW n \in 0 .. Len(s), NEW r, r = SubSeq(s, n + 1, Len(s))
  PROVE  /\ r \in Seq(0 .. 255) /\ Len(r) = Len(s) - n
         /\ \A i \in 1 .. Len(s) - n : r[i] = s[n + i]
  <1> DEFINE L == Len(s)
  <1>0. L \in Nat /\ n \in Nat /\ n <= L /\ L - (n + 1) + 1 = L - n
    OBVIOUS
  <1>1. r = [i \in 1 .. L - n |-> s[n + i]]
    <2>1. n + 1 \in 1 .. L + 1 /\ L \in n .. L
      BY <1>0
    <2>2. r = [i \in 1 .. L - n |-> s[n + 1 + i - 1]]
      BY <1>0, <2>1
    <2>3. ASSUME NEW i \in 1 .. L - n PROVE n + 1 + i - 1 = n + i
      BY <1>0
    <2> QED
      BY <2>2, <2>3
  <1>2. ASSUME NEW i \in 1 .. L - n PROVE s[n + i] \in 0 .. 255
    <2>1. n + i \in 1 .. Len(s)
      BY <1>0
    <2> QED
      BY <2>1, ElementOfSeq
  <1> HIDE DEF L
  <1>3. L - n \in Nat
    BY <1>0
  <1>4. r \in Seq(0 .. 255)
    BY <1>1, <1>2, <1>3
  <1>5. Len(r) = L - n /\ \A i \in 1 .. L - n : r[i] = s[n + i]
    BY <1>1, <1>3
  <1> QED
    BY <1>4, <1>5 DEF L

(* The invariant of the scan.  Everything behind bufFull is 0, at any      *)
(* time; while it reads, the buffer holds the bytes of the request so far, *)
(* no head can end before the place strstr starts from, and a well-formed  *)
(* head is never overrun.                                                  *)
ScanTyped == ScanTypeOK /\ stream \in Seq(0 .. 255)
Clean == \A i \in 0 .. INBUFFER : i >= bufFull => buf[i] = NUL
Reading ==
  scan = "read" =>
    /\ bufFull = taken - first /\ bufFull < INBUFFER /\ from <= bufFull
    /\ \A i \in 0 .. bufFull - 1 : buf[i] = Rest[i + 1]
    /\ WellFormed(Rest) => from < FirstEnd(Rest)
NotOverrun == scan \in {"read", "head", "bad"} /\ WellFormed(Rest) => bufFull <= FirstEnd(Rest) + 3
HeadCut ==
  /\ scan \in {"head", "parsed"} => end + 2 < bufFull /\ bufFull <= INBUFFER
  /\ scan = "head" => buf[end + 2] = NUL
  /\ scan = "parsed" => page \in 0 .. end + 2
  /\ scan = "parsed" /\ url = "idle" => buf[end + 2] = NUL
  /\ url # "idle" => scan = "parsed"
ScanInv == ScanTyped /\ Clean /\ Reading /\ NotOverrun /\ HeadCut /\ HeadExact

LEMMA ScanInitInv == ScanInit /\ UrlInit => ScanInv
  <1> SUFFICES ASSUME ScanInit, UrlInit PROVE ScanInv
    OBVIOUS
  <1>1. INBUFFER \in Nat /\ INBUFFER > 1
    BY InbufferPositive
  <1>2. ScanTyped
    BY <1>1 DEF ScanTyped, ScanTypeOK, ScanInit, NULL, NUL
  <1>3. Clean
    BY <1>1 DEF Clean, ScanInit
  <1> QED
    BY <1>2, <1>3 DEF ScanInv, Reading, NotOverrun, HeadCut, HeadExact, ScanInit, UrlInit

(* What strstr sees of the head while it is read.                          *)
LEMMA Looking ==
  ASSUME ScanInv, scan = "read"
  PROVE  /\ HeadEnd # NULL => HeadEnd \in from .. bufFull - 3
         /\ WellFormed(Rest) =>
              /\ HeadEnd = NULL => bufFull <= FirstEnd(Rest) + 1
              /\ HeadEnd # NULL => /\ HeadEnd = FirstEnd(Rest) - 1 /\ FirstEnd(Rest) + 2 <= bufFull
                                   /\ (StrStr(buf, from, CRLFCRLF) = NULL) <=> (bufFull < FirstEnd(Rest) + 3)
  <1>0. INBUFFER \in Nat /\ bufFull \in Nat /\ bufFull < INBUFFER /\ from \in 0 .. bufFull
        /\ buf \in Memory /\ \A i \in 0 .. INBUFFER : i >= bufFull => buf[i] = NUL
    BY InbufferPositive, SMTT(60) DEF ScanInv, ScanTyped, ScanTypeOK, Reading, Clean, Memory
  <1>1. Rest \in Seq(0 .. 255) /\ Len(Rest) = Len(stream) - first /\ Len(Rest) \in Nat /\ bufFull <= Len(Rest)
    <2>1. stream \in Seq(0 .. 255) /\ first \in 0 .. Len(stream) /\ taken \in 0 .. Len(stream)
          /\ bufFull = taken - first
      BY DEF ScanInv, ScanTyped, ScanTypeOK, Reading
    <2>2. Rest \in Seq(0 .. 255) /\ Len(Rest) = Len(stream) - first
      BY <2>1, RestFacts, ZenonT(60) DEF Rest
    <2> QED
      BY <2>1, <2>2
  <1>2. \A i \in 0 .. bufFull - 1 : buf[i] = Rest[i + 1]
    BY DEF ScanInv, Reading
  <1> DEFINE e == StrEnd(buf, from)
  <1> DEFINE h == HeadEnd
  <1> DEFINE g == StrStr(buf, from, CRLFCRLF)
  <1>3. e \in from .. bufFull /\ buf[e] = NUL
    <2>1. from \in 0 .. INBUFFER /\ bufFull \in from .. INBUFFER /\ buf[bufFull] = NUL
      BY <1>0
    <2> QED
      BY <1>0, <2>1, StrEndFacts
  <1>4. from \in 0 .. INBUFFER /\ e \in from .. INBUFFER /\ from \in Int
    BY <1>0, <1>3
  <1>5. /\ h = NULL => \A i \in from .. e - 3 : ~Occurs(buf, i, CRLFCR)
        /\ h # NULL => /\ h \in from .. e - 3 /\ Occurs(buf, h, CRLFCR)
                       /\ \A i \in from .. h - 1 : ~Occurs(buf, i, CRLFCR)
    <2>1. CRLFCR \in Seq(0 .. 255) /\ Len(CRLFCR) = 3
      BY <1>4, Patterns
    <2>2. h = StrStr(buf, from, CRLFCR)
      BY DEF HeadEnd
    <2> HIDE DEF e, h
    <2>3. /\ h = NULL => \A i \in from .. e - Len(CRLFCR) : ~Occurs(buf, i, CRLFCR)
          /\ h # NULL => /\ h \in from .. e - Len(CRLFCR) /\ Occurs(buf, h, CRLFCR)
                         /\ \A i \in from .. h - 1 : ~Occurs(buf, i, CRLFCR)
      <3>1. StrEnd(buf, from) = e
        BY DEF e
      <3> QED
        BY <1>0, <1>4, <2>1, <2>2, <3>1, StrStrFacts
    <2> QED
      BY <2>1, <2>3
  <1>6. /\ g = NULL => \A i \in from .. e - 4 : ~Occurs(buf, i, CRLFCRLF)
        /\ g # NULL => g \in from .. e - 4 /\ Occurs(buf, g, CRLFCRLF)
    <2>1. CRLFCRLF \in Seq(0 .. 255) /\ Len(CRLFCRLF) = 4
      BY <1>4, Patterns
    <2>2. g = StrStr(buf, from, CRLFCRLF)
      OBVIOUS
    <2> HIDE DEF e, g
    <2>3. /\ g = NULL => \A i \in from .. e - Len(CRLFCRLF) : ~Occurs(buf, i, CRLFCRLF)
          /\ g # NULL => g \in from .. e - Len(CRLFCRLF) /\ Occurs(buf, g, CRLFCRLF)
      <3>1. StrEnd(buf, from) = e
        BY DEF e
      <3> QED
        BY <1>0, <1>4, <2>1, <2>2, <3>1, StrStrFacts
    <2> QED
      BY <2>1, <2>3
  <1> HIDE DEF e, h, g
  <1>7. h # NULL => h \in from .. bufFull - 3
    BY <1>0, <1>3, <1>5
  <1>8. ASSUME WellFormed(Rest)
        PROVE  /\ h = NULL => bufFull <= FirstEnd(Rest) + 1
               /\ h # NULL => /\ h = FirstEnd(Rest) - 1 /\ FirstEnd(Rest) + 2 <= bufFull
                              /\ (g = NULL) <=> (bufFull < FirstEnd(Rest) + 3)
    <2> DEFINE F == FirstEnd(Rest)
    <2>1. /\ F \in 1 .. Len(Rest) - 3
          /\ Rest[F] = CR /\ Rest[F + 1] = LF /\ Rest[F + 2] = CR /\ Rest[F + 3] = LF
          /\ \A i \in 1 .. F + 3 : Rest[i] # NUL
          /\ \A i \in 1 .. Len(Rest) - 2 : Rest[i] = CR /\ Rest[i + 1] = LF /\ Rest[i + 2] = CR => F <= i
      BY <1>1, <1>8, WellFormedFacts
    <2>2. from < F /\ bufFull <= F + 3
      BY <1>8 DEF ScanInv, Reading, NotOverrun
    <2> HIDE DEF F
    <2>a. F \in Int /\ F >= 1 /\ F <= Len(Rest) - 3
      BY <1>1, <2>1
    <2>3. e = bufFull
      <3>1. ASSUME e < bufFull PROVE FALSE
        <4>1. e \in 0 .. bufFull - 1 /\ e + 1 \in 1 .. F + 3
          BY <1>0, <1>3, <2>2, <2>a, <3>1
        <4> QED
          BY <1>2, <1>3, <2>1, <4>1
      <3> QED
        BY <1>0, <1>3, <3>1
    <2>4. ASSUME F + 2 <= bufFull PROVE F - 1 \in from .. e - 3 /\ Occurs(buf, F - 1, CRLFCR)
      <3>1. F - 1 \in 0 .. bufFull - 1 /\ F \in 0 .. bufFull - 1 /\ F + 1 \in 0 .. bufFull - 1
            /\ F - 1 + 1 = F /\ F + 1 + 1 = F + 2 /\ F - 1 + 2 = F + 1 /\ F - 1 \in Int
        BY <1>0, <2>a, <2>4
      <3>2. buf[F - 1] = CR /\ buf[F - 1 + 1] = LF /\ buf[F - 1 + 2] = CR
        <4>1. buf[F - 1] = Rest[F] /\ buf[F] = Rest[F + 1] /\ buf[F + 1] = Rest[F + 2]
          <5>1. buf[F - 1] = Rest[F - 1 + 1] /\ buf[F + 1] = Rest[F + 1 + 1] /\ buf[F] = Rest[F + 1]
            BY <1>2, <3>1
          <5> QED
            BY <3>1, <5>1
        <4> QED
          BY <2>1, <3>1, <4>1
      <3>3. Occurs(buf, F - 1, CRLFCR)
        BY <3>1, <3>2, Patterns
      <3>4. F - 1 \in from .. e - 3
        BY <1>0, <2>2, <2>3, <2>4, <2>a
      <3> QED
        BY <3>3, <3>4
    <2>5. ASSUME NEW i \in from .. e - 3, Occurs(buf, i, CRLFCR) PROVE F - 1 <= i
      <3>1. i \in Int /\ i \in 0 .. bufFull - 1 /\ i + 1 \in 0 .. bufFull - 1 /\ i + 2 \in 0 .. bufFull - 1
            /\ i + 1 \in 1 .. Len(Rest) - 2 /\ (i + 1) + 1 = i + 2 /\ (i + 1) + 2 = i + 3 /\ (i + 2) + 1 = i + 3
        BY <1>0, <1>1, <2>3
      <3>2. buf[i] = CR /\ buf[i + 1] = LF /\ buf[i + 2] = CR
        BY <2>5, <3>1, Patterns
      <3>3. Rest[i + 1] = CR /\ Rest[i + 2] = LF /\ Rest[i + 3] = CR
        <4>1. buf[i] = Rest[i + 1] /\ buf[i + 1] = Rest[(i + 1) + 1] /\ buf[i + 2] = Rest[(i + 2) + 1]
          BY <1>2, <3>1
        <4> QED
          BY <3>1, <3>2, <4>1
      <3>4. F <= i + 1
        BY <2>1, <3>1, <3>3
      <3> QED
        BY <2>a, <3>1, <3>4
    <2>6. h = NULL => bufFull <= F + 1
      <3>1. ASSUME h = NULL, F + 2 <= bufFull PROVE FALSE
        BY <1>5, <2>4, <3>1
      <3> QED
        BY <1>0, <2>a, <3>1
    <2>7. ASSUME h # NULL PROVE h = F - 1 /\ F + 2 <= bufFull
      <3>1. h \in from .. e - 3 /\ Occurs(buf, h, CRLFCR) /\ \A i \in from .. h - 1 : ~Occurs(buf, i, CRLFCR)
        BY <1>5, <2>7
      <3>2. F - 1 <= h
        BY <2>5, <3>1
      <3>3. F + 2 <= bufFull
        BY <1>0, <2>3, <2>a, <3>1, <3>2
      <3>4. F - 1 \in from .. e - 3 /\ Occurs(buf, F - 1, CRLFCR)
        BY <2>4, <3>3
      <3>5. ~(F - 1 < h)
        <4>1. ASSUME F - 1 < h PROVE F - 1 \in from .. h - 1
          BY <1>0, <2>3, <2>a, <3>1, <3>4, <4>1
        <4> QED
          BY <3>1, <3>4, <4>1
      <3> QED
        BY <1>0, <2>3, <2>a, <3>1, <3>2, <3>3, <3>5
    <2>8. ASSUME h # NULL PROVE (g = NULL) <=> (bufFull < F + 3)
      <3>1. ASSUME bufFull < F + 3, g # NULL PROVE FALSE
        <4>1. g \in from .. e - 4 /\ Occurs(buf, g, CRLFCRLF)
          BY <1>6, <3>1
        <4>2. g \in Int /\ g \in from .. e - 3 /\ g < F - 1
          BY <1>0, <2>3, <2>a, <3>1, <4>1
        <4>3. Occurs(buf, g, CRLFCR)
          BY <4>1, <4>2, Patterns
        <4> QED
          BY <2>5, <2>a, <4>2, <4>3
      <3>2. ASSUME ~(bufFull < F + 3), g = NULL PROVE FALSE
        <4>1. F - 1 \in from .. e - 4 /\ F - 1 \in Int /\ F + 2 <= bufFull
              /\ F + 2 \in 0 .. bufFull - 1 /\ (F - 1) + 3 = F + 2 /\ (F + 2) + 1 = F + 3
          BY <1>0, <2>2, <2>3, <2>a, <3>2
        <4>2. buf[F - 1] = CR /\ buf[(F - 1) + 1] = LF /\ buf[(F - 1) + 2] = CR
          BY <2>4, <4>1, Patterns
        <4>3. buf[(F - 1) + 3] = LF
          <5>1. buf[F + 2] = Rest[(F + 2) + 1]
            BY <1>2, <4>1
          <5> QED
            BY <2>1, <4>1, <5>1
        <4>4. Occurs(buf, F - 1, CRLFCRLF)
          BY <4>1, <4>2, <4>3, Patterns
        <4> QED
          BY <1>6, <3>2, <4>1, <4>4
      <3> QED
        BY <3>1, <3>2
    <2> QED
      BY <2>6, <2>7, <2>8 DEF F
  <1> QED
    BY <1>7, <1>8 DEF h, g

(* The tokens of the request line lie in the string.                       *)
LEMMA TokenFacts ==
  ASSUME NEW mem \in Memory, NEW p \in 0 .. INBUFFER, NEW e \in p .. INBUFFER, StrEnd(mem, p) = e,
         mem[e] = NUL
  PROVE  /\ TokenEnd(mem, p) \in p .. e /\ mem[TokenEnd(mem, p)] \in {SP, NUL}
         /\ Skip(mem, p) \in p .. e /\ \A j \in p .. Skip(mem, p) - 1 : mem[j] = SP
  <1>0. INBUFFER \in Nat /\ p \in Nat /\ e \in Nat /\ p <= e
    BY InbufferPositive
  <1>1. TokenEnd(mem, p) \in p .. e /\ mem[TokenEnd(mem, p)] \in {SP, NUL}
    <2> DEFINE Ends == {i \in p .. e : mem[i] \in {SP, NUL}}
    <2>1. PICK f \in Ends : \A m \in Ends : f <= m
      <3>1. Ends \subseteq Nat /\ e \in Ends
        BY <1>0
      <3> HIDE DEF Ends
      <3> QED
        BY <3>1, LeastExists
    <2> DEFINE P(i) == mem[i] \in {SP, NUL} /\ \A j \in p .. i - 1 : mem[j] # SP
    <2>2. f \in p .. e /\ P(f)
      BY <1>0, <2>1
    <2>3. \E i \in p .. e : P(i)
      BY <2>2
    <2>4. (CHOOSE i \in p .. e : P(i)) \in p .. e /\ P(CHOOSE i \in p .. e : P(i))
      <3> HIDE DEF P
      <3> QED
        BY <2>3
    <2> QED
      BY <2>4 DEF TokenEnd
  <1>2. Skip(mem, p) \in p .. e /\ \A j \in p .. Skip(mem, p) - 1 : mem[j] = SP
    <2> DEFINE Texts_ == {i \in p .. e : mem[i] # SP}
    <2>1. PICK f \in Texts_ : \A m \in Texts_ : f <= m
      <3>1. Texts_ \subseteq Nat /\ e \in Texts_
        BY <1>0 DEF SP, NUL
      <3> HIDE DEF Texts_
      <3> QED
        BY <3>1, LeastExists
    <2> DEFINE P(i) == mem[i] # SP /\ \A j \in p .. i - 1 : mem[j] = SP
    <2>2. f \in p .. e /\ P(f)
      BY <1>0, <2>1
    <2>3. \E i \in p .. e : P(i)
      BY <2>2
    <2>4. (CHOOSE i \in p .. e : P(i)) \in p .. e /\ P(CHOOSE i \in p .. e : P(i))
      <3> HIDE DEF P
      <3> QED
        BY <2>3
    <2> QED
      BY <2>4 DEF Skip
  <1> QED
    BY <1>1, <1>2

LEMMA AcceptInv ==
  ASSUME ScanInv, NEW text \in Seq(0 .. 255), NEW slow \in BOOLEAN, Accept(text, slow), UNCHANGED urlVars
  PROVE  ScanInv'
  <1>1. /\ scan' = "start" /\ scan \in {"idle", "bad", "closed"} /\ stream' = text /\ stall' = slow
        /\ taken' = 0 /\ first' = 0 /\ late' = FALSE
        /\ UNCHANGED <<buf, bufFull, from, end, page, http_param>> /\ url' = url
    BY DEF Accept, urlVars
  <1>2. ScanTyped'
    <2>1. stall' \in BOOLEAN /\ late' \in BOOLEAN /\ stream' \in Seq(0 .. 255)
      BY <1>1, Zenon
    <2>2. Len(text) \in Nat /\ 0 \in 0 .. Len(text) /\ 0 \in 0 .. 0
      OBVIOUS
    <2>3. taken' \in 0 .. Len(stream') /\ first' \in 0 .. taken'
      BY <1>1, <2>2, Zenon
    <2> QED
      BY <1>1, <2>1, <2>3 DEF ScanInv, ScanTyped, ScanTypeOK
  <1>3. Clean'
    BY <1>1 DEF ScanInv, Clean
  <1>4. HeadCut'
    BY <1>1 DEF ScanInv, HeadCut
  <1> QED
    BY <1>1, <1>2, <1>3, <1>4 DEF ScanInv, Reading, NotOverrun, HeadExact

LEMMA ScanStartInv ==
  ASSUME ScanInv, ScanStart, UNCHANGED urlVars
  PROVE  ScanInv'
  <1>0. INBUFFER \in Nat /\ INBUFFER > 1
    BY InbufferPositive
  <1>1. /\ scan = "start" /\ buf' = [i \in DOMAIN buf |-> IF i < bufFull THEN NUL ELSE buf[i]]
        /\ bufFull' = 0 /\ from' = 0 /\ first' = taken /\ scan' = "read"
        /\ UNCHANGED <<stream, stall, taken, end, late, page, http_param>> /\ url' = url
    BY DEF ScanStart, urlVars
  <1>2. DOMAIN buf = 0 .. INBUFFER /\ buf \in [0 .. INBUFFER -> 0 .. 255] /\ bufFull \in Int
    BY DEF ScanInv, ScanTyped, ScanTypeOK
  <1>3. \A i \in 0 .. INBUFFER : buf'[i] = NUL
    BY <1>1, <1>2 DEF ScanInv, Clean
  <1>4. buf' \in [0 .. INBUFFER -> 0 .. 255]
    BY <1>1, <1>2 DEF NUL
  <1>5. ScanTyped'
    BY <1>0, <1>1, <1>4 DEF ScanInv, ScanTyped, ScanTypeOK
  <1>6. Clean'
    BY <1>3 DEF Clean
  <1>7. WellFormed(Rest') => FirstEnd(Rest') \in Nat /\ FirstEnd(Rest') >= 1
    <2>1. stream' \in Seq(0 .. 255) /\ first' \in 0 .. Len(stream')
      BY <1>5 DEF ScanTyped, ScanTypeOK
    <2>2. Rest' = SubSeq(stream', first' + 1, Len(stream'))
      BY DEF Rest
    <2>3. Rest' \in Seq(0 .. 255)
      BY <2>1, <2>2, RestFacts
    <2> DEFINE r == Rest'
    <2> HIDE DEF r
    <2>4. WellFormed(r) => FirstEnd(r) \in 1 .. Len(r) - 3
      BY <2>3, WellFormedFacts DEF r
    <2>5. Len(r) \in Nat
      BY <2>3 DEF r
    <2>6. WellFormed(r) => FirstEnd(r) \in Nat /\ FirstEnd(r) >= 1
      BY <2>4, <2>5
    <2> QED
      BY <2>6 DEF r
  <1>8. Reading'
    <2>1. bufFull' = taken' - first'
      BY <1>1, <1>5 DEF ScanTyped, ScanTypeOK
    <2> QED
      BY <1>0, <1>1, <1>7, <2>1 DEF Reading
  <1>9. NotOverrun'
    BY <1>1, <1>7 DEF NotOverrun
  <1>10. HeadCut' /\ HeadExact'
    BY <1>1 DEF ScanInv, HeadCut, HeadExact
  <1> QED
    BY <1>5, <1>6, <1>8, <1>9, <1>10 DEF ScanInv

(* The bytes of a read are put behind the others.                          *)
LEMMA FilledFacts ==
  ASSUME ScanInv, scan = "read", NEW r \in Nat, r <= Left, r <= 2, r <= INBUFFER + 1 - bufFull
  PROVE  /\ Filled(r) \in Memory /\ bufFull + r \in 0 .. INBUFFER + 1 /\ taken + r \in 0 .. Len(stream)
         /\ bufFull + r = taken + r - first
         /\ \A i \in 0 .. bufFull + r - 1 : Filled(r)[i] = Rest[i + 1]
         /\ \A i \in 0 .. INBUFFER : i >= bufFull + r => Filled(r)[i] = NUL
  <1>0. INBUFFER \in Nat /\ bufFull \in Nat /\ bufFull < INBUFFER /\ bufFull = taken - first
        /\ taken \in Nat /\ first \in Nat /\ first <= taken /\ taken <= Len(stream) /\ Len(stream) \in Nat
        /\ buf \in Memory /\ stream \in Seq(0 .. 255) /\ DOMAIN buf = 0 .. INBUFFER
    BY InbufferPositive DEF ScanInv, ScanTyped, ScanTypeOK, Reading, Memory
  <1>1. r + taken <= Len(stream)
    BY <1>0 DEF Left
  <1>2. \A i \in 1 .. Len(stream) - first : Rest[i] = stream[first + i]
    BY <1>0, RestFacts DEF Rest
  <1>3. ASSUME NEW i \in bufFull .. bufFull + r - 1
        PROVE  /\ stream[taken + i - bufFull + 1] = Rest[i + 1]
               /\ stream[taken + i - bufFull + 1] \in 0 .. 255
    <2>1. taken + i - bufFull + 1 = first + (i + 1) /\ i + 1 \in 1 .. Len(stream) - first
          /\ taken + i - bufFull + 1 \in 1 .. Len(stream)
      BY <1>0, <1>1
    <2>2. stream[taken + i - bufFull + 1] \in 0 .. 255
      BY <1>0, <2>1, ElementOfSeq
    <2> QED
      BY <1>2, <2>1, <2>2
  <1>4. \A i \in 0 .. INBUFFER : Filled(r)[i] = IF i \in bufFull .. bufFull + r - 1
                                 THEN stream[taken + i - bufFull + 1] ELSE buf[i]
    BY <1>0 DEF Filled
  <1>5. Filled(r) \in Memory
    <2>1. ASSUME NEW i \in 0 .. INBUFFER
          PROVE  (IF i \in bufFull .. bufFull + r - 1 THEN stream[taken + i - bufFull + 1] ELSE buf[i]) \in 0 .. 255
      BY <1>0, <1>3 DEF Memory
    <2> QED
      BY <1>0, <2>1 DEF Filled, Memory
  <1>6. ASSUME NEW i \in 0 .. bufFull + r - 1 PROVE Filled(r)[i] = Rest[i + 1]
    <2>1. i \in 0 .. INBUFFER
      BY <1>0
    <2>2. CASE i < bufFull
      <3>1. i \in 0 .. bufFull - 1 /\ i \notin bufFull .. bufFull + r - 1
        BY <1>0, <2>2
      <3>2. Filled(r)[i] = buf[i]
        BY <1>4, <2>1, <3>1
      <3> QED
        BY <3>1, <3>2 DEF ScanInv, Reading
    <2>3. CASE ~(i < bufFull)
      <3>1. i \in bufFull .. bufFull + r - 1
        BY <1>0, <2>3
      <3> QED
        BY <1>3, <1>4, <2>1, <3>1
    <2> QED
      BY <2>2, <2>3
  <1>7. ASSUME NEW i \in 0 .. INBUFFER, i >= bufFull + r PROVE Filled(r)[i] = NUL
    <2>1. i \notin bufFull .. bufFull + r - 1 /\ i >= bufFull
      BY <1>0, <1>7
    <2> QED
      BY <1>4, <2>1 DEF ScanInv, Clean
  <1>8. bufFull + r \in 0 .. INBUFFER + 1 /\ taken + r \in 0 .. Len(stream) /\ bufFull + r = taken + r - first
    BY <1>0, <1>1
  <1> QED
    BY <1>5, <1>6, <1>7, <1>8

LEMMA ReceivedFacts ==
  ASSUME ScanInv, NEW n \in Nat, NEW r \in Received(n)
  PROVE  r \in Nat /\ r <= n /\ r <= Left
  <1>1. taken \in 0 .. Len(stream) /\ Len(stream) \in Nat
    BY DEF ScanInv, ScanTyped, ScanTypeOK
  <1>2. Left \in Nat
    BY <1>1 DEF Left
  <1> QED
    BY <1>2 DEF Received, Smaller

LEMMA ScanReadInv ==
  ASSUME ScanInv, ScanRead, UNCHANGED urlVars
  PROVE  ScanInv'
  <1>0. INBUFFER \in Nat /\ INBUFFER > 1 /\ bufFull \in Nat /\ bufFull < INBUFFER
        /\ from \in 0 .. bufFull /\ scan = "read" /\ HeadEnd = NULL
    BY InbufferPositive DEF ScanInv, ScanTyped, ScanTypeOK, Reading, ScanRead
  <1>1. PICK r \in Received(2) :
          /\ buf' = Filled(r) /\ taken' = taken + r /\ bufFull' = bufFull + r
          /\ from' = NewFrom(r)
          /\ scan' = IF r = 0 THEN "closed" ELSE IF Overfull(bufFull') THEN "bad" ELSE "read"
    BY DEF ScanRead
  <1>2. UNCHANGED <<stream, stall, first, end, late, page, http_param>> /\ url' = url
    BY DEF ScanRead, urlVars
  <1>3. r \in Nat /\ r <= 2 /\ r <= Left
    BY ReceivedFacts
  <1>4. /\ Filled(r) \in Memory /\ bufFull + r \in 0 .. INBUFFER + 1 /\ taken + r \in 0 .. Len(stream)
        /\ bufFull + r = taken + r - first
        /\ \A i \in 0 .. bufFull + r - 1 : Filled(r)[i] = Rest[i + 1]
        /\ \A i \in 0 .. INBUFFER : i >= bufFull + r => Filled(r)[i] = NUL
    <2>1. r <= INBUFFER + 1 - bufFull
      BY <1>0, <1>3
    <2> QED
      BY <1>0, <1>3, <2>1, FilledFacts
  <1>5. from' = from \/ (from' = bufFull /\ r > 0 /\ Filled(r)[bufFull] # LF /\ Filled(r)[bufFull] # CR)
    BY <1>1, <1>3 DEF NewFrom
  <1>6. Rest' = Rest
    BY <1>2 DEF Rest
  <1>7. scan' \in {"closed", "bad", "read"} /\ (scan' = "read" => bufFull' < INBUFFER)
    BY <1>0, <1>1, <1>3 DEF Overfull
  <1>8. WellFormed(Rest) => /\ FirstEnd(Rest) \in Nat /\ bufFull' <= FirstEnd(Rest) + 3
                            /\ from' < FirstEnd(Rest)
    <2> SUFFICES ASSUME WellFormed(Rest)
                 PROVE  FirstEnd(Rest) \in Nat /\ bufFull' <= FirstEnd(Rest) + 3 /\ from' < FirstEnd(Rest)
      OBVIOUS
    <2> DEFINE F == FirstEnd(Rest)
    <2>1. bufFull <= F + 1
      BY <1>0, Looking
    <2>2. stream \in Seq(0 .. 255) /\ first \in 0 .. Len(stream)
      BY DEF ScanInv, ScanTyped, ScanTypeOK
    <2>3. Rest \in Seq(0 .. 255)
      BY <2>2, RestFacts DEF Rest
    <2>4. F \in 1 .. Len(Rest) - 3 /\ Rest[F + 1] = LF /\ Rest[F + 2] = CR
      BY <2>3, WellFormedFacts
    <2>5. from < F
      BY <1>0 DEF ScanInv, Reading
    <2> HIDE DEF F
    <2>6. F \in Nat /\ F >= 1
      BY <2>3, <2>4
    <2>7. ASSUME from' = bufFull, r > 0, Filled(r)[bufFull] # LF, Filled(r)[bufFull] # CR
          PROVE  bufFull < F
      <3>1. Filled(r)[bufFull] = Rest[bufFull + 1]
        <4>1. bufFull \in 0 .. bufFull + r - 1
          BY <1>0, <1>3, <2>7
        <4> QED
          BY <1>4, <4>1
      <3>2. bufFull + 1 # F + 1 /\ bufFull + 1 # F + 2
        BY <2>4, <2>7, <3>1
      <3> QED
        BY <1>0, <2>1, <2>6, <3>2
    <2>8. from' < F
      BY <1>5, <2>5, <2>7
    <2>9. bufFull' <= F + 3
      BY <1>0, <1>1, <1>3, <2>1, <2>6
    <2> QED
      BY <2>6, <2>8, <2>9 DEF F
  <1>9. from' \in 0 .. INBUFFER /\ from' <= bufFull'
    BY <1>0, <1>1, <1>3, <1>5
  <1>10. ScanTyped'
    <2>1. first \in Nat /\ taken \in Nat /\ first <= taken /\ first \in 0 .. taken + r
      BY <1>3 DEF ScanInv, ScanTyped, ScanTypeOK
    <2>2. buf' \in [0 .. INBUFFER -> 0 .. 255]
      BY <1>1, <1>4 DEF Memory
    <2>3. taken' \in 0 .. Len(stream') /\ first' \in 0 .. taken' /\ bufFull' \in 0 .. INBUFFER + 1
      BY <1>1, <1>2, <1>4, <2>1
    <2> QED
      BY <1>2, <1>7, <1>9, <2>2, <2>3 DEF ScanInv, ScanTyped, ScanTypeOK
  <1>11. Clean'
    BY <1>1, <1>4 DEF Clean
  <1>12. Reading'
    <2>0. first' = first /\ taken \in Nat /\ first \in Nat
      BY <1>2 DEF ScanInv, ScanTyped, ScanTypeOK
    <2>1. bufFull' = taken' - first'
      BY <1>0, <1>1, <1>3, <1>4, <2>0
    <2>2. ASSUME NEW i \in 0 .. bufFull' - 1 PROVE buf'[i] = Rest'[i + 1]
      <3>1. i \in 0 .. bufFull + r - 1
        BY <1>0, <1>1, <1>3
      <3>2. Filled(r)[i] = Rest[i + 1]
        BY <1>4, <3>1
      <3> QED
        BY <1>1, <1>6, <3>2, Zenon
    <2> QED
      BY <1>6, <1>7, <1>8, <1>9, <2>1, <2>2 DEF Reading
  <1>13. NotOverrun'
    BY <1>6, <1>8 DEF NotOverrun
  <1>14. HeadCut' /\ HeadExact'
    BY <1>0, <1>2, <1>7 DEF ScanInv, HeadCut, HeadExact
  <1> QED
    BY <1>10, <1>11, <1>12, <1>13, <1>14 DEF ScanInv

LEMMA ScanEndInv ==
  ASSUME ScanInv, ScanEnd, UNCHANGED urlVars
  PROVE  ScanInv'
  <1> DEFINE missing == StrStr(buf, from, CRLFCRLF) = NULL
  <1> DEFINE h == HeadEnd
  <1>0. INBUFFER \in Nat /\ bufFull \in Nat /\ bufFull < INBUFFER
        /\ from \in 0 .. bufFull /\ scan = "read" /\ h # NULL
    BY InbufferPositive DEF ScanInv, ScanTyped, ScanTypeOK, Reading, ScanEnd
  <1>1. PICK r \in (IF missing THEN Received(1) ELSE {0}) :
          /\ buf' = [Filled(r) EXCEPT ![h + 2] = NUL]
          /\ taken' = taken + r /\ bufFull' = bufFull + r
          /\ late' = (late \/ (missing /\ r = 0))
    BY DEF ScanEnd
  <1>2. UNCHANGED <<stream, stall, first, from, page, http_param>> /\ url' = url
        /\ end' = h /\ scan' = "head"
    BY DEF ScanEnd, urlVars
  <1>3. r \in Nat /\ r <= 1 /\ r <= Left /\ (~missing => r = 0)
    <2>1. CASE missing
      BY <2>1, ReceivedFacts
    <2>2. CASE ~missing
      <3>1. r = 0
        BY <2>2
      <3>2. taken \in 0 .. Len(stream) /\ Len(stream) \in Nat
        BY DEF ScanInv, ScanTyped, ScanTypeOK
      <3> QED
        BY <3>1, <3>2 DEF Left
    <2> QED
      BY <2>1, <2>2
  <1>4. /\ Filled(r) \in Memory /\ bufFull + r \in 0 .. INBUFFER + 1 /\ taken + r \in 0 .. Len(stream)
        /\ bufFull + r = taken + r - first
        /\ \A i \in 0 .. bufFull + r - 1 : Filled(r)[i] = Rest[i + 1]
        /\ \A i \in 0 .. INBUFFER : i >= bufFull + r => Filled(r)[i] = NUL
    <2>1. r <= INBUFFER + 1 - bufFull /\ r <= 2
      BY <1>0, <1>3
    <2> QED
      BY <1>0, <1>3, <2>1, FilledFacts
  <1>5. h \in from .. bufFull - 3
    BY <1>0, Looking
  <1>6. h \in Nat /\ h + 2 \in 0 .. INBUFFER /\ h + 2 < bufFull
    BY <1>0, <1>5
  <1>7. Rest' = Rest
    BY <1>2 DEF Rest
  <1>8. WellFormed(Rest) =>
          /\ FirstEnd(Rest) \in Nat /\ h = FirstEnd(Rest) - 1 /\ FirstEnd(Rest) + 2 <= bufFull
          /\ missing <=> bufFull < FirstEnd(Rest) + 3
          /\ bufFull <= FirstEnd(Rest) + 3
    <2>1. WellFormed(Rest) => /\ h = FirstEnd(Rest) - 1 /\ FirstEnd(Rest) + 2 <= bufFull
                              /\ missing <=> bufFull < FirstEnd(Rest) + 3
      BY <1>0, Looking
    <2>2. WellFormed(Rest) => bufFull <= FirstEnd(Rest) + 3
      BY <1>0 DEF ScanInv, NotOverrun
    <2>3. stream \in Seq(0 .. 255) /\ first \in 0 .. Len(stream)
      BY DEF ScanInv, ScanTyped, ScanTypeOK
    <2>4. Rest \in Seq(0 .. 255)
      BY <2>3, RestFacts DEF Rest
    <2>5. WellFormed(Rest) => FirstEnd(Rest) \in 1 .. Len(Rest) - 3
      BY <2>4, WellFormedFacts
    <2>6. WellFormed(Rest) => FirstEnd(Rest) \in Nat
      BY <2>4, <2>5
    <2> QED
      BY <2>1, <2>2, <2>6
  <1> HIDE DEF h, missing
  <1>9. /\ buf' \in Memory /\ buf'[h + 2] = NUL
        /\ \A i \in 0 .. INBUFFER : i # h + 2 => buf'[i] = Filled(r)[i]
    BY <1>1, <1>4, <1>6 DEF Memory, NUL
  <1>10. ScanTyped'
    <2>1. first \in Nat /\ taken \in Nat /\ first <= taken /\ first \in 0 .. taken + r
      BY <1>3 DEF ScanInv, ScanTyped, ScanTypeOK
    <2>2. late' \in BOOLEAN
      BY <1>1, Zenon
    <2>3. taken' \in 0 .. Len(stream') /\ first' \in 0 .. taken' /\ bufFull' \in 0 .. INBUFFER + 1
      BY <1>1, <1>2, <1>4, <2>1
    <2>4. end' \in 0 .. INBUFFER
      BY <1>0, <1>2, <1>6
    <2> QED
      BY <1>2, <1>9, <2>2, <2>3, <2>4 DEF ScanInv, ScanTyped, ScanTypeOK, Memory
  <1>11. Clean'
    <2>1. ASSUME NEW i \in 0 .. INBUFFER, i >= bufFull' PROVE buf'[i] = NUL
      BY <1>1, <1>4, <1>9, <2>1
    <2> QED
      BY <2>1 DEF Clean
  <1>12. Reading'
    BY <1>2 DEF Reading
  <1>13. NotOverrun'
    <2>1. WellFormed(Rest) => bufFull' <= FirstEnd(Rest) + 3
      BY <1>0, <1>1, <1>3, <1>8
    <2> QED
      BY <1>7, <2>1 DEF NotOverrun
  <1>14. HeadCut'
    <2>1. end' + 2 < bufFull' /\ bufFull' <= INBUFFER
      BY <1>0, <1>1, <1>2, <1>3, <1>6
    <2>2. buf'[end' + 2] = NUL
      BY <1>2, <1>9
    <2>3. url' = "idle"
      BY <1>0, <1>2 DEF ScanInv, HeadCut
    <2> QED
      BY <1>2, <2>1, <2>2, <2>3 DEF HeadCut
  <1>15. HeadExact'
    <2> SUFFICES ASSUME ~late', WellFormed(Rest)
                 PROVE  /\ end' = FirstEnd(Rest) - 1 /\ taken' - first' = FirstEnd(Rest) + 3
                        /\ \A i \in 0 .. end' + 1 : buf'[i] = Rest[i + 1]
      BY <1>7 DEF HeadExact
    <2>1. ~(missing /\ r = 0)
      BY <1>1
    <2>0. first' = first /\ taken \in Nat /\ first \in Nat
      BY <1>2 DEF ScanInv, ScanTyped, ScanTypeOK
    <2>2. taken' - first' = bufFull + r
      BY <1>0, <1>1, <1>3, <1>4, <2>0
    <2>3. bufFull + r = FirstEnd(Rest) + 3
      <3>1. CASE missing
        BY <1>0, <1>3, <1>8, <2>1, <3>1
      <3>2. CASE ~missing
        BY <1>0, <1>3, <1>8, <3>2
      <3> QED
        BY <3>1, <3>2
    <2>4. ASSUME NEW i \in 0 .. end' + 1 PROVE buf'[i] = Rest[i + 1]
      <3>1. i \in 0 .. INBUFFER /\ i # h + 2 /\ i \in 0 .. bufFull + r - 1
        BY <1>0, <1>2, <1>3, <1>6
      <3> QED
        BY <1>4, <1>9, <3>1
    <2> QED
      BY <1>2, <1>8, <2>2, <2>3, <2>4
  <1> QED
    BY <1>10, <1>11, <1>12, <1>13, <1>14, <1>15 DEF ScanInv

LEMMA TokenizeInv ==
  ASSUME ScanInv, Tokenize, UNCHANGED urlVars
  PROVE  ScanInv'
  <1> DEFINE stop == TokenEnd(buf, 0)
  <1> DEFINE start == Skip(buf, stop)
  <1> DEFINE last == TokenEnd(buf, start)
  <1> DEFINE q == end + 2
  <1>0. INBUFFER \in Nat /\ bufFull \in Nat /\ bufFull <= INBUFFER /\ end \in Nat /\ q < bufFull
        /\ buf[q] = NUL /\ buf \in Memory /\ scan = "head" /\ url = "idle"
    BY InbufferPositive DEF ScanInv, ScanTyped, ScanTypeOK, HeadCut, Tokenize, Memory
  <1>1. UNCHANGED <<stream, stall, taken, first, bufFull, from, end, late>> /\ url' = url
    BY DEF Tokenize, urlVars
  <1>2. \/ scan' = "bad" /\ UNCHANGED <<buf, page, http_param>>
        \/ scan' = "bad" /\ page' = NULL /\ buf' = [buf EXCEPT ![stop] = NUL] /\ UNCHANGED http_param
        \/ /\ scan' = "parsed" /\ page' = start
           /\ http_param' = IF buf[last] = NUL THEN last ELSE last + 1
           /\ buf' = [buf EXCEPT ![stop] = NUL, ![last] = NUL]
    BY DEF Tokenize
  <1> HIDE DEF q
  <1>3. ASSUME NEW p \in 0 .. q
        PROVE  /\ TokenEnd(buf, p) \in p .. q /\ Skip(buf, p) \in p .. q
    <2>1. q \in Nat /\ p \in 0 .. INBUFFER /\ q \in p .. INBUFFER
      BY <1>0 DEF q
    <2>2. StrEnd(buf, p) \in p .. q /\ buf[StrEnd(buf, p)] = NUL
      BY <1>0, <2>1, StrEndFacts
    <2>3. StrEnd(buf, p) \in p .. INBUFFER
      BY <1>0, <2>1, <2>2
    <2>4. TokenEnd(buf, p) \in p .. StrEnd(buf, p) /\ Skip(buf, p) \in p .. StrEnd(buf, p)
      BY <1>0, <2>1, <2>2, <2>3, TokenFacts
    <2> QED
      BY <2>1, <2>2, <2>4
  <1>4. stop \in 0 .. q /\ start \in 0 .. q /\ last \in 0 .. q
    <2>0. q \in Nat
      BY <1>0 DEF q
    <2>1. stop \in 0 .. q
      BY <1>3, <2>0
    <2> HIDE DEF stop
    <2>2. start \in stop .. q
      BY <1>3, <2>1
    <2>3. start \in 0 .. q
      BY <2>0, <2>1, <2>2
    <2> HIDE DEF start
    <2>4. last \in start .. q
      BY <1>3, <2>3
    <2> QED
      BY <2>0, <2>1, <2>3, <2>4
  <1> HIDE DEF stop, start, last
  <1>5. q \in 0 .. INBUFFER /\ q + 1 \in 0 .. INBUFFER /\ stop \in 0 .. INBUFFER /\ start \in 0 .. INBUFFER
        /\ last \in 0 .. INBUFFER /\ last + 1 \in 0 .. INBUFFER
    BY <1>0, <1>4 DEF q
  <1>6. buf' \in Memory /\ \A i \in 0 .. INBUFFER : buf'[i] = buf[i] \/ buf'[i] = NUL
    <2>1. buf \in Memory /\ NUL \in 0 .. 255
      BY <1>0 DEF Memory, NUL
    <2>2. CASE buf' = buf
      BY <2>1, <2>2
    <2>3. CASE buf' = [buf EXCEPT ![stop] = NUL]
      BY <1>5, <2>1, <2>3 DEF Memory
    <2>4. CASE buf' = [buf EXCEPT ![stop] = NUL, ![last] = NUL]
      BY <1>5, <2>1, <2>4 DEF Memory
    <2> QED
      BY <1>2, <2>2, <2>3, <2>4
  <1>7. ScanTyped'
    <2>1. page' \in NULL .. INBUFFER /\ http_param' \in NULL .. INBUFFER
      <3>1. page \in NULL .. INBUFFER /\ http_param \in NULL .. INBUFFER
        BY DEF ScanInv, ScanTyped, ScanTypeOK
      <3> QED
        BY <1>0, <1>2, <1>5, <3>1 DEF NULL
    <2> QED
      BY <1>1, <1>2, <1>6, <2>1 DEF ScanInv, ScanTyped, ScanTypeOK, Memory
  <1>8. Clean'
    BY <1>1, <1>6 DEF ScanInv, Clean
  <1>9. NotOverrun'
    <2>1. Rest' = Rest
      BY <1>1 DEF Rest
    <2> QED
      BY <1>0, <1>1, <1>2, <2>1 DEF ScanInv, NotOverrun
  <1>10. HeadCut'
    <2>1. scan' \in {"bad", "parsed"}
      BY <1>2
    <2>2. end' + 2 < bufFull' /\ bufFull' <= INBUFFER
      BY <1>0, <1>1 DEF q
    <2>3. buf'[end' + 2] = NUL
      BY <1>0, <1>1, <1>5, <1>6 DEF q
    <2>4. scan' = "parsed" => page' \in 0 .. end' + 2
      BY <1>1, <1>2, <1>4 DEF q
    <2>5. url' = "idle"
      BY <1>0, <1>1
    <2> QED
      BY <2>1, <2>2, <2>3, <2>4, <2>5 DEF HeadCut
  <1>11. Reading' /\ HeadExact'
    BY <1>2 DEF Reading, HeadExact
  <1> QED
    BY <1>7, <1>8, <1>9, <1>10, <1>11 DEF ScanInv

(* URLs.  What the helpers of mystring.c change of the buffer: only the    *)
(* string they are given, and nothing of it before the place they work at. *)
LEMMA StrEndIs ==
  ASSUME NEW mem \in Memory, NEW p \in 0 .. INBUFFER, NEW e \in p .. INBUFFER, mem[e] = NUL,
         \A j \in p .. e - 1 : mem[j] # NUL
  PROVE  StrEnd(mem, p) = e
  <1>1. INBUFFER \in Nat /\ p \in Nat /\ e \in Nat
    BY InbufferPositive
  <1>2. StrEnd(mem, p) \in p .. e /\ mem[StrEnd(mem, p)] = NUL
    BY StrEndFacts
  <1>3. ~(StrEnd(mem, p) < e)
    BY <1>1, <1>2
  <1> QED
    BY <1>1, <1>2, <1>3

LEMMA StrEndWithin ==
  ASSUME NEW mem \in Memory, NEW p \in 0 .. INBUFFER, NEW q \in p .. INBUFFER, mem[q] = NUL,
         NEW h \in p .. StrEnd(mem, p)
  PROVE  StrEnd(mem, h) = StrEnd(mem, p)
  <1> DEFINE e == StrEnd(mem, p)
  <1>1. INBUFFER \in Nat /\ p \in Nat /\ q \in Nat /\ q <= INBUFFER
    BY InbufferPositive
  <1>2. e \in p .. q /\ mem[e] = NUL /\ \A j \in p .. e - 1 : mem[j] # NUL
    BY StrEndFacts
  <1> HIDE DEF e
  <1>3. h \in 0 .. INBUFFER /\ e \in h .. INBUFFER /\ \A j \in h .. e - 1 : mem[j] # NUL
    BY <1>1, <1>2 DEF e
  <1>4. StrEnd(mem, h) = e
    BY <1>2, <1>3, StrEndIs
  <1> QED
    BY <1>4 DEF e

LEMMA DelCharFacts ==
  ASSUME NEW mem \in Memory, NEW p \in 0 .. INBUFFER, NEW e \in p .. INBUFFER, StrEnd(mem, p) = e,
         NEW n \in Nat
  PROVE  /\ DelChar(mem, p, n) \in Memory
         /\ \A i \in 0 .. INBUFFER : i < p \/ i > e - n => DelChar(mem, p, n)[i] = mem[i]
         /\ n <= e - p => /\ DelChar(mem, p, n)[e - n] = NUL
                          /\ \A i \in p .. e - n - 1 : DelChar(mem, p, n)[i] = mem[i + n]
  <1>0. INBUFFER \in Nat /\ p \in Nat /\ e \in Nat /\ p <= e /\ e <= INBUFFER /\ DOMAIN mem = 0 .. INBUFFER
    BY InbufferPositive DEF Memory
  <1>1. StrLen(mem, p) - n = e - p - n
    BY <1>0 DEF StrLen
  <1>2. CASE e - p - n < 0
    <2>1. DelChar(mem, p, n) = mem
      BY <1>1, <1>2 DEF DelChar
    <2> QED
      BY <1>0, <1>2, <2>1
  <1>3. CASE ~(e - p - n < 0)
    <2>1. DelChar(mem, p, n) = [i \in 0 .. INBUFFER |-> IF i = p + (e - p - n) THEN NUL
                                 ELSE IF i \in p .. p + (e - p - n) - 1 THEN mem[i + n]
                                 ELSE mem[i]]
      BY <1>0, <1>1, <1>3 DEF DelChar
    <2>2. p + (e - p - n) = e - n
      BY <1>0
    <2>3. DelChar(mem, p, n) = [i \in 0 .. INBUFFER |-> IF i = e - n THEN NUL
                                 ELSE IF i \in p .. e - n - 1 THEN mem[i + n]
                                 ELSE mem[i]]
      BY <2>1, <2>2
    <2>4. ASSUME NEW i \in 0 .. INBUFFER
          PROVE  (IF i = e - n THEN NUL ELSE IF i \in p .. e - n - 1 THEN mem[i + n] ELSE mem[i]) \in 0 .. 255
      <3>1. CASE i = e - n
        BY <3>1 DEF NUL
      <3>2. CASE i # e - n /\ i \in p .. e - n - 1
        <4>1. i + n \in 0 .. INBUFFER
          BY <1>0, <3>2
        <4> QED
          BY <3>2, <4>1 DEF Memory
      <3>3. CASE i # e - n /\ i \notin p .. e - n - 1
        BY <3>3 DEF Memory
      <3> QED
        BY <3>1, <3>2, <3>3
    <2>5. DelChar(mem, p, n) \in Memory
      <3> DEFINE val(i) == IF i = e - n THEN NUL ELSE IF i \in p .. e - n - 1 THEN mem[i + n] ELSE mem[i]
      <3>1. DelChar(mem, p, n) = [i \in 0 .. INBUFFER |-> val(i)]
        BY <2>3
      <3>2. \A i \in 0 .. INBUFFER : val(i) \in 0 .. 255
        BY <2>4
      <3> HIDE DEF val
      <3> QED
        BY <3>1, <3>2, ZenonT(60) DEF Memory
    <2>6. ASSUME NEW i \in 0 .. INBUFFER, i < p \/ i > e - n PROVE DelChar(mem, p, n)[i] = mem[i]
      <3>1. i # e - n /\ i \notin p .. e - n - 1
        BY <1>0, <1>3, <2>6
      <3> QED
        BY <2>3, <3>1
    <2>7. e - n \in 0 .. INBUFFER
      BY <1>0, <1>3
    <2>8. DelChar(mem, p, n)[e - n] = NUL
      BY <2>3, <2>7
    <2>9. ASSUME NEW i \in p .. e - n - 1 PROVE DelChar(mem, p, n)[i] = mem[i + n]
      <3>1. i \in 0 .. INBUFFER /\ i # e - n
        BY <1>0, <1>3
      <3> QED
        BY <2>3, <3>1
    <2> QED
      BY <2>5, <2>6, <2>8, <2>9
  <1> QED
    BY <1>2, <1>3

LEMMA Strtol16Typed ==
  ASSUME NEW a \in 0 .. 255, NEW b \in 0 .. 255
  PROVE  /\ Strtol16(a, b) \in 0 .. 255
         /\ IsHex(a) /\ IsHex(b) => Strtol16(a, b) = 16 * HexDigit(a) + HexDigit(b)
  <1>1. IsHex(a) => HexDigit(a) \in 0 .. 15
    BY DEF IsHex, HexDigit
  <1>2. IsHex(b) => HexDigit(b) \in 0 .. 15
    BY DEF IsHex, HexDigit
  <1>3. CASE IsHex(a) /\ IsHex(b)
    <2>1. ~(a \in {9, SP, 43}) /\ a # 45
      BY <1>3 DEF IsHex, SP
    <2>2. Strtol16(a, b) = 16 * HexDigit(a) + HexDigit(b)
      BY <1>3, <2>1 DEF Strtol16
    <2> QED
      BY <1>1, <1>2, <1>3, <2>2
  <1>4. CASE IsHex(a) /\ ~IsHex(b)
    <2>1. Strtol16(a, b) = HexDigit(a)
      BY <1>4 DEF Strtol16
    <2> QED
      BY <1>1, <1>4, <2>1
  <1>5. CASE ~IsHex(a) /\ a \in {9, SP, 43} /\ IsHex(b)
    <2>0. a # 45
      BY <1>5 DEF SP
    <2>1. Strtol16(a, b) = HexDigit(b)
      BY <1>5, <2>0 DEF Strtol16
    <2> QED
      BY <1>2, <1>5, <2>1
  <1>6. CASE ~IsHex(a) /\ a = 45 /\ IsHex(b)
    <2>0. a \notin {9, SP, 43}
      BY <1>6 DEF SP
    <2>1. Strtol16(a, b) = (256 - HexDigit(b)) % 256
      BY <1>6, <2>0 DEF Strtol16
    <2> QED
      BY <1>2, <1>6, <2>1
  <1>7. CASE ~IsHex(a) /\ (a \notin {9, SP, 43, 45} \/ ~IsHex(b))
    <2>1. Strtol16(a, b) = 0
      BY <1>7 DEF Strtol16
    <2> QED
      BY <1>7, <2>1
  <1> QED
    BY <1>3, <1>4, <1>5, <1>6, <1>7

LEMMA UnescapeFacts ==
  ASSUME NEW mem \in Memory, NEW p \in 0 .. INBUFFER, NEW e \in p .. INBUFFER, StrEnd(mem, p) = e,
         p < e, e < INBUFFER
  PROVE  /\ Unescape(mem, p) \in Memory
         /\ \A i \in 0 .. INBUFFER : i < p \/ i >= e => Unescape(mem, p)[i] = mem[i]
         /\ Unescape(mem, p)[p] = Strtol16(mem[p + 1], mem[p + 2])
         /\ p + 2 < e => /\ Unescape(mem, p)[e - 2] = NUL
                         /\ \A i \in p + 1 .. e - 3 : Unescape(mem, p)[i] = mem[i + 2]
  <1> DEFINE d == DelChar(mem, p, 2)
  <1> DEFINE v == Strtol16(mem[p + 1], mem[p + 2])
  <1>0. INBUFFER \in Nat /\ p \in Nat /\ e \in Nat /\ p <= e /\ e <= INBUFFER
    BY InbufferPositive
  <1>1. p + 1 \in 0 .. INBUFFER /\ p + 2 \in 0 .. INBUFFER
    BY <1>0, SMTT(60)
  <1>2. v \in 0 .. 255
    <2>1. mem[p + 1] \in 0 .. 255 /\ mem[p + 2] \in 0 .. 255
      BY <1>1 DEF Memory
    <2> QED
      BY <2>1, Strtol16Typed
  <1>3. /\ d \in Memory
        /\ \A i \in 0 .. INBUFFER : i < p \/ i > e - 2 => d[i] = mem[i]
        /\ 2 <= e - p => d[e - 2] = NUL /\ \A i \in p .. e - 2 - 1 : d[i] = mem[i + 2]
    BY DelCharFacts
  <1>4. Unescape(mem, p) = [d EXCEPT ![p] = v]
    BY DEF Unescape
  <1> HIDE DEF d, v
  <1>5. /\ Unescape(mem, p) \in Memory /\ Unescape(mem, p)[p] = v
        /\ \A i \in 0 .. INBUFFER : i # p => Unescape(mem, p)[i] = d[i]
    BY <1>2, <1>3, <1>4 DEF Memory
  <1>6. ASSUME NEW i \in 0 .. INBUFFER, i < p \/ i >= e PROVE Unescape(mem, p)[i] = mem[i]
    <2>1. i # p /\ (i < p \/ i > e - 2)
      BY <1>0, <1>6
    <2> QED
      BY <1>3, <1>5, <2>1
  <1>7. ASSUME p + 2 < e
        PROVE  /\ Unescape(mem, p)[e - 2] = NUL
               /\ \A i \in p + 1 .. e - 3 : Unescape(mem, p)[i] = mem[i + 2]
    <2>1. 2 <= e - p /\ e - 2 # p /\ e - 2 \in 0 .. INBUFFER
      BY <1>0, <1>7
    <2>2. ASSUME NEW i \in p + 1 .. e - 3 PROVE Unescape(mem, p)[i] = mem[i + 2]
      <3>1. i \in 0 .. INBUFFER /\ i # p /\ i \in p .. e - 2 - 1
        BY <1>0, <1>7
      <3> QED
        BY <1>3, <1>5, <2>1, <3>1
    <2> QED
      BY <1>3, <1>5, <2>1, <2>2
  <1> QED
    BY <1>5, <1>6, <1>7 DEF v

(* "../" is cut: the string ends where it began.                           *)
LEMMA CutFacts ==
  ASSUME NEW mem \in Memory, NEW p \in 0 .. INBUFFER, NEW e \in p .. INBUFFER, StrEnd(mem, p) = e,
         mem[e] = NUL
  PROVE  /\ StrReplace(mem, p, ParentDir) \in Memory
         /\ \A i \in 0 .. INBUFFER : i < p \/ i >= e => StrReplace(mem, p, ParentDir)[i] = mem[i]
         /\ LET h == StrStr(mem, p, ParentDir)
            IN  /\ h = NULL => StrReplace(mem, p, ParentDir) = mem
                /\ h # NULL => /\ h \in p .. e - 3 /\ StrReplace(mem, p, ParentDir)[h] = NUL
                               /\ \A i \in 0 .. h - 1 : StrReplace(mem, p, ParentDir)[i] = mem[i]
  <1> DEFINE h == StrStr(mem, p, ParentDir)
  <1> DEFINE m == StrReplace(mem, p, ParentDir)
  <1>0. INBUFFER \in Nat /\ p \in Nat /\ e \in Nat /\ p <= e /\ e <= INBUFFER
    BY InbufferPositive
  <1>1. ParentDir \in Seq(0 .. 255) /\ Len(ParentDir) = 3
    BY DEF ParentDir, DOT, SLASH
  <1>2. h # NULL => h \in p .. e - 3
    <2>1. h # NULL => h \in p .. e - Len(ParentDir)
      BY <1>1, StrStrFacts
    <2> HIDE DEF h
    <2> QED
      BY <1>1, <2>1
  <1>3. m = IF h = NULL THEN mem ELSE [DelChar(mem, h, Len(ParentDir) - 1) EXCEPT ![h] = NUL]
    BY DEF StrReplace
  <1> HIDE DEF h, m
  <1>4. CASE h = NULL
    <2>1. m = mem
      BY <1>3, <1>4
    <2> QED
      BY <1>4, <2>1 DEF m, h
  <1>5. CASE h # NULL
    <2>1. h \in p .. e - 3 /\ h \in 0 .. INBUFFER /\ e \in h .. INBUFFER /\ h \in p .. e
      BY <1>0, <1>2, <1>5
    <2>2. StrEnd(mem, h) = e
      BY <1>0, <2>1, StrEndWithin
    <2> DEFINE d == DelChar(mem, h, 2)
    <2>3. d \in Memory /\ \A i \in 0 .. INBUFFER : i < h \/ i > e - 2 => d[i] = mem[i]
      BY <2>1, <2>2, DelCharFacts
    <2>4. m = [d EXCEPT ![h] = NUL]
      <3>1. Len(ParentDir) - 1 = 2
        BY <1>1
      <3> QED
        BY <1>3, <1>5, <3>1
    <2> HIDE DEF d
    <2>5. m \in Memory /\ m[h] = NUL /\ \A i \in 0 .. INBUFFER : i # h => m[i] = d[i]
      BY <2>1, <2>3, <2>4 DEF Memory, NUL
    <2>6. ASSUME NEW i \in 0 .. INBUFFER, i < h \/ i >= e PROVE m[i] = mem[i]
      <3>1. i # h /\ (i < h \/ i > e - 2)
        BY <1>0, <2>1, <2>6
      <3> QED
        BY <2>3, <2>5, <3>1
    <2>7. ASSUME NEW i \in 0 .. INBUFFER, i < p \/ i >= e PROVE m[i] = mem[i]
      BY <1>0, <2>1, <2>6, <2>7
    <2>8. ASSUME NEW i \in 0 .. h - 1 PROVE m[i] = mem[i]
      <3>1. i \in 0 .. INBUFFER /\ i < h
        BY <1>0, <2>1
      <3> QED
        BY <2>6, <3>1
    <2> QED
      BY <1>5, <2>1, <2>5, <2>7, <2>8 DEF m, h
  <1> QED
    BY <1>4, <1>5

(* The invariant of set_connection_props, without what the bytes mean: the *)
(* URL lies in the head, only its own bytes change, the page ends at or    *)
(* before the place noted when it was split, and the parameters are not    *)
(* touched before the page is done.                                        *)
UrlEnd == StrEnd(raw, page)
PageEnd == page + page_len
InUrl ==
  url # "idle" =>
    /\ UrlEnd \in page .. end + 2 /\ raw[UrlEnd] = NUL
    /\ PageEnd \in page .. UrlEnd /\ buf[PageEnd] = NUL
    /\ \A i \in 0 .. INBUFFER : i < page \/ i >= UrlEnd => buf[i] = raw[i]
    /\ \A i \in page .. PageEnd - 1 : raw[i] # QMARK
    /\ get_params = NULL => PageEnd = UrlEnd
    /\ get_params # NULL => get_params = PageEnd + 1 /\ get_params <= UrlEnd /\ raw[PageEnd] = QMARK
Cursor ==
  /\ url = "page" => /\ cursor \in page .. PageEnd
                     /\ \A i \in 0 .. INBUFFER : i > PageEnd => buf[i] = raw[i]
  /\ url = "params" => get_params # NULL /\ cursor \in get_params .. UrlEnd
UrlInv == UrlTypeOK /\ InUrl /\ Cursor

LEMMA UrlInitInv == ScanInit /\ UrlInit => UrlInv
  <1>1. INBUFFER \in Nat
    BY InbufferPositive
  <1> QED
    BY <1>1 DEF UrlInit, UrlInv, UrlTypeOK, InUrl, Cursor, NULL, NUL

LEMMA UrlBounds ==
  ASSUME ScanInv, UrlInv, url # "idle"
  PROVE  /\ INBUFFER \in Nat /\ page \in Nat /\ PageEnd \in Nat /\ UrlEnd \in Nat /\ page_len \in Nat
         /\ page <= PageEnd /\ PageEnd <= UrlEnd /\ UrlEnd + 1 <= INBUFFER
         /\ UrlEnd <= end + 2 /\ end \in Nat /\ bufFull \in Nat /\ UrlEnd < bufFull /\ bufFull <= INBUFFER
         /\ buf \in Memory /\ raw \in Memory /\ scan = "parsed"
         /\ buf[UrlEnd] = NUL /\ buf[PageEnd] = NUL /\ PageEnd = page + page_len
  <1>1. scan = "parsed"
    BY DEF ScanInv, HeadCut
  <1>2. INBUFFER \in Nat /\ end \in Nat /\ bufFull \in Nat /\ end + 2 < bufFull /\ bufFull <= INBUFFER
        /\ page \in 0 .. end + 2 /\ buf \in Memory /\ raw \in Memory /\ page_len \in Nat
    <2>1. INBUFFER \in Nat
      BY InbufferPositive
    <2>2. end \in 0 .. INBUFFER /\ bufFull \in 0 .. INBUFFER + 1 /\ buf \in Memory
      BY DEF ScanInv, ScanTyped, ScanTypeOK, Memory
    <2>3. raw \in Memory /\ page_len \in 0 .. INBUFFER
      BY DEF UrlInv, UrlTypeOK, Memory
    <2>4. end + 2 < bufFull /\ bufFull <= INBUFFER /\ page \in 0 .. end + 2
      BY <1>1 DEF ScanInv, HeadCut
    <2> QED
      BY <2>1, <2>2, <2>3, <2>4
  <1>3. UrlEnd \in page .. end + 2 /\ PageEnd \in page .. UrlEnd /\ buf[PageEnd] = NUL
        /\ raw[UrlEnd] = NUL /\ \A i \in 0 .. INBUFFER : i < page \/ i >= UrlEnd => buf[i] = raw[i]
    BY DEF UrlInv, InUrl
  <1>4. page \in Nat /\ UrlEnd \in Nat /\ PageEnd \in Nat /\ UrlEnd \in 0 .. INBUFFER
        /\ page <= PageEnd /\ PageEnd <= UrlEnd /\ UrlEnd + 1 <= INBUFFER
        /\ UrlEnd <= end + 2 /\ UrlEnd < bufFull
    BY <1>2, <1>3
  <1>5. buf[UrlEnd] = NUL
    BY <1>3, <1>4
  <1> QED
    BY <1>1, <1>2, <1>3, <1>4, <1>5 DEF PageEnd

(* A step that changes only bytes of the page, or only bytes of the        *)
(* parameters.                                                             *)
LEMMA UrlWrites ==
  ASSUME ScanInv, UrlInv, url # "idle", url' # "idle",
         UNCHANGED <<scan, stream, stall, taken, first, bufFull, from, end, late, page, http_param>>,
         UNCHANGED <<page_len, get_params, raw>>, url' \in {"page", "params", "done"},
         buf' \in Memory, NEW lo \in page .. UrlEnd, NEW hi \in lo .. UrlEnd,
         hi <= PageEnd \/ lo > PageEnd,
         \A i \in 0 .. INBUFFER : i < lo \/ i >= hi => buf'[i] = buf[i]
  PROVE  ScanInv' /\ InUrl' /\ UrlEnd' = UrlEnd /\ PageEnd' = PageEnd
  <1>0. /\ INBUFFER \in Nat /\ page \in Nat /\ PageEnd \in Nat /\ UrlEnd \in Nat
        /\ page <= PageEnd /\ PageEnd <= UrlEnd /\ UrlEnd + 1 <= INBUFFER
        /\ end \in Nat /\ bufFull \in Nat /\ UrlEnd < bufFull /\ bufFull <= INBUFFER
        /\ scan = "parsed" /\ buf[PageEnd] = NUL
    BY UrlBounds
  <1>1. UrlEnd' = UrlEnd /\ PageEnd' = PageEnd /\ Rest' = Rest
    BY DEF UrlEnd, PageEnd, Rest
  <1>2. lo \in Nat /\ hi \in Nat /\ page <= lo /\ lo <= hi /\ hi <= UrlEnd
    BY <1>0
  <1>3. ScanTyped'
    BY DEF ScanInv, ScanTyped, ScanTypeOK, Memory
  <1>4. Clean'
    <2>1. ASSUME NEW i \in 0 .. INBUFFER, i >= bufFull PROVE buf'[i] = NUL
      <3>1. i >= hi
        BY <1>0, <1>2, <2>1
      <3> QED
        BY <2>1, <3>1 DEF ScanInv, Clean
    <2> QED
      BY <2>1 DEF Clean
  <1>5. Reading' /\ HeadExact' /\ HeadCut' /\ NotOverrun'
    BY <1>0, <1>1 DEF ScanInv, Reading, HeadExact, HeadCut, NotOverrun
  <1>6. buf'[PageEnd] = NUL
    <2>1. PageEnd \in 0 .. INBUFFER /\ (PageEnd < lo \/ PageEnd >= hi)
      BY <1>0, <1>2
    <2> QED
      BY <1>0, <2>1
  <1>7. ASSUME NEW i \in 0 .. INBUFFER, i < page \/ i >= UrlEnd PROVE buf'[i] = raw[i]
    <2>1. i < lo \/ i >= hi
      BY <1>0, <1>2, <1>7
    <2>2. buf[i] = raw[i]
      BY <1>7 DEF UrlInv, InUrl
    <2> QED
      BY <2>1, <2>2
  <1>8. InUrl'
    <2>1. /\ UrlEnd \in page .. end + 2 /\ raw[UrlEnd] = NUL /\ PageEnd \in page .. UrlEnd
          /\ \A i \in page .. PageEnd - 1 : raw[i] # QMARK
          /\ get_params = NULL => PageEnd = UrlEnd
          /\ get_params # NULL => get_params = PageEnd + 1 /\ get_params <= UrlEnd /\ raw[PageEnd] = QMARK
      BY DEF UrlInv, InUrl
    <2>2. /\ UrlEnd' \in page' .. end' + 2 /\ raw'[UrlEnd'] = NUL /\ PageEnd' \in page' .. UrlEnd'
          /\ \A i \in page' .. PageEnd' - 1 : raw'[i] # QMARK
          /\ get_params' = NULL => PageEnd' = UrlEnd'
          /\ get_params' # NULL => get_params' = PageEnd' + 1 /\ get_params' <= UrlEnd' /\ raw'[PageEnd'] = QMARK
      BY <1>1, <2>1
    <2>3. /\ buf'[PageEnd'] = NUL
          /\ \A i \in 0 .. INBUFFER : i < page' \/ i >= UrlEnd' => buf'[i] = raw'[i]
      BY <1>1, <1>6, <1>7
    <2> QED
      BY <2>2, <2>3 DEF InUrl
  <1> QED
    BY <1>1, <1>3, <1>4, <1>5, <1>8 DEF ScanInv

LEMMA OneByte ==
  ASSUME NEW mem, NEW i \in Int, NEW x \in 0 .. 255
  PROVE  <<x>> \in Seq(0 .. 255) /\ Len(<<x>>) = 1 /\ (Occurs(mem, i, <<x>>) <=> mem[i] = x)
  <1>1. <<x>> \in Seq(0 .. 255) /\ Len(<<x>>) = 1 /\ <<x>>[1] = x
    OBVIOUS
  <1>2. i + 1 - 1 = i /\ \A k \in 1 .. 1 : k = 1
    OBVIOUS
  <1>3. Occurs(mem, i, <<x>>) <=> \A k \in 1 .. 1 : mem[i + k - 1] = <<x>>[k]
    BY <1>1 DEF Occurs
  <1>4. 1 \in 1 .. 1
    OBVIOUS
  <1>5. (\A k \in 1 .. 1 : mem[i + k - 1] = <<x>>[k]) <=> mem[i + 1 - 1] = <<x>>[1]
    BY <1>2, <1>4, Zenon
  <1> QED
    BY <1>1, <1>2, <1>3, <1>5

IsAt(mem, i, x) == Occurs(mem, i, <<x>>) <=> mem[i] = x
LEMMA OneByteAt ==
  ASSUME NEW mem, NEW i \in Int, NEW x \in 0 .. 255
  PROVE  IsAt(mem, i, x)
  BY OneByte, ZenonT(60) DEF IsAt

(* strstr with a single character.                                         *)
Find(mem, p, x) == StrStr(mem, p, <<x>>)
FoundByte(mem, p, x) ==
  /\ Find(mem, p, x) = NULL => \A i \in p .. StrEnd(mem, p) - 1 : mem[i] # x
  /\ Find(mem, p, x) # NULL => /\ Find(mem, p, x) \in p .. StrEnd(mem, p) - 1 /\ mem[Find(mem, p, x)] = x
                               /\ \A i \in p .. Find(mem, p, x) - 1 : mem[i] # x
LEMMA FindByte ==
  ASSUME NEW mem \in Memory, NEW p \in 0 .. INBUFFER, NEW q \in p .. INBUFFER, mem[q] = NUL,
         NEW x \in 0 .. 255
  PROVE  StrEnd(mem, p) \in p .. q /\ mem[StrEnd(mem, p)] = NUL /\ FoundByte(mem, p, x)
  <1> DEFINE h == Find(mem, p, x)
  <1>0. INBUFFER \in Nat /\ p \in Nat /\ q \in Nat /\ q <= INBUFFER
    BY InbufferPositive
  <1> DEFINE e == StrEnd(mem, p)
  <1>1. e \in p .. q /\ mem[e] = NUL
    BY StrEndFacts
  <1>2. e \in p .. INBUFFER /\ e \in Nat
    BY <1>0, <1>1
  <1>3. <<x>> \in Seq(0 .. 255) /\ Len(<<x>>) = 1
    BY <1>0, OneByte
  <1>4. StrEnd(mem, p) = e
    OBVIOUS
  <1> DEFINE pat == <<x>>
  <1>a. h = StrStr(mem, p, pat)
    BY DEF Find
  <1>b. pat \in Seq(0 .. 255)
    BY <1>3
  <1> HIDE DEF e, pat, h
  <1>c. /\ h = NULL => \A i \in p .. e - Len(pat) : ~Occurs(mem, i, pat)
        /\ h # NULL => /\ h \in p .. e - Len(pat) /\ Occurs(mem, h, pat)
                       /\ \A i \in p .. h - 1 : ~Occurs(mem, i, pat)
    BY <1>2, <1>4, <1>a, <1>b, StrStrFacts
  <1>5. /\ h = NULL => \A i \in p .. e - Len(<<x>>) : ~Occurs(mem, i, <<x>>)
        /\ h # NULL => /\ h \in p .. e - Len(<<x>>) /\ Occurs(mem, h, <<x>>)
                       /\ \A i \in p .. h - 1 : ~Occurs(mem, i, <<x>>)
    BY <1>c, Zenon DEF pat
  <1>6. /\ h = NULL => \A i \in p .. e - 1 : ~Occurs(mem, i, <<x>>)
        /\ h # NULL => /\ h \in p .. e - 1 /\ Occurs(mem, h, <<x>>)
                       /\ \A i \in p .. h - 1 : ~Occurs(mem, i, <<x>>)
    BY <1>3, <1>5
  <1>7. ASSUME NEW i \in Int PROVE Occurs(mem, i, <<x>>) <=> mem[i] = x
    <2>1. IsAt(mem, i, x)
      BY OneByteAt
    <2> QED
      BY <2>1 DEF IsAt
  <1>8. h = NULL => \A i \in p .. e - 1 : mem[i] # x
    BY <1>6, <1>7
  <1>9. h # NULL => h \in p .. e - 1 /\ mem[h] = x /\ \A i \in p .. h - 1 : mem[i] # x
    BY <1>2, <1>6, <1>7
  <1> QED
    BY <1>1, <1>4, <1>8, <1>9 DEF h, FoundByte

HeadKept == UNCHANGED <<scan, stream, stall, taken, first, bufFull, from, end, late, page, http_param>>

LEMMA SplitFacts ==
  ASSUME ScanInv, UrlInv, SplitGetParams, HeadKept
  PROVE  /\ raw' = buf /\ cursor' = page /\ url' = "page" /\ url = "idle" /\ scan = "parsed"
         /\ page \in 0 .. INBUFFER /\ page \in 0 .. end + 2 /\ INBUFFER \in Nat /\ end \in Nat /\ end + 3 <= bufFull
         /\ bufFull <= INBUFFER /\ bufFull \in Nat /\ buf \in Memory
         /\ UrlEnd' \in page .. end + 2 /\ buf[UrlEnd'] = NUL
         /\ \A i \in page .. PageEnd' - 1 : buf[i] # QMARK
         /\ \/ /\ get_params' = NULL /\ buf' = buf /\ PageEnd' = UrlEnd' /\ page_len' = UrlEnd' - page
            \/ /\ get_params' = PageEnd' + 1 /\ PageEnd' \in page .. UrlEnd' - 1 /\ page_len' = PageEnd' - page
               /\ buf' = [buf EXCEPT ![PageEnd'] = NUL] /\ buf[PageEnd'] = QMARK
  <1> DEFINE sep == StrStr(buf, page, <<QMARK>>)
  <1>0. scan = "parsed" /\ url = "idle" /\ raw' = buf /\ cursor' = page /\ url' = "page" /\ page' = page
    BY DEF SplitGetParams, HeadKept
  <1>1. INBUFFER \in Nat /\ end \in Nat /\ bufFull \in Nat /\ buf \in Memory
    BY InbufferPositive DEF ScanInv, ScanTyped, ScanTypeOK, Memory
  <1>2. end + 2 < bufFull /\ bufFull <= INBUFFER /\ page \in 0 .. end + 2 /\ buf[end + 2] = NUL
    BY <1>0 DEF ScanInv, HeadCut
  <1>3. page \in 0 .. INBUFFER /\ end + 2 \in page .. INBUFFER /\ end + 3 <= bufFull
    BY <1>1, <1>2
  <1> DEFINE e == StrEnd(buf, page)
  <1>4. /\ e \in page .. end + 2 /\ buf[e] = NUL
        /\ sep = NULL => \A i \in page .. e - 1 : buf[i] # QMARK
        /\ sep # NULL => sep \in page .. e - 1 /\ buf[sep] = QMARK /\ \A i \in page .. sep - 1 : buf[i] # QMARK
    <2>1. QMARK \in 0 .. 255
      BY DEF QMARK
    <2>2. sep = Find(buf, page, QMARK)
      BY DEF Find
    <2>3. StrEnd(buf, page) \in page .. end + 2 /\ buf[StrEnd(buf, page)] = NUL /\ FoundByte(buf, page, QMARK)
      BY <1>1, <1>2, <1>3, <2>1, FindByte
    <2> HIDE DEF sep
    <2> QED
      BY <2>2, <2>3 DEF FoundByte
  <1>5. UrlEnd' = e
    BY <1>0 DEF UrlEnd
  <1>6. PageEnd' = page + page_len'
    BY <1>0 DEF PageEnd
  <1>7. CASE sep = NULL
    <2>1. get_params' = NULL /\ page_len' = e - page /\ buf' = buf
      BY <1>7 DEF SplitGetParams, StrLen
    <2> HIDE DEF e, sep
    <2>2. PageEnd' = e
      BY <1>1, <1>2, <1>4, <1>6, <2>1
    <2> QED
      BY <1>0, <1>1, <1>2, <1>3, <1>4, <1>5, <1>7, <2>1, <2>2
  <1>8. CASE sep # NULL
    <2>1. get_params' = sep + 1 /\ page_len' = sep - page /\ buf' = [buf EXCEPT ![sep] = NUL]
      BY <1>8 DEF SplitGetParams
    <2> HIDE DEF e, sep
    <2>2. PageEnd' = sep
      BY <1>1, <1>2, <1>4, <1>6, <1>8, <2>1
    <2> QED
      BY <1>0, <1>1, <1>2, <1>3, <1>4, <1>5, <1>8, <2>1, <2>2
  <1> QED
    BY <1>7, <1>8

LEMMA SplitInv ==
  ASSUME ScanInv, UrlInv, SplitGetParams, HeadKept
  PROVE  ScanInv' /\ UrlInv'
  <1>1. /\ raw' = buf /\ cursor' = page /\ url' = "page" /\ url = "idle" /\ scan = "parsed"
        /\ page \in 0 .. INBUFFER /\ page \in 0 .. end + 2 /\ INBUFFER \in Nat /\ end \in Nat /\ end + 3 <= bufFull
        /\ bufFull <= INBUFFER /\ bufFull \in Nat /\ buf \in Memory
        /\ UrlEnd' \in page .. end + 2 /\ buf[UrlEnd'] = NUL
        /\ \A i \in page .. PageEnd' - 1 : buf[i] # QMARK
    BY SplitFacts
  <1>2. \/ /\ get_params' = NULL /\ buf' = buf /\ PageEnd' = UrlEnd' /\ page_len' = UrlEnd' - page
        \/ /\ get_params' = PageEnd' + 1 /\ PageEnd' \in page .. UrlEnd' - 1 /\ page_len' = PageEnd' - page
           /\ buf' = [buf EXCEPT ![PageEnd'] = NUL] /\ buf[PageEnd'] = QMARK
    BY SplitFacts
  <1>3. HeadKept
    OBVIOUS
  <1> DEFINE R == UrlEnd'
  <1> DEFINE P == PageEnd'
  <1>4. R \in Nat /\ P \in Nat /\ page \in Nat /\ page <= P /\ P <= R /\ R <= end + 2 /\ R < INBUFFER
        /\ P \in 0 .. INBUFFER
    BY <1>1, <1>2
  <1> HIDE DEF R, P
  <1>5. /\ buf' \in Memory /\ buf'[P] = NUL
        /\ \A i \in 0 .. INBUFFER : i # P => buf'[i] = buf[i]
        /\ \A i \in 0 .. INBUFFER : buf'[i] = buf[i] \/ buf'[i] = NUL
        /\ P = R => \A i \in 0 .. INBUFFER : buf'[i] = buf[i]
    <2>1. CASE get_params' = NULL /\ buf' = buf /\ P = R
      BY <1>1, <2>1 DEF R
    <2>2. CASE P \in page .. R - 1 /\ buf' = [buf EXCEPT ![P] = NUL]
      <3>1. P # R
        BY <1>4, <2>2
      <3> QED
        BY <1>1, <1>4, <2>2, <3>1 DEF Memory, NUL
    <2> QED
      BY <1>2, <2>1, <2>2 DEF P, R
  <1>6. ScanTyped'
    BY <1>3, <1>5 DEF HeadKept, ScanInv, ScanTyped, ScanTypeOK, Memory
  <1>7. Clean'
    BY <1>3, <1>5 DEF HeadKept, ScanInv, Clean
  <1>8. Reading' /\ HeadExact' /\ HeadCut' /\ NotOverrun'
    <2>1. scan' = "parsed" /\ end' = end /\ bufFull' = bufFull /\ page' = page
      BY <1>1, <1>3 DEF HeadKept
    <2> QED
      BY <1>1, <2>1 DEF ScanInv, Reading, HeadExact, HeadCut, NotOverrun
  <1>9. page' = page /\ end' = end
    BY <1>3 DEF HeadKept
  <1>10. UrlTypeOK'
    <2>1. page_len' \in 0 .. INBUFFER /\ get_params' \in NULL .. INBUFFER /\ cursor' \in 0 .. INBUFFER + 1
      <3>1. CASE get_params' = NULL /\ page_len' = R - page
        BY <1>1, <1>4, <3>1 DEF NULL
      <3>2. CASE get_params' = P + 1 /\ P \in page .. R - 1 /\ page_len' = P - page
        BY <1>1, <1>4, <3>2 DEF NULL
      <3> QED
        BY <1>2, <3>1, <3>2 DEF P, R
    <2> QED
      BY <1>1, <2>1 DEF UrlTypeOK, Memory
  <1>11. InUrl'
    <2>1. /\ R \in page .. end + 2 /\ buf[R] = NUL /\ P \in page .. R /\ buf'[P] = NUL
          /\ \A i \in page .. P - 1 : buf[i] # QMARK
      <3>1. R \in page .. end + 2 /\ buf[R] = NUL /\ \A i \in page .. P - 1 : buf[i] # QMARK
        BY <1>1, Zenon DEF P, R
      <3>2. P \in page .. R
        BY <1>4
      <3> QED
        BY <1>5, <3>1, <3>2
    <2>2. ASSUME NEW i \in 0 .. INBUFFER, i < page \/ i >= R PROVE buf'[i] = buf[i]
      <3>1. CASE P = R
        BY <1>5, <3>1
      <3>2. CASE P # R
        BY <1>4, <1>5, <2>2, <3>2
      <3> QED
        BY <3>1, <3>2
    <2>3. /\ get_params' = NULL => P = R
          /\ get_params' # NULL => get_params' = P + 1 /\ get_params' <= R /\ buf[P] = QMARK
      <3>1. CASE get_params' = NULL /\ P = R
        BY <3>1
      <3>2. CASE get_params' = P + 1 /\ P \in page .. R - 1 /\ buf[P] = QMARK
        BY <1>4, <3>2 DEF NULL
      <3> QED
        BY <1>2, <3>1, <3>2 DEF P, R
    <2> QED
      BY <1>1, <1>9, <2>1, <2>2, <2>3 DEF InUrl, P, R
  <1>12. Cursor'
    <2>1. cursor' \in page .. P
      BY <1>1, <1>4
    <2>2. \A i \in 0 .. INBUFFER : i > P => buf'[i] = buf[i]
      BY <1>4, <1>5
    <2> QED
      BY <1>1, <1>9, <2>1, <2>2 DEF Cursor, P
  <1> QED
    BY <1>6, <1>7, <1>8, <1>10, <1>11, <1>12 DEF ScanInv, UrlInv

(* The end of the part replaceEscape works on.                             *)
PartEnd == IF url = "page" THEN PageEnd ELSE UrlEnd
PartStart == IF url = "page" THEN page ELSE get_params
LEMMA PartFacts ==
  ASSUME ScanInv, UrlInv, url \in {"page", "params"}
  PROVE  /\ PartEnd \in Nat /\ PartStart \in Nat /\ PartEnd <= UrlEnd /\ buf[PartEnd] = NUL
         /\ page <= PartStart /\ cursor \in PartStart .. PartEnd /\ cursor \in 0 .. INBUFFER
         /\ PartEnd \in cursor .. INBUFFER
         /\ PartEnd <= PageEnd \/ PartStart > PageEnd
  <1>1. /\ INBUFFER \in Nat /\ page \in Nat /\ PageEnd \in Nat /\ UrlEnd \in Nat
        /\ page <= PageEnd /\ PageEnd <= UrlEnd /\ UrlEnd + 1 <= INBUFFER
        /\ buf[UrlEnd] = NUL /\ buf[PageEnd] = NUL
    BY UrlBounds
  <1>2. CASE url = "page"
    <2>1. PartEnd = PageEnd /\ PartStart = page /\ cursor \in page .. PageEnd
      BY <1>2 DEF PartEnd, PartStart, UrlInv, Cursor
    <2> QED
      BY <1>1, <2>1
  <1>3. CASE url = "params"
    <2>1. PartEnd = UrlEnd /\ PartStart = get_params /\ cursor \in get_params .. UrlEnd /\ get_params = PageEnd + 1
      BY <1>3 DEF PartEnd, PartStart, UrlInv, Cursor, InUrl
    <2> QED
      BY <1>1, <2>1
  <1> QED
    BY <1>2, <1>3

LEMMA EscapeFacts ==
  ASSUME ScanInv, UrlInv, Escape, NEW h, h = NextEscape
  PROVE  /\ h \in cursor .. StrEnd(buf, cursor) - 1 /\ StrEnd(buf, cursor) \in cursor .. PartEnd
         /\ h \in Nat /\ h < StrEnd(buf, cursor) /\ StrEnd(buf, cursor) \in Nat
         /\ buf[h] = PERCENT /\ StrEnd(buf, h) = StrEnd(buf, cursor)
         /\ buf[StrEnd(buf, cursor)] = NUL /\ \A i \in cursor .. h - 1 : buf[i] # PERCENT
         /\ buf' \in Memory /\ cursor' = h + 1
         /\ \A i \in 0 .. INBUFFER : i < h \/ i >= StrEnd(buf, cursor) => buf'[i] = buf[i]
         /\ buf'[h] = Strtol16(buf[h + 1], buf[h + 2])
         /\ h + 2 < StrEnd(buf, cursor) =>
              /\ buf'[StrEnd(buf, cursor) - 2] = NUL
              /\ \A i \in h + 1 .. StrEnd(buf, cursor) - 3 : buf'[i] = buf[i + 2]
  <1> DEFINE e == StrEnd(buf, cursor)
  <1>0. /\ INBUFFER \in Nat /\ UrlEnd \in Nat /\ UrlEnd + 1 <= INBUFFER /\ buf \in Memory
        /\ url \in {"page", "params"}
    <2>1. url \in {"page", "params"}
      BY DEF Escape
    <2> QED
      BY <2>1, UrlBounds
  <1>1. /\ PartEnd \in Nat /\ PartEnd <= UrlEnd /\ buf[PartEnd] = NUL
        /\ cursor \in 0 .. INBUFFER /\ PartEnd \in cursor .. INBUFFER
    BY <1>0, PartFacts
  <1>2. PERCENT \in 0 .. 255
    BY DEF PERCENT
  <1>3. e \in cursor .. PartEnd /\ buf[e] = NUL /\ FoundByte(buf, cursor, PERCENT)
    BY <1>0, <1>1, <1>2, FindByte
  <1>4. h = Find(buf, cursor, PERCENT) /\ h # NULL
    BY DEF Find, NextEscape, Escape
  <1>5. h \in cursor .. e - 1 /\ buf[h] = PERCENT /\ \A i \in cursor .. h - 1 : buf[i] # PERCENT
    BY <1>3, <1>4 DEF FoundByte
  <1>6. StrEnd(buf, h) = e
    <2>1. h \in cursor .. e
      BY <1>1, <1>3, <1>5
    <2> QED
      BY <1>0, <1>1, <2>1, StrEndWithin
  <1>7. h \in 0 .. INBUFFER /\ e \in h .. INBUFFER /\ h < e /\ e < INBUFFER /\ h \in Nat /\ e \in Nat
    BY <1>0, <1>1, <1>3, <1>5
  <1>8. buf' = Unescape(buf, h) /\ cursor' = h + 1
    BY DEF Escape
  <1> HIDE DEF e
  <1>9. /\ Unescape(buf, h) \in Memory
        /\ \A i \in 0 .. INBUFFER : i < h \/ i >= e => Unescape(buf, h)[i] = buf[i]
        /\ Unescape(buf, h)[h] = Strtol16(buf[h + 1], buf[h + 2])
        /\ h + 2 < e => /\ Unescape(buf, h)[e - 2] = NUL
                        /\ \A i \in h + 1 .. e - 3 : Unescape(buf, h)[i] = buf[i + 2]
    BY <1>0, <1>6, <1>7, UnescapeFacts
  <1> QED
    BY <1>3, <1>5, <1>6, <1>7, <1>8, <1>9 DEF e

LEMMA EscapeInv ==
  ASSUME ScanInv, UrlInv, Escape, HeadKept
  PROVE  ScanInv' /\ UrlInv' /\ UrlEnd' = UrlEnd /\ PageEnd' = PageEnd
  <1> DEFINE h == NextEscape
  <1> DEFINE e == StrEnd(buf, cursor)
  <1>0. /\ url \in {"page", "params"} /\ url' = url /\ page_len' = page_len
        /\ get_params' = get_params /\ raw' = raw /\ page' = page
    BY DEF Escape, HeadKept
  <1>1. /\ h \in cursor .. e - 1 /\ e \in cursor .. PartEnd /\ h \in Nat /\ e \in Nat /\ h < e
        /\ buf' \in Memory /\ cursor' = h + 1
        /\ \A i \in 0 .. INBUFFER : i < h \/ i >= e => buf'[i] = buf[i]
    BY EscapeFacts
  <1>2. /\ PartEnd \in Nat /\ PartStart \in Nat /\ PartEnd <= UrlEnd /\ page <= PartStart
        /\ cursor \in PartStart .. PartEnd /\ (PartEnd <= PageEnd \/ PartStart > PageEnd)
    BY <1>0, PartFacts
  <1>3. /\ INBUFFER \in Nat /\ page \in Nat /\ PageEnd \in Nat /\ UrlEnd \in Nat
        /\ page <= PageEnd /\ PageEnd <= UrlEnd /\ UrlEnd + 1 <= INBUFFER /\ raw \in Memory
    BY <1>0, UrlBounds
  <1> HIDE DEF h, e
  <1>4. h \in page .. UrlEnd /\ e \in h .. UrlEnd /\ (e <= PageEnd \/ h > PageEnd)
    BY <1>1, <1>2, <1>3
  <1>5. ScanInv' /\ InUrl' /\ UrlEnd' = UrlEnd /\ PageEnd' = PageEnd
    BY <1>0, <1>1, <1>4, UrlWrites DEF HeadKept
  <1>6. UrlTypeOK'
    <2>1. cursor' \in 0 .. INBUFFER + 1
      BY <1>1, <1>3, <1>4
    <2> QED
      BY <1>0, <2>1 DEF UrlInv, UrlTypeOK
  <1>7. Cursor'
    <2>1. CASE url = "page"
      <3>1. PartEnd = PageEnd /\ \A i \in 0 .. INBUFFER : i > PageEnd => buf[i] = raw[i]
        BY <2>1 DEF PartEnd, UrlInv, Cursor
      <3>2. cursor' \in page .. PageEnd
        BY <1>1, <1>3, <1>4, <3>1
      <3>3. ASSUME NEW i \in 0 .. INBUFFER, i > PageEnd PROVE buf'[i] = raw[i]
        <4>1. i >= e
          BY <1>1, <1>3, <3>1, <3>3
        <4> QED
          BY <1>1, <3>1, <3>3, <4>1
      <3> QED
        BY <1>0, <1>5, <2>1, <3>2, <3>3 DEF Cursor
    <2>2. CASE url = "params"
      <3>1. PartEnd = UrlEnd /\ PartStart = get_params /\ get_params # NULL
        BY <2>2 DEF PartEnd, PartStart, UrlInv, Cursor
      <3>2. cursor' \in get_params .. UrlEnd
        BY <1>1, <1>2, <1>3, <3>1
      <3> QED
        BY <1>0, <1>5, <2>2, <3>1, <3>2 DEF Cursor
    <2> QED
      BY <1>0, <2>1, <2>2
  <1> QED
    BY <1>5, <1>6, <1>7 DEF UrlInv

LEMMA CutParentFacts ==
  ASSUME ScanInv, UrlInv, CutParent, NEW e, e = StrEnd(buf, page)
  PROVE  /\ e \in page .. PageEnd /\ buf[e] = NUL /\ e \in Nat /\ page \in 0 .. INBUFFER /\ e \in page .. INBUFFER
         /\ buf' \in Memory /\ \A i \in 0 .. INBUFFER : i < page \/ i >= e => buf'[i] = buf[i]
         /\ StrStr(buf, page, ParentDir) = NULL => buf' = buf
         /\ StrStr(buf, page, ParentDir) # NULL =>
              /\ StrStr(buf, page, ParentDir) \in page .. e - 3
              /\ buf'[StrStr(buf, page, ParentDir)] = NUL
              /\ \A i \in 0 .. StrStr(buf, page, ParentDir) - 1 : buf'[i] = buf[i]
  <1>0. /\ INBUFFER \in Nat /\ page \in Nat /\ PageEnd \in Nat /\ UrlEnd \in Nat
        /\ page <= PageEnd /\ PageEnd <= UrlEnd /\ UrlEnd + 1 <= INBUFFER /\ buf \in Memory
        /\ buf[PageEnd] = NUL
    <2>1. url # "idle"
      BY DEF CutParent
    <2> QED
      BY <2>1, UrlBounds
  <1>1. page \in 0 .. INBUFFER /\ PageEnd \in page .. INBUFFER
    BY <1>0
  <1>2. e \in page .. PageEnd /\ buf[e] = NUL
    BY <1>0, <1>1, StrEndFacts
  <1>3. e \in Nat /\ e \in page .. INBUFFER
    BY <1>0, <1>1, <1>2
  <1>4. buf' = StrReplace(buf, page, ParentDir)
    BY DEF CutParent
  <1> QED
    BY <1>0, <1>1, <1>2, <1>3, <1>4, CutFacts

LEMMA CutParentInv ==
  ASSUME ScanInv, UrlInv, CutParent, HeadKept
  PROVE  ScanInv' /\ UrlInv' /\ UrlEnd' = UrlEnd /\ PageEnd' = PageEnd
  <1> DEFINE e == StrEnd(buf, page)
  <1>0. /\ url = "page" /\ page_len' = page_len
        /\ get_params' = get_params /\ raw' = raw /\ page' = page
        /\ \/ get_params = NULL /\ url' = "done" /\ cursor' = cursor
           \/ get_params # NULL /\ url' = "params" /\ cursor' = get_params
    BY DEF CutParent, HeadKept
  <1>1. /\ e \in page .. PageEnd /\ e \in Nat
        /\ buf' \in Memory /\ \A i \in 0 .. INBUFFER : i < page \/ i >= e => buf'[i] = buf[i]
    BY CutParentFacts
  <1>2. /\ INBUFFER \in Nat /\ page \in Nat /\ PageEnd \in Nat /\ UrlEnd \in Nat
        /\ page <= PageEnd /\ PageEnd <= UrlEnd /\ UrlEnd + 1 <= INBUFFER
    BY <1>0, UrlBounds
  <1> HIDE DEF e
  <1>3. page \in page .. UrlEnd /\ e \in page .. UrlEnd /\ e <= PageEnd
    BY <1>1, <1>2
  <1>4. ScanInv' /\ InUrl' /\ UrlEnd' = UrlEnd /\ PageEnd' = PageEnd
    <2>1. url # "idle" /\ url' # "idle" /\ url' \in {"page", "params", "done"}
      BY <1>0
    <2> QED
      BY <1>0, <1>1, <1>3, <2>1, UrlWrites DEF HeadKept
  <1>5. get_params # NULL => get_params \in 0 .. INBUFFER /\ get_params \in get_params .. UrlEnd
    <2>1. get_params # NULL => get_params = PageEnd + 1 /\ get_params <= UrlEnd
      BY <1>0 DEF UrlInv, InUrl
    <2> QED
      BY <1>2, <2>1
  <1>6. UrlTypeOK'
    <2>1. cursor' \in 0 .. INBUFFER + 1
      BY <1>0, <1>2, <1>5 DEF UrlInv, UrlTypeOK
    <2> QED
      BY <1>0, <2>1 DEF UrlInv, UrlTypeOK
  <1>7. Cursor'
    BY <1>0, <1>4, <1>5 DEF Cursor
  <1> QED
    BY <1>4, <1>6, <1>7 DEF UrlInv

LEMMA ParamsDoneInv ==
  ASSUME ScanInv, UrlInv, ParamsDone, HeadKept
  PROVE  ScanInv' /\ UrlInv' /\ UrlEnd' = UrlEnd /\ PageEnd' = PageEnd
  <1>0. /\ url = "params" /\ url' = "done" /\ page_len' = page_len /\ buf' = buf /\ cursor' = cursor
        /\ get_params' = get_params /\ raw' = raw /\ page' = page
    BY DEF ParamsDone, HeadKept
  <1>1. page \in page .. UrlEnd /\ page <= PageEnd /\ buf \in Memory
    <2>1. url # "idle"
      BY <1>0
    <2>2. page \in Nat /\ UrlEnd \in Nat /\ PageEnd \in Nat /\ page <= PageEnd /\ PageEnd <= UrlEnd /\ buf \in Memory
      BY <2>1, UrlBounds
    <2> QED
      BY <2>2
  <1>2. ScanInv' /\ InUrl' /\ UrlEnd' = UrlEnd /\ PageEnd' = PageEnd
    <2>1. url # "idle" /\ url' # "idle" /\ url' \in {"page", "params", "done"}
      BY <1>0
    <2>2. page \in page .. UrlEnd /\ \A i \in 0 .. INBUFFER : i < page \/ i >= page => buf'[i] = buf[i]
      BY <1>0, <1>1
    <2> QED
      BY <1>0, <1>1, <2>1, <2>2, UrlWrites DEF HeadKept
  <1>3. UrlTypeOK' /\ Cursor'
    BY <1>0 DEF UrlInv, UrlTypeOK, Cursor
  <1> QED
    BY <1>2, <1>3 DEF UrlInv

HeadInv == ScanInv /\ UrlInv

LEMMA UrlIdleInv ==
  ASSUME ScanInv, UrlInv, scan # "parsed", UNCHANGED urlVars
  PROVE  UrlInv'
  <1>1. url = "idle"
    BY DEF ScanInv, HeadCut
  <1> QED
    BY <1>1 DEF UrlInv, UrlTypeOK, InUrl, Cursor, urlVars

LEMMA NextRequestInv ==
  ASSUME ScanInv, UrlInv, NEW keep \in BOOLEAN, NextRequest(keep), UrlReset
  PROVE  ScanInv' /\ UrlInv'
  <1>1. /\ scan' \in {"start", "closed"} /\ url' = "idle" /\ stream' = stream /\ stall' = stall
        /\ taken' = taken /\ first' = first /\ buf' = buf /\ bufFull' = bufFull /\ from' = from
        /\ end' = end /\ late' = late /\ page' = page /\ http_param' = http_param
        /\ cursor' = cursor /\ page_len' = page_len /\ get_params' = get_params /\ raw' = raw
    BY DEF NextRequest, UrlReset
  <1>2. ScanTyped'
    BY <1>1 DEF ScanInv, ScanTyped, ScanTypeOK
  <1>3. Clean'
    BY <1>1 DEF ScanInv, Clean
  <1>4. Reading' /\ NotOverrun' /\ HeadCut' /\ HeadExact'
    BY <1>1 DEF Reading, NotOverrun, HeadCut, HeadExact
  <1>5. UrlInv'
    BY <1>1 DEF UrlInv, UrlTypeOK, InUrl, Cursor
  <1> QED
    BY <1>2, <1>3, <1>4, <1>5 DEF ScanInv

LEMMA HeadInvNext == HeadInv /\ [HeadNext]_<<headVars, urlVars>> => HeadInv'
  <1> SUFFICES ASSUME ScanInv, UrlInv, [HeadNext]_<<headVars, urlVars>>
               PROVE  ScanInv' /\ UrlInv'
    BY DEF HeadInv
  <1>1. ASSUME NEW text \in Seq(0 .. 255), NEW slow \in BOOLEAN, Accept(text, slow), UNCHANGED urlVars
        PROVE  ScanInv' /\ UrlInv'
    <2>1. scan # "parsed"
      BY <1>1 DEF Accept
    <2> QED
      BY <1>1, <2>1, AcceptInv, UrlIdleInv
  <1>2. ASSUME ScanStep, UNCHANGED urlVars
        PROVE  ScanInv' /\ UrlInv'
    <2>1. scan # "parsed"
      BY <1>2 DEF ScanStep, ScanStart, ScanRead, ScanEnd, Tokenize
    <2>2. ScanInv'
      BY <1>2, ScanStartInv, ScanReadInv, ScanEndInv, TokenizeInv DEF ScanStep
    <2> QED
      BY <1>2, <2>1, <2>2, UrlIdleInv
  <1>3. CASE UrlStep
    <2>1. HeadKept
      BY <1>3 DEF UrlStep, HeadKept
    <2> QED
      BY <1>3, <2>1, SplitInv, EscapeInv, CutParentInv, ParamsDoneInv DEF UrlStep
  <1>4. ASSUME NEW keep \in BOOLEAN, NextRequest(keep), UrlReset
        PROVE  ScanInv' /\ UrlInv'
    BY <1>4, NextRequestInv
  <1>5. CASE UNCHANGED <<headVars, urlVars>>
    <2>1. /\ scan' = scan /\ url' = url /\ stream' = stream /\ stall' = stall
          /\ taken' = taken /\ first' = first /\ buf' = buf /\ bufFull' = bufFull /\ from' = from
          /\ end' = end /\ late' = late /\ page' = page /\ http_param' = http_param
          /\ cursor' = cursor /\ page_len' = page_len /\ get_params' = get_params /\ raw' = raw
      BY <1>5 DEF headVars, urlVars
    <2>2. Rest' = Rest /\ UrlEnd' = UrlEnd /\ PageEnd' = PageEnd
      BY <2>1 DEF Rest, UrlEnd, PageEnd
    <2>3. ScanTyped' /\ Clean'
      BY <2>1 DEF ScanInv, ScanTyped, ScanTypeOK, Clean
    <2>4. Reading' /\ NotOverrun' /\ HeadCut' /\ HeadExact'
      BY <2>1, <2>2 DEF ScanInv, Reading, NotOverrun, HeadCut, HeadExact
    <2>5. UrlTypeOK' /\ InUrl' /\ Cursor'
      BY <2>1, <2>2 DEF UrlInv, UrlTypeOK, InUrl, Cursor
    <2> QED
      BY <2>3, <2>4, <2>5 DEF ScanInv, UrlInv
  <1> QED
    BY <1>1, <1>2, <1>3, <1>4, <1>5 DEF HeadNext

(* However the bytes of a head are split between reads and wherever the    *)
(* client pauses, handle_requests cuts the head out of the stream at its   *)
(* first empty line and takes exactly its bytes, and nothing an earlier    *)
(* request left in the buffer is seen: for every buffer size, every stream *)
(* and any number of requests and connections.                             *)
THEOREM HeadsCorrect == HeadSpec => []HeadsCutRight
  <1>1. ScanInit /\ UrlInit => HeadInv
    BY ScanInitInv, UrlInitInv DEF HeadInv
  <1>2. HeadInv => HeadsCutRight
    <2> SUFFICES ASSUME ScanInv PROVE HeadsCutRight
      BY DEF HeadInv
    <2>1. HeadExact
      BY DEF ScanInv
    <2>2. ASSUME NEW i \in DOMAIN buf, i >= bufFull PROVE buf[i] = NUL
      <3>1. i \in 0 .. INBUFFER
        BY DEF ScanInv, ScanTyped, ScanTypeOK
      <3> QED
        BY <2>2, <3>1 DEF ScanInv, Clean
    <2>3. ASSUME scan = "bad", bufFull >= INBUFFER, WellFormed(Rest) PROVE FirstEnd(Rest) + 3 >= INBUFFER
      <3>1. bufFull <= FirstEnd(Rest) + 3 /\ bufFull \in Nat /\ INBUFFER \in Nat
        BY <2>3, InbufferPositive DEF ScanInv, NotOverrun, ScanTyped, ScanTypeOK
      <3>2. Rest \in Seq(0 .. 255)
        <4>1. stream \in Seq(0 .. 255) /\ first \in 0 .. Len(stream)
          BY DEF ScanInv, ScanTyped, ScanTypeOK
        <4> QED
          BY <4>1, RestFacts DEF Rest
      <3>3. FirstEnd(Rest) \in Nat
        <4>1. FirstEnd(Rest) \in 1 .. Len(Rest) - 3
          BY <2>3, <3>2, WellFormedFacts
        <4> QED
          BY <3>2, <4>1
      <3> QED
        BY <2>3, <3>1, <3>3
    <2> QED
      BY <2>1, <2>2, <2>3 DEF HeadsCutRight, BufferClean
  <1> QED
    BY <1>1, <1>2, HeadInvNext, PTL DEF HeadSpec

(* s is the n bytes of mem from p on.                                      *)
BytesOf(s, n, mem, p) == s \in Seq(0 .. 255) /\ Len(s) = n /\ \A i \in 1 .. n : s[i] = mem[p + i - 1]

(* A text in the bytes of a sequence, and the part before it.              *)
LEMMA SubSeqOccurs ==
  ASSUME NEW s \in Seq(0 .. 255), NEW pat \in Seq(0 .. 255), NEW i \in 1 .. Len(s) - Len(pat) + 1
  PROVE  SubSeq(s, i, i + Len(pat) - 1) = pat <=> Occurs(s, i, pat)
  <1> DEFINE n == Len(pat)
  <1> DEFINE t == SubSeq(s, i, i + n - 1)
  <1>0. n \in Nat /\ Len(s) \in Nat /\ i \in Nat /\ i >= 1 /\ i + n - 1 <= Len(s)
    OBVIOUS
  <1> HIDE DEF n
  <1>1. t = [k \in 1 .. n |-> s[i + k - 1]]
    <2>1. i + n - 1 - i + 1 = n
      BY <1>0
    <2>2. t = [k \in 1 .. (i + n - 1 - i + 1) |-> s[i + k - 1]]
      BY <1>0
    <2> QED
      BY <2>1, <2>2
  <1>2. \A k \in 1 .. n : s[i + k - 1] \in 0 .. 255
    <2> TAKE k \in 1 .. n
    <2>1. i + k - 1 \in 1 .. Len(s)
      BY <1>0
    <2> QED
      BY <2>1, ElementOfSeq
  <1> HIDE DEF t
  <1>3. t \in Seq(0 .. 255) /\ Len(t) = n /\ \A k \in 1 .. n : t[k] = s[i + k - 1]
    BY <1>0, <1>1, <1>2
  <1>4. ASSUME t = pat PROVE Occurs(s, i, pat)
    BY <1>3, <1>4 DEF Occurs, n
  <1>5. ASSUME Occurs(s, i, pat) PROVE t = pat
    <2>1. \A k \in 1 .. n : t[k] = pat[k]
      BY <1>3, <1>5 DEF Occurs, n
    <2> QED
      BY <1>3, <2>1, SeqEqual DEF n
  <1> QED
    BY <1>4, <1>5 DEF t, n

LEMMA BeforeNone ==
  ASSUME NEW s \in Seq(0 .. 255), NEW pat \in Seq(0 .. 255),
         \A i \in 1 .. Len(s) - Len(pat) + 1 : ~Occurs(s, i, pat)
  PROVE  Before(s, pat) = s
  <1> DEFINE hits == {i \in 1 .. Len(s) - Len(pat) + 1 : SubSeq(s, i, i + Len(pat) - 1) = pat}
  <1>1. hits = {}
    BY SubSeqOccurs
  <1> HIDE DEF hits
  <1>2. Before(s, pat) = IF hits = {} THEN s
                         ELSE SubSeq(s, 1, (CHOOSE i \in hits : \A j \in hits : i <= j) - 1)
    BY DEF Before, hits
  <1> QED
    BY <1>1, <1>2

LEMMA BeforeAt ==
  ASSUME NEW s \in Seq(0 .. 255), NEW pat \in Seq(0 .. 255),
         NEW f \in 1 .. Len(s) - Len(pat) + 1, Occurs(s, f, pat), Len(pat) > 0,
         \A i \in 1 .. f - 1 : ~Occurs(s, i, pat)
  PROVE  BytesOf(Before(s, pat), f - 1, s, 1)
  <1> DEFINE hits == {i \in 1 .. Len(s) - Len(pat) + 1 : SubSeq(s, i, i + Len(pat) - 1) = pat}
  <1>0. Len(s) \in Nat /\ Len(pat) \in Nat /\ f \in Nat /\ f - 1 \in Nat /\ f - 1 <= Len(s)
    OBVIOUS
  <1>1. f \in hits
    BY SubSeqOccurs
  <1>2. ASSUME NEW j \in hits PROVE f <= j
    <2>1. j \in 1 .. Len(s) - Len(pat) + 1 /\ SubSeq(s, j, j + Len(pat) - 1) = pat
      OBVIOUS
    <2>2. Occurs(s, j, pat)
      BY <2>1, SubSeqOccurs
    <2> QED
      BY <1>0, <2>1, <2>2
  <1>3. hits \subseteq Int
    BY <1>0
  <1> HIDE DEF hits
  <1>4. (CHOOSE i \in hits : \A j \in hits : i <= j) = f
    <2> DEFINE c == CHOOSE i \in hits : \A j \in hits : i <= j
    <2>1. c \in hits /\ \A j \in hits : c <= j
      BY <1>1, <1>2
    <2> HIDE DEF c
    <2>2. c <= f /\ f <= c /\ c \in Int
      BY <1>1, <1>2, <1>3, <2>1
    <2>3. c = f
      BY <1>0, <2>2
    <2> QED
      BY <2>3 DEF c
  <1>5. Before(s, pat) = SubSeq(s, 1, f - 1)
    <2>1. Before(s, pat) = IF hits = {} THEN s
                           ELSE SubSeq(s, 1, (CHOOSE i \in hits : \A j \in hits : i <= j) - 1)
      BY DEF Before, hits
    <2> QED
      BY <1>1, <1>4, <2>1
  <1>6. SubSeq(s, 1, f - 1) = [i \in 1 .. f - 1 |-> s[i]]
    <2>1. SubSeq(s, 1, f - 1) = [i \in 1 .. f - 1 - 1 + 1 |-> s[1 + i - 1]]
      BY <1>0
    <2>2. f - 1 - 1 + 1 = f - 1 /\ \A i \in 1 .. f - 1 : 1 + i - 1 = i
      BY <1>0
    <2> QED
      BY <2>1, <2>2
  <1>7. \A i \in 1 .. f - 1 : s[i] \in 0 .. 255 /\ 1 + i - 1 = i
    <2> TAKE i \in 1 .. f - 1
    <2>1. i \in 1 .. Len(s) /\ 1 + i - 1 = i
      BY <1>0
    <2> QED
      BY <2>1, ElementOfSeq
  <1> QED
    BY <1>0, <1>5, <1>6, <1>7 DEF BytesOf

(* A text in which a byte does not occur is not cut at it.                 *)
LEMMA ByteAbsent ==
  ASSUME NEW s \in Seq(0 .. 255), NEW x \in 0 .. 255, \A i \in 1 .. Len(s) : s[i] # x
  PROVE  Before(s, <<x>>) = s
  <1>1. <<x>> \in Seq(0 .. 255) /\ Len(<<x>>) = 1 /\ Len(s) \in Nat
    OBVIOUS
  <1> DEFINE pat == <<x>>
  <1>2. ASSUME NEW i \in 1 .. Len(s) PROVE ~Occurs(s, i, pat)
    <2>1. i \in Int
      OBVIOUS
    <2>2. Occurs(s, i, <<x>>) <=> s[i] = x
      BY <2>1, OneByteAt, Zenon DEF IsAt
    <2> QED
      BY <2>2
  <1>3. \A i \in 1 .. Len(s) - Len(pat) + 1 : i \in 1 .. Len(s)
    BY <1>1
  <1>4. pat \in Seq(0 .. 255)
    BY <1>1
  <1> HIDE DEF pat
  <1>5. Before(s, pat) = s
    BY <1>2, <1>3, <1>4, BeforeNone
  <1> QED
    BY <1>5 DEF pat

LEMMA CTextFacts ==
  ASSUME NEW mem \in Memory, NEW p \in 0 .. INBUFFER, NEW e \in p .. INBUFFER, StrEnd(mem, p) = e
  PROVE  /\ CText(mem, p) \in Seq(0 .. 255) /\ Len(CText(mem, p)) = e - p
         /\ \A i \in 1 .. e - p : CText(mem, p)[i] = mem[p + i - 1]
  <1>0. INBUFFER \in Nat /\ p \in Nat /\ e \in Nat /\ e - p \in Nat
    BY InbufferPositive
  <1>1. CText(mem, p) = [i \in 1 .. e - p |-> mem[p + i - 1]]
    BY DEF CText, StrLen
  <1>2. \A i \in 1 .. e - p : mem[p + i - 1] \in 0 .. 255
    <2> TAKE i \in 1 .. e - p
    <2>1. p + i - 1 \in 0 .. INBUFFER
      BY <1>0
    <2> QED
      BY <2>1 DEF Memory
  <1> QED
    BY <1>0, <1>1, <1>2

(* A string that two memories have in common.                              *)
LEMMA SameText ==
  ASSUME NEW mem \in Memory, NEW new \in Memory, NEW p \in 0 .. INBUFFER, NEW q \in p .. INBUFFER,
         mem[q] = NUL, \A i \in p .. q : new[i] = mem[i]
  PROVE  CText(new, p) = CText(mem, p)
  <1> DEFINE e == StrEnd(mem, p)
  <1>0. INBUFFER \in Nat /\ p \in Nat /\ q \in Nat /\ q <= INBUFFER
    BY InbufferPositive
  <1>1. e \in p .. q /\ mem[e] = NUL /\ \A j \in p .. e - 1 : mem[j] # NUL
    BY StrEndFacts
  <1> HIDE DEF e
  <1>2. e \in p .. INBUFFER /\ new[e] = NUL /\ \A j \in p .. e - 1 : new[j] # NUL
    BY <1>0, <1>1
  <1>3. StrEnd(new, p) = e
    BY <1>2, StrEndIs
  <1>4. StrEnd(mem, p) = e
    BY DEF e
  <1>5. /\ CText(new, p) \in Seq(0 .. 255) /\ Len(CText(new, p)) = e - p
        /\ \A i \in 1 .. e - p : CText(new, p)[i] = new[p + i - 1]
    BY <1>2, <1>3, CTextFacts
  <1>6. /\ CText(mem, p) \in Seq(0 .. 255) /\ Len(CText(mem, p)) = e - p
        /\ \A i \in 1 .. e - p : CText(mem, p)[i] = mem[p + i - 1]
    BY <1>2, <1>4, CTextFacts
  <1>7. ASSUME NEW i \in 1 .. e - p PROVE CText(new, p)[i] = CText(mem, p)[i]
    <2>1. p + i - 1 \in p .. q
      BY <1>0, <1>1
    <2> QED
      BY <1>5, <1>6, <2>1
  <1> HIDE DEF CText
  <1> QED
    BY <1>5, <1>6, <1>7, SeqEqual

(* The parts of the URL as the client sent it.                             *)
LEMMA RestCopy ==
  ASSUME NEW s \in Seq(0 .. 255), NEW n \in 0 .. Len(s)
  PROVE  BytesOf(SubSeq(s, n + 1, Len(s)), Len(s) - n, s, n + 1)
  <1> DEFINE r == SubSeq(s, n + 1, Len(s))
  <1>1. r \in Seq(0 .. 255) /\ Len(r) = Len(s) - n /\ \A i \in 1 .. Len(s) - n : r[i] = s[n + i]
    BY RestFacts
  <1>2. \A i \in 1 .. Len(s) - n : n + 1 + i - 1 = n + i
    OBVIOUS
  <1> HIDE DEF r
  <1>3. BytesOf(r, Len(s) - n, s, n + 1)
    BY <1>1, <1>2 DEF BytesOf
  <1> QED
    BY <1>3 DEF r

LEMMA RawFacts ==
  ASSUME NEW mem \in Memory, NEW p \in 0 .. INBUFFER, NEW e \in p .. INBUFFER, StrEnd(mem, p) = e,
         NEW q \in p .. e, \A i \in p .. q - 1 : mem[i] # QMARK, q < e => mem[q] = QMARK,
         NEW s, s = Before(CText(mem, p), <<QMARK>>)
  PROVE  /\ BytesOf(s, q - p, mem, p) /\ (q = e <=> s = CText(mem, p))
         /\ q < e => BytesOf(SubSeq(CText(mem, p), Len(s) + 2, Len(CText(mem, p))), e - (q + 1), mem, q + 1)
  <1> DEFINE t == CText(mem, p)
  <1>0. INBUFFER \in Nat /\ p \in Nat /\ e \in Nat /\ q \in Nat /\ p <= q /\ q <= e /\ e <= INBUFFER
    BY InbufferPositive
  <1>1. t \in Seq(0 .. 255) /\ Len(t) = e - p /\ \A i \in 1 .. e - p : t[i] = mem[p + i - 1]
    BY CTextFacts
  <1>2. QMARK \in 0 .. 255 /\ <<QMARK>> \in Seq(0 .. 255) /\ Len(<<QMARK>>) = 1
    BY DEF QMARK
  <1> HIDE DEF t
  <1>a. ASSUME NEW i \in Int, NEW x \in 0 .. 255 PROVE Occurs(t, i, <<x>>) <=> t[i] = x
    <2>1. IsAt(t, i, x)
      BY OneByteAt
    <2> QED
      BY <2>1, Zenon DEF IsAt
  <1>3. ASSUME NEW i \in 1 .. e - p PROVE Occurs(t, i, <<QMARK>>) <=> mem[p + i - 1] = QMARK
    <2>1. i \in Int /\ t[i] = mem[p + i - 1]
      BY <1>0, <1>1
    <2>2. Occurs(t, i, <<QMARK>>) <=> t[i] = QMARK
      BY <1>2, <1>a, <2>1, Zenon
    <2> QED
      BY <2>1, <2>2
  <1>4. ASSUME NEW i \in 1 .. q - p PROVE i \in 1 .. e - p /\ ~Occurs(t, i, <<QMARK>>)
    <2>1. i \in 1 .. e - p /\ p + i - 1 \in p .. q - 1
      BY <1>0
    <2> QED
      BY <1>3, <2>1
  <1>5. s = Before(t, <<QMARK>>)
    BY DEF t
  <1> DEFINE pat == <<QMARK>>
  <1>b. pat \in Seq(0 .. 255) /\ Len(pat) = 1 /\ s = Before(t, pat)
    BY <1>2, <1>5
  <1>c. \A i \in 1 .. q - p : ~Occurs(t, i, pat)
    BY <1>4
  <1>6. CASE q = e
    <2>1. \A i \in 1 .. Len(t) - Len(pat) + 1 : ~Occurs(t, i, pat)
      <3> HIDE DEF pat
      <3>1. Len(t) - Len(pat) + 1 = q - p
        BY <1>0, <1>1, <1>6, <1>b
      <3> QED
        BY <1>c, <3>1
    <2>2. s = t
      <3> HIDE DEF pat
      <3> QED
        BY <1>1, <1>b, <2>1, BeforeNone
    <2> QED
      <3>1. BytesOf(s, q - p, mem, p)
        BY <1>1, <1>6, <2>2 DEF BytesOf
      <3>2. s = CText(mem, p) /\ ~(q < e)
        BY <1>0, <1>6, <2>2 DEF t
      <3> QED
        BY <1>6, <3>1, <3>2
  <1>7. CASE q # e
    <2> DEFINE f == q - p + 1
    <2>1. f \in 1 .. e - p /\ q < e /\ mem[q] = QMARK /\ p + f - 1 = q /\ f \in Nat /\ f - 1 = q - p
      BY <1>0, <1>7
    <2>2. Occurs(t, f, pat)
      BY <1>3, <2>1
    <2> HIDE DEF pat, f
    <2>3. f \in 1 .. Len(t) - Len(pat) + 1 /\ Len(pat) > 0 /\ \A i \in 1 .. f - 1 : ~Occurs(t, i, pat)
      BY <1>0, <1>1, <1>b, <1>c, <2>1
    <2>a. BytesOf(s, f - 1, t, 1)
      BY <1>1, <1>b, <2>2, <2>3, BeforeAt
    <2>4. s \in Seq(0 .. 255) /\ Len(s) = f - 1 /\ \A i \in 1 .. f - 1 : s[i] = t[i]
      <3>1. \A i \in 1 .. f - 1 : 1 + i - 1 = i
        BY <2>1
      <3> QED
        BY <2>a, <3>1 DEF BytesOf
    <2>5. Len(s) = q - p /\ \A i \in 1 .. q - p : s[i] = mem[p + i - 1]
      <3>1. Len(s) = q - p
        BY <2>1, <2>4
      <3>2. ASSUME NEW i \in 1 .. q - p PROVE s[i] = mem[p + i - 1]
        BY <1>0, <1>1, <1>4, <2>1, <2>4, <3>2
      <3> QED
        BY <3>1, <3>2
    <2>6. s # t
      BY <1>0, <1>1, <2>1, <2>5
    <2> DEFINE r == SubSeq(t, Len(s) + 2, Len(t))
    <2>7. /\ r \in Seq(0 .. 255) /\ Len(r) = e - (q + 1)
          /\ \A i \in 1 .. e - (q + 1) : r[i] = mem[q + 1 + i - 1]
      <3>1. Len(s) + 2 = f + 1 /\ f \in 0 .. Len(t)
        BY <1>0, <1>1, <2>1, <2>5
      <3>2. r = SubSeq(t, f + 1, Len(t))
        BY <3>1
      <3> HIDE DEF r
      <3>a. BytesOf(r, Len(t) - f, t, f + 1)
        BY <1>1, <3>1, <3>2, RestCopy
      <3>b. \A i \in 1 .. Len(t) - f : f + 1 + i - 1 = f + i
        BY <1>0, <1>1, <2>1
      <3>3. r \in Seq(0 .. 255) /\ Len(r) = Len(t) - f /\ \A i \in 1 .. Len(t) - f : r[i] = t[f + i]
        BY <3>a, <3>b DEF BytesOf
      <3>4. Len(t) - f = e - (q + 1)
        BY <1>0, <1>1, <2>1
      <3>5. ASSUME NEW i \in 1 .. e - (q + 1) PROVE r[i] = mem[q + 1 + i - 1]
        <4>1. f + i \in 1 .. e - p /\ p + (f + i) - 1 = q + 1 + i - 1
          BY <1>0, <2>1
        <4>2. r[i] = t[f + i]
          BY <3>3, <3>4
        <4>3. t[f + i] = mem[p + (f + i) - 1]
          BY <1>1, <4>1
        <4> QED
          BY <4>1, <4>2, <4>3
      <3> QED
        BY <3>3, <3>4, <3>5
    <2> QED
      BY <1>0, <1>7, <2>4, <2>5, <2>6, <2>7 DEF t, BytesOf
  <1> QED
    BY <1>6, <1>7

LEMMA RawParts ==
  ASSUME ScanInv, UrlInv, url # "idle"
  PROVE  /\ BytesOf(RawPage, PageEnd - page, raw, page) /\ (get_params = NULL) = (RawPage = RawUrl)
         /\ get_params # NULL => BytesOf(RawParams, UrlEnd - get_params, raw, get_params)
  <1>1. /\ INBUFFER \in Nat /\ page \in Nat /\ PageEnd \in Nat /\ UrlEnd \in Nat
        /\ page <= PageEnd /\ PageEnd <= UrlEnd /\ UrlEnd + 1 <= INBUFFER /\ raw \in Memory
    BY UrlBounds
  <1>2. /\ \A i \in page .. PageEnd - 1 : raw[i] # QMARK
        /\ get_params = NULL => PageEnd = UrlEnd
        /\ get_params # NULL => get_params = PageEnd + 1 /\ get_params <= UrlEnd /\ raw[PageEnd] = QMARK
    BY DEF UrlInv, InUrl
  <1>3. /\ page \in 0 .. INBUFFER /\ UrlEnd \in page .. INBUFFER /\ PageEnd \in page .. UrlEnd
        /\ StrEnd(raw, page) = UrlEnd /\ (PageEnd < UrlEnd => raw[PageEnd] = QMARK)
    BY <1>1, <1>2 DEF UrlEnd
  <1>4. RawPage = Before(CText(raw, page), <<QMARK>>) /\ RawUrl = CText(raw, page)
    BY DEF RawPage, RawUrl
  <1>5. RawParams = SubSeq(CText(raw, page), Len(RawPage) + 2, Len(CText(raw, page)))
    BY <1>4 DEF RawParams
  <1>6. /\ BytesOf(RawPage, PageEnd - page, raw, page) /\ (PageEnd = UrlEnd <=> RawPage = CText(raw, page))
        /\ PageEnd < UrlEnd => BytesOf(RawParams, UrlEnd - (PageEnd + 1), raw, PageEnd + 1)
    BY <1>1, <1>2, <1>3, <1>4, <1>5, RawFacts
  <1>7. CASE get_params = NULL
    BY <1>1, <1>2, <1>4, <1>6, <1>7
  <1>8. CASE get_params # NULL
    <2>1. PageEnd < UrlEnd /\ PageEnd # UrlEnd /\ PageEnd + 1 = get_params
      BY <1>1, <1>2, <1>8
    <2>2. BytesOf(RawParams, UrlEnd - get_params, raw, get_params)
      BY <1>6, <2>1
    <2>3. RawPage # RawUrl
      BY <1>4, <1>6, <2>1
    <2> QED
      BY <1>6, <1>8, <2>2, <2>3
  <1> QED
    BY <1>7, <1>8

LEMMA InPlace == HeadInv => UrlInPlace
  <1> SUFFICES ASSUME ScanInv, UrlInv, url # "idle"
               PROVE  /\ \A i \in DOMAIN buf :
                           (i < page \/ i >= page + StrLen(raw, page)) => buf[i] = raw[i]
                      /\ StrLen(buf, page) <= page_len
                      /\ get_params # NULL => StrLen(buf, get_params) <= Len(RawParams)
    BY DEF HeadInv, UrlInPlace
  <1>1. /\ INBUFFER \in Nat /\ page \in Nat /\ PageEnd \in Nat /\ UrlEnd \in Nat /\ page_len \in Nat
        /\ page <= PageEnd /\ PageEnd <= UrlEnd /\ UrlEnd + 1 <= INBUFFER /\ buf \in Memory
        /\ buf[UrlEnd] = NUL /\ buf[PageEnd] = NUL /\ PageEnd = page + page_len
    BY UrlBounds
  <1>2. ASSUME NEW i \in DOMAIN buf, i < page \/ i >= page + StrLen(raw, page) PROVE buf[i] = raw[i]
    <2>1. page + StrLen(raw, page) = UrlEnd /\ i \in 0 .. INBUFFER
      BY <1>1 DEF StrLen, UrlEnd, Memory
    <2> QED
      BY <1>2, <2>1 DEF UrlInv, InUrl
  <1>3. StrLen(buf, page) <= page_len
    <2>1. page \in 0 .. INBUFFER /\ PageEnd \in page .. INBUFFER
      BY <1>1
    <2>2. StrEnd(buf, page) \in page .. PageEnd
      BY <1>1, <2>1, StrEndFacts
    <2> QED
      BY <1>1, <2>2 DEF StrLen
  <1>4. ASSUME get_params # NULL PROVE StrLen(buf, get_params) <= Len(RawParams)
    <2>1. get_params = PageEnd + 1 /\ get_params <= UrlEnd
      BY <1>4 DEF UrlInv, InUrl
    <2>2. get_params \in 0 .. INBUFFER /\ UrlEnd \in get_params .. INBUFFER
      BY <1>1, <2>1
    <2>3. StrEnd(buf, get_params) \in get_params .. UrlEnd
      BY <1>1, <2>2, StrEndFacts
    <2>4. Len(RawParams) = UrlEnd - get_params
      BY <1>4, RawParts DEF BytesOf
    <2> QED
      BY <1>1, <2>2, <2>3, <2>4 DEF StrLen
  <1> QED
    BY <1>2, <1>3, <1>4

(* What the bytes of a URL from the i-th on mean, if g says it of the      *)
(* bytes behind them; DecodedFrom(s) is the function that does.            *)
Step(s, g, i) ==
  IF i > Len(s) THEN <<>>
  ELSE IF s[i] = PERCENT
  THEN <<16 * HexDigit(s[i + 1]) + HexDigit(s[i + 2])>> \o g[i + 3]
  ELSE <<s[i]>> \o g[i + 1]
Means(s, k, g) == g = [i \in k .. Len(s) + 3 |-> Step(s, g, i)]

LEMMA MeansDown ==
  ASSUME NEW s, Len(s) \in Nat, NEW k \in 1 .. Len(s) + 3, NEW g, Means(s, k + 1, g)
  PROVE  \E f : Means(s, k, f)
  <1> DEFINE n == Len(s) + 3
  <1> DEFINE f == [i \in k .. n |-> IF i = k THEN Step(s, g, k) ELSE g[i]]
  <1>0. n \in Nat /\ k \in Nat /\ k >= 1 /\ k <= n
    OBVIOUS
  <1>1. ASSUME NEW i \in k + 1 .. n PROVE f[i] = g[i] /\ g[i] = Step(s, g, i)
    <2>1. i \in k .. n /\ i # k
      BY <1>0
    <2>2. f[i] = g[i]
      BY <2>1
    <2>3. g[i] = Step(s, g, i)
      BY DEF Means
    <2> QED
      BY <2>2, <2>3
  <1> HIDE DEF f
  <1>2. ASSUME NEW i \in k .. n PROVE Step(s, f, i) = Step(s, g, i)
    <2>1. CASE i > Len(s)
      BY <2>1 DEF Step
    <2>2. CASE ~(i > Len(s))
      <3>1. i + 1 \in k + 1 .. n /\ i + 3 \in k + 1 .. n
        BY <1>0, <2>2
      <3>2. f[i + 1] = g[i + 1] /\ f[i + 3] = g[i + 3]
        BY <1>1, <3>1
      <3> QED
        BY <3>2 DEF Step
    <2> QED
      BY <2>1, <2>2
  <1>3. ASSUME NEW i \in k .. n PROVE f[i] = Step(s, f, i)
    <2>1. CASE i = k
      <3>1. f[i] = Step(s, g, k)
        BY <2>1 DEF f
      <3> QED
        BY <1>2, <2>1, <3>1
    <2>2. CASE i # k
      <3>1. i \in k + 1 .. n
        BY <1>0, <2>2
      <3> QED
        BY <1>1, <1>2, <3>1
    <2> QED
      BY <2>1, <2>2
  <1>4. f = [i \in k .. n |-> f[i]]
    BY DEF f
  <1>5. f = [i \in k .. n |-> Step(s, f, i)]
    BY <1>3, <1>4
  <1> QED
    BY <1>5 DEF Means

LEMMA MeansExists ==
  ASSUME NEW s, Len(s) \in Nat
  PROVE  \E g : Means(s, 1, g)
  <1> DEFINE Some(k) == \E g : Means(s, k, g)
  <1> DEFINE n == Len(s) + 3
  <1> DEFINE Bad == {d \in 0 .. n : ~Some(n + 1 - d)}
  <1>0. n \in Nat
    OBVIOUS
  <1>1. Some(n + 1)
    <2> DEFINE g == [i \in n + 1 .. n |-> <<>>]
    <2>1. n + 1 .. n = {}
      BY <1>0
    <2>2. g = [i \in n + 1 .. n |-> Step(s, g, i)]
      BY <2>1
    <2> QED
      BY <2>2 DEF Means
  <1>2. SUFFICES ASSUME ~Some(1) PROVE FALSE
    OBVIOUS
  <1>3. Bad \subseteq Nat /\ n \in Bad
    <2>1. n + 1 - n = 1 /\ n \in 0 .. n
      BY <1>0
    <2> HIDE DEF Some
    <2> QED
      BY <1>0, <1>2, <2>1
  <1>4. PICK d \in Bad : \A x \in Bad : d <= x
    <2> HIDE DEF Bad
    <2> QED
      BY <1>3, LeastExists
  <1>5. d \in 0 .. n /\ ~Some(n + 1 - d)
    BY <1>4
  <1> HIDE DEF Some
  <1>6. d # 0
    BY <1>0, <1>1, <1>5
  <1>7. Some(n + 1 - (d - 1))
    <2>1. d - 1 \in 0 .. n /\ ~(d <= d - 1)
      BY <1>0, <1>5, <1>6
    <2>2. d - 1 \notin Bad
      BY <1>4, <2>1
    <2> QED
      BY <2>1, <2>2
  <1> DEFINE k == n + 1 - d
  <1>8. k \in 1 .. n /\ k + 1 = n + 1 - (d - 1)
    BY <1>0, <1>5, <1>6
  <1>9. Some(k + 1)
    BY <1>7, <1>8
  <1> HIDE DEF k
  <1>10. Some(k)
    <2>1. PICK g : Means(s, k + 1, g)
      BY <1>9 DEF Some
    <2>2. k \in 1 .. Len(s) + 3
      BY <1>8
    <2>3. \E f : Means(s, k, f)
      BY <2>1, <2>2, MeansDown
    <2> QED
      BY <2>3 DEF Some
  <1> QED
    BY <1>5, <1>10 DEF k

LEMMA DecodedUnfolds ==
  ASSUME NEW s, Len(s) \in Nat
  PROVE  Means(s, 1, DecodedFrom(s))
  <1>1. DecodedFrom(s) = CHOOSE g : g = [i \in 1 .. Len(s) + 3 |->
          IF i > Len(s) THEN <<>>
          ELSE IF s[i] = PERCENT
          THEN <<16 * HexDigit(s[i + 1]) + HexDigit(s[i + 2])>> \o g[i + 3]
          ELSE <<s[i]>> \o g[i + 1]]
    BY DEF DecodedFrom
  <1>2. DecodedFrom(s) = CHOOSE g : Means(s, 1, g)
    BY <1>1 DEF Means, Step
  <1> QED
    BY <1>2, MeansExists

Prepends(t, x, u) == /\ t \in Seq(0 .. 255) /\ Len(t) = 1 + Len(u) /\ t[1] = x
                     /\ \A j \in 1 .. Len(u) : t[1 + j] = u[j]
LEMMA PrependFacts ==
  ASSUME NEW x \in 0 .. 255, NEW u \in Seq(0 .. 255)
  PROVE  Prepends(<<x>> \o u, x, u)
  <1> DEFINE t == <<x>> \o u
  <1>1. <<x>> \in Seq(0 .. 255) /\ Len(<<x>>) = 1 /\ <<x>>[1] = x /\ Len(u) \in Nat
    OBVIOUS
  <1>2. t \in Seq(0 .. 255) /\ Len(t) = 1 + Len(u)
    BY <1>1, ConcatProperties
  <1>3. t[1] = x /\ \A j \in 1 .. Len(u) : t[1 + j] = u[j]
    BY <1>1
  <1> HIDE DEF t
  <1>4. Prepends(t, x, u)
    BY <1>2, <1>3 DEF Prepends
  <1> QED
    BY <1>4 DEF t

(* One more byte, or one more escape.                                      *)
TailStep(s, i) ==
  LET T == DecodedFrom(s)
  IN  /\ i > Len(s) => T[i] = <<>>
      /\ i <= Len(s) /\ s[i] # PERCENT => T[i] = <<s[i]>> \o T[i + 1]
      /\ i <= Len(s) /\ s[i] = PERCENT => T[i] = <<Strtol16(s[i + 1], s[i + 2])>> \o T[i + 3]
WholeEscape(s, i) == i + 2 <= Len(s) /\ IsHex(s[i + 1]) /\ IsHex(s[i + 2])
                 /\ Strtol16(s[i + 1], s[i + 2]) \in 0 .. 255

LEMMA TailSteps ==
  ASSUME NEW s \in Seq(0 .. 255), CompleteEscapes(s), NEW i \in 1 .. Len(s) + 3
  PROVE  TailStep(s, i) /\ (i <= Len(s) /\ s[i] = PERCENT => WholeEscape(s, i))
  <1> DEFINE T == DecodedFrom(s)
  <1>0. Len(s) \in Nat
    OBVIOUS
  <1>1. Means(s, 1, T)
    BY <1>0, DecodedUnfolds
  <1> HIDE DEF T
  <1>2. T[i] = Step(s, T, i)
    BY <1>1 DEF Means
  <1>3. ASSUME i <= Len(s), s[i] = PERCENT
        PROVE  WholeEscape(s, i) /\ Strtol16(s[i + 1], s[i + 2]) = 16 * HexDigit(s[i + 1]) + HexDigit(s[i + 2])
    <2>1. i \in 1 .. Len(s)
      BY <1>0, <1>3
    <2>2. i + 2 <= Len(s) /\ IsHex(s[i + 1]) /\ IsHex(s[i + 2])
      BY <1>3, <2>1 DEF CompleteEscapes
    <2>3. i + 1 \in 1 .. Len(s) /\ i + 2 \in 1 .. Len(s)
      BY <1>0, <2>1, <2>2
    <2>4. s[i + 1] \in 0 .. 255 /\ s[i + 2] \in 0 .. 255
      BY <2>3, ElementOfSeq, SMTT(60)
    <2>5. /\ Strtol16(s[i + 1], s[i + 2]) \in 0 .. 255
          /\ Strtol16(s[i + 1], s[i + 2]) = 16 * HexDigit(s[i + 1]) + HexDigit(s[i + 2])
      BY <2>2, <2>4, Strtol16Typed
    <2> QED
      BY <2>2, <2>5 DEF WholeEscape
  <1>4. i > Len(s) => T[i] = <<>>
    BY <1>2 DEF Step
  <1>5. ASSUME i <= Len(s), s[i] # PERCENT PROVE T[i] = <<s[i]>> \o T[i + 1]
    <2>1. ~(i > Len(s))
      BY <1>0, <1>5
    <2> QED
      BY <1>2, <1>5, <2>1 DEF Step
  <1>6. ASSUME i <= Len(s), s[i] = PERCENT PROVE T[i] = <<Strtol16(s[i + 1], s[i + 2])>> \o T[i + 3]
    <2>1. ~(i > Len(s))
      BY <1>0, <1>6
    <2>2. T[i] = <<16 * HexDigit(s[i + 1]) + HexDigit(s[i + 2])>> \o T[i + 3]
      BY <1>2, <1>6, <2>1 DEF Step
    <2> QED
      BY <1>3, <1>6, <2>2
  <1> QED
    BY <1>3, <1>4, <1>5, <1>6 DEF TailStep, T

LEMMA TailTyped ==
  ASSUME NEW s \in Seq(0 .. 255), CompleteEscapes(s), NEW i \in 1 .. Len(s) + 3
  PROVE  DecodedFrom(s)[i] \in Seq(0 .. 255)
  <1> DEFINE n == Len(s) + 3
  <1> DEFINE Good(k) == DecodedFrom(s)[k] \in Seq(0 .. 255)
  <1> DEFINE Bad == {d \in 0 .. n - 1 : ~Good(n - d)}
  <1>0. Len(s) \in Nat /\ n \in Nat /\ n >= 3
    OBVIOUS
  <1>1. SUFFICES ASSUME ~Good(i) PROVE FALSE
    OBVIOUS
  <1> HIDE DEF Good
  <1>2. n - i \in 0 .. n - 1 /\ n - (n - i) = i
    BY <1>0
  <1>3. n - i \in Bad /\ Bad \subseteq Nat
    BY <1>0, <1>1, <1>2
  <1>4. PICK d \in Bad : \A x \in Bad : d <= x
    <2> HIDE DEF Bad
    <2> QED
      BY <1>3, LeastExists
  <1>5. d \in 0 .. n - 1 /\ ~Good(n - d)
    BY <1>4
  <1> DEFINE k == n - d
  <1>6. k \in 1 .. n /\ d = n - k
    BY <1>0, <1>5
  <1>7. ASSUME NEW j \in k + 1 .. n PROVE Good(j)
    <2>1. n - j \in 0 .. n - 1 /\ ~(d <= n - j) /\ n - (n - j) = j
      BY <1>0, <1>5, <1>6
    <2>2. n - j \notin Bad
      BY <1>4, <2>1
    <2> QED
      BY <2>1, <2>2
  <1> HIDE DEF k
  <1>8. TailStep(s, k) /\ (k <= Len(s) /\ s[k] = PERCENT => WholeEscape(s, k))
    BY <1>6, TailSteps
  <1>9. CASE k > Len(s)
    <2>1. DecodedFrom(s)[k] = <<>>
      BY <1>8, <1>9 DEF TailStep
    <2>2. Good(k)
      BY <2>1 DEF Good
    <2> QED
      BY <1>5, <2>2 DEF k
  <1>10. CASE k <= Len(s) /\ s[k] # PERCENT
    <2>1. DecodedFrom(s)[k] = <<s[k]>> \o DecodedFrom(s)[k + 1]
      BY <1>8, <1>10 DEF TailStep
    <2>2. k + 1 \in k + 1 .. n /\ k \in 1 .. Len(s)
      BY <1>0, <1>6, <1>10
    <2>3. DecodedFrom(s)[k + 1] \in Seq(0 .. 255) /\ s[k] \in 0 .. 255
      <3>1. Good(k + 1)
        BY <1>7, <2>2
      <3>2. s[k] \in 0 .. 255
        BY <2>2, ElementOfSeq
      <3> QED
        BY <3>1, <3>2 DEF Good
    <2>a. Prepends(<<s[k]>> \o DecodedFrom(s)[k + 1], s[k], DecodedFrom(s)[k + 1])
      BY <2>3, PrependFacts
    <2>4. Good(k)
      BY <2>1, <2>a, Zenon DEF Good, Prepends
    <2> QED
      BY <1>5, <2>4 DEF k
  <1>11. CASE k <= Len(s) /\ s[k] = PERCENT
    <2>1. DecodedFrom(s)[k] = <<Strtol16(s[k + 1], s[k + 2])>> \o DecodedFrom(s)[k + 3]
      BY <1>8, <1>11 DEF TailStep
    <2>2. k + 3 \in k + 1 .. n
      BY <1>0, <1>6, <1>11
    <2>3. DecodedFrom(s)[k + 3] \in Seq(0 .. 255) /\ Strtol16(s[k + 1], s[k + 2]) \in 0 .. 255
      <3>1. Good(k + 3)
        BY <1>7, <2>2
      <3> QED
        BY <1>8, <1>11, <3>1 DEF Good, WholeEscape
    <2>a. Prepends(<<Strtol16(s[k + 1], s[k + 2])>> \o DecodedFrom(s)[k + 3],
                   Strtol16(s[k + 1], s[k + 2]), DecodedFrom(s)[k + 3])
      BY <2>3, PrependFacts
    <2>4. Good(k)
      BY <2>1, <2>a, Zenon DEF Good, Prepends
    <2> QED
      BY <1>5, <2>4 DEF k
  <1> QED
    BY <1>0, <1>6, <1>9, <1>10, <1>11

(* How far replaceEscape is: d is what is meant, the bytes of mem from b   *)
(* to c are its beginning and t is the rest of it.                         *)
Agrees(d, mem, b, c, t) ==
  /\ Len(d) = (c - b) + Len(t)
  /\ \A j \in 1 .. c - b : d[j] = mem[b + j - 1]
  /\ \A j \in 1 .. Len(t) : d[c - b + j] = t[j]
SameBytes(new, mem, b, c) == \A i \in b .. c - 1 : new[i] = mem[i]
LEMMA AgreesStep ==
  ASSUME NEW d \in Seq(0 .. 255), NEW mem, NEW new, NEW b \in Nat, NEW c \in Nat, b <= c,
         NEW t, NEW u \in Seq(0 .. 255), NEW x, Prepends(t, x, u), Agrees(d, mem, b, c, t),
         new[c] = x, SameBytes(new, mem, b, c)
  PROVE  Agrees(d, new, b, c + 1, u)
  <1>0. Len(u) \in Nat /\ Len(t) = 1 + Len(u) /\ t[1] = x /\ \A j \in 1 .. Len(u) : t[1 + j] = u[j]
    BY DEF Prepends
  <1>1. Len(d) = (c - b) + Len(t) /\ \A j \in 1 .. c - b : d[j] = mem[b + j - 1]
    BY DEF Agrees
  <1>2. \A j \in 1 .. Len(t) : d[c - b + j] = t[j]
    BY DEF Agrees
  <1>3. Len(d) = (c + 1 - b) + Len(u)
    BY <1>0, <1>1
  <1>4. ASSUME NEW j \in 1 .. c + 1 - b PROVE d[j] = new[b + j - 1]
    <2>1. CASE j = c + 1 - b
      <3>1. 1 \in 1 .. Len(t) /\ c - b + 1 = j /\ b + j - 1 = c
        BY <1>0, <2>1
      <3>2. d[c - b + 1] = t[1]
        BY <1>2, <3>1
      <3> QED
        BY <1>0, <3>1, <3>2
    <2>2. CASE j # c + 1 - b
      <3>1. j \in 1 .. c - b /\ b + j - 1 \in b .. c - 1
        BY <2>2
      <3> QED
        BY <1>1, <3>1 DEF SameBytes
    <2> QED
      BY <2>1, <2>2
  <1>5. ASSUME NEW j \in 1 .. Len(u) PROVE d[c + 1 - b + j] = u[j]
    <2>1. 1 + j \in 1 .. Len(t) /\ c - b + (1 + j) = c + 1 - b + j
      BY <1>0
    <2>2. d[c - b + (1 + j)] = t[1 + j]
      BY <1>2, <2>1
    <2> QED
      BY <1>0, <2>1, <2>2
  <1> QED
    BY <1>3, <1>4, <1>5 DEF Agrees

(* k bytes of s are replaced, up to the place c; the others lie from c on. *)
Reached(mem, b, s, c, k) ==
  /\ k \in 0 .. Len(s) /\ Agrees(Decoded(s), mem, b, c, DecodedFrom(s)[k + 1])
  /\ \A j \in 1 .. Len(s) - k : mem[c + j - 1] = s[k + j]

LEMMA DecodedTyped ==
  ASSUME NEW s \in Seq(0 .. 255), CompleteEscapes(s)
  PROVE  Decoded(s) \in Seq(0 .. 255)
  <1>1. 1 \in 1 .. Len(s) + 3
    OBVIOUS
  <1> QED
    BY <1>1, TailTyped DEF Decoded

LEMMA RunStep ==
  ASSUME NEW s \in Seq(0 .. 255), CompleteEscapes(s), NEW mem, NEW b \in Nat, NEW c \in Nat, b <= c,
         NEW k \in 0 .. Len(s) - 1, Reached(mem, b, s, c, k), s[k + 1] # PERCENT
  PROVE  Reached(mem, b, s, c + 1, k + 1)
  <1> DEFINE T == DecodedFrom(s)
  <1>0. Len(s) \in Nat /\ k + 1 \in 1 .. Len(s) + 3 /\ k + 1 \in 1 .. Len(s) /\ k + 1 + 1 \in 1 .. Len(s) + 3
        /\ 1 \in 1 .. Len(s) - k
    OBVIOUS
  <1>1. s[k + 1] \in 0 .. 255
    BY <1>0, ElementOfSeq
  <1>2. T[k + 1] = <<s[k + 1]>> \o T[k + 1 + 1]
    <2>1. TailStep(s, k + 1)
      BY <1>0, TailSteps
    <2> QED
      BY <1>0, <2>1 DEF TailStep
  <1>3. T[k + 1 + 1] \in Seq(0 .. 255) /\ Decoded(s) \in Seq(0 .. 255)
    BY <1>0, TailTyped, DecodedTyped
  <1> HIDE DEF T
  <1>4. Prepends(T[k + 1], s[k + 1], T[k + 1 + 1])
    BY <1>1, <1>2, <1>3, PrependFacts
  <1>5. Agrees(Decoded(s), mem, b, c, T[k + 1]) /\ \A j \in 1 .. Len(s) - k : mem[c + j - 1] = s[k + j]
    BY DEF Reached, T
  <1>6. mem[c] = s[k + 1]
    <2>1. c + 1 - 1 = c
      OBVIOUS
    <2> QED
      BY <1>0, <1>5, <2>1
  <1>7. Agrees(Decoded(s), mem, b, c + 1, T[k + 1 + 1])
    <2>1. SameBytes(mem, mem, b, c)
      BY DEF SameBytes
    <2> QED
      BY <1>3, <1>4, <1>5, <1>6, <2>1, AgreesStep
  <1>8. ASSUME NEW j \in 1 .. Len(s) - (k + 1) PROVE mem[c + 1 + j - 1] = s[k + 1 + j]
    <2>1. j + 1 \in 1 .. Len(s) - k /\ c + (j + 1) - 1 = c + 1 + j - 1 /\ k + (j + 1) = k + 1 + j
      BY <1>0
    <2>2. mem[c + (j + 1) - 1] = s[k + (j + 1)]
      BY <1>5, <2>1
    <2> QED
      BY <2>1, <2>2
  <1>9. k + 1 \in 0 .. Len(s)
    BY <1>0
  <1> QED
    BY <1>7, <1>8, <1>9 DEF Reached, T

(* A run of bytes without a percent sign stays as it is.                   *)
LEMMA Run ==
  ASSUME NEW s \in Seq(0 .. 255), CompleteEscapes(s), NEW mem, NEW b \in Nat, NEW c \in Nat, b <= c,
         NEW k \in 0 .. Len(s), Reached(mem, b, s, c, k), NEW n \in 0 .. Len(s) - k,
         \A i \in 1 .. n : s[k + i] # PERCENT
  PROVE  Reached(mem, b, s, c + n, k + n)
  <1> DEFINE Good(j) == Reached(mem, b, s, c + j, k + j)
  <1> DEFINE Bad == {j \in 0 .. n : ~Good(j)}
  <1>0. Len(s) \in Nat /\ k \in Nat /\ n \in Nat /\ k + n <= Len(s)
    OBVIOUS
  <1>1. SUFFICES ASSUME ~Good(n) PROVE FALSE
    OBVIOUS
  <1>2. Good(0)
    <2>1. c + 0 = c /\ k + 0 = k
      BY <1>0
    <2> QED
      BY <2>1
  <1> HIDE DEF Good
  <1>3. n \in Bad /\ Bad \subseteq Nat
    BY <1>0, <1>1
  <1>4. PICK j \in Bad : \A x \in Bad : j <= x
    <2> HIDE DEF Bad
    <2> QED
      BY <1>3, LeastExists
  <1>5. j \in 0 .. n /\ ~Good(j)
    BY <1>4
  <1>6. j # 0
    BY <1>2, <1>5
  <1>7. Good(j - 1)
    <2>1. j - 1 \in 0 .. n /\ ~(j <= j - 1)
      BY <1>0, <1>5, <1>6
    <2>2. j - 1 \notin Bad
      BY <1>4, <2>1
    <2> QED
      BY <2>1, <2>2
  <1>8. Good(j)
    <2> DEFINE c1 == c + (j - 1)
    <2> DEFINE k1 == k + (j - 1)
    <2>1. /\ c1 \in Nat /\ b <= c1 /\ k1 \in 0 .. Len(s) - 1 /\ c1 + 1 = c + j /\ k1 + 1 = k + j
          /\ j \in 1 .. n
      BY <1>0, <1>5, <1>6
    <2>2. Reached(mem, b, s, c1, k1)
      BY <1>7 DEF Good
    <2>3. s[k1 + 1] # PERCENT
      BY <2>1
    <2> HIDE DEF c1, k1
    <2>4. Reached(mem, b, s, c1 + 1, k1 + 1)
      BY <2>1, <2>2, <2>3, RunStep
    <2>5. Reached(mem, b, s, c + j, k + j)
      BY <2>1, <2>4
    <2> QED
      BY <2>5 DEF Good
  <1> QED
    BY <1>5, <1>8

(* An escape becomes one byte, and the bytes behind it move up.            *)
LEMMA EscapeStep ==
  ASSUME NEW s \in Seq(0 .. 255), CompleteEscapes(s), NEW mem, NEW new, NEW b \in Nat, NEW c \in Nat, b <= c,
         NEW k \in 0 .. Len(s) - 1, Reached(mem, b, s, c, k), s[k + 1] = PERCENT,
         \A i \in b .. c - 1 : new[i] = mem[i], new[c] = Strtol16(mem[c + 1], mem[c + 2]),
         \A i \in c + 1 .. c + Len(s) - k - 3 : new[i] = mem[i + 2]
  PROVE  k + 3 \in 0 .. Len(s) /\ Reached(new, b, s, c + 1, k + 3)
  <1> DEFINE T == DecodedFrom(s)
  <1> DEFINE x == Strtol16(s[k + 2], s[k + 3])
  <1>0. Len(s) \in Nat /\ k \in Nat /\ k + 1 \in 1 .. Len(s) + 3 /\ k + 1 <= Len(s)
        /\ k + 1 + 1 = k + 2 /\ k + 1 + 2 = k + 3 /\ k + 1 + 3 = k + 4 /\ k + 3 + 1 = k + 4
    BY SMTT(60)
  <1>1. TailStep(s, k + 1) /\ WholeEscape(s, k + 1)
    BY <1>0, TailSteps
  <1>2. T[k + 1] = <<x>> \o T[k + 4]
    BY <1>0, <1>1 DEF TailStep
  <1>3. k + 3 <= Len(s) /\ x \in 0 .. 255
    BY <1>0, <1>1 DEF WholeEscape
  <1>4. T[k + 4] \in Seq(0 .. 255) /\ Decoded(s) \in Seq(0 .. 255)
    <2>1. k + 4 \in 1 .. Len(s) + 3
      BY <1>0
    <2> QED
      BY <2>1, TailTyped, DecodedTyped
  <1>5. Agrees(Decoded(s), mem, b, c, T[k + 1]) /\ \A j \in 1 .. Len(s) - k : mem[c + j - 1] = s[k + j]
    BY DEF Reached
  <1> HIDE DEF T
  <1>6. new[c] = x
    <2>1. 2 \in 1 .. Len(s) - k /\ 3 \in 1 .. Len(s) - k /\ c + 2 - 1 = c + 1 /\ c + 3 - 1 = c + 2
      BY <1>0, <1>3
    <2>2. mem[c + 1] = s[k + 2] /\ mem[c + 2] = s[k + 3]
      BY <1>5, <2>1
    <2> QED
      BY <2>2
  <1> HIDE DEF x
  <1>7. Prepends(T[k + 1], x, T[k + 4])
    BY <1>2, <1>3, <1>4, PrependFacts
  <1>8. Agrees(Decoded(s), new, b, c + 1, T[k + 4])
    <2>1. SameBytes(new, mem, b, c)
      BY DEF SameBytes
    <2> QED
      BY <1>4, <1>5, <1>6, <1>7, <2>1, AgreesStep
  <1>9. ASSUME NEW j \in 1 .. Len(s) - (k + 3) PROVE new[c + 1 + j - 1] = s[k + 3 + j]
    <2>1. /\ c + j \in c + 1 .. c + Len(s) - k - 3 /\ j + 3 \in 1 .. Len(s) - k /\ c + 1 + j - 1 = c + j
          /\ c + (j + 3) - 1 = c + j + 2 /\ k + (j + 3) = k + 3 + j
      BY <1>0, <1>3
    <2>2. new[c + j] = mem[c + j + 2]
      BY <2>1
    <2>3. mem[c + (j + 3) - 1] = s[k + (j + 3)]
      BY <1>5, <2>1
    <2> QED
      BY <2>1, <2>2, <2>3
  <1>10. k + 3 \in 0 .. Len(s)
    BY <1>0, <1>3, SMTT(60)
  <1>11. Agrees(Decoded(s), new, b, c + 1, DecodedFrom(s)[k + 3 + 1])
    BY <1>0, <1>8 DEF T
  <1> QED
    BY <1>9, <1>10, <1>11 DEF Reached

(* A text with NULs in it, read as a string.                               *)
LEMMA NulCut ==
  ASSUME NEW mem \in Memory, NEW b \in 0 .. INBUFFER, NEW e \in b .. INBUFFER, mem[e] = NUL,
         NEW d, BytesOf(d, e - b, mem, b)
  PROVE  Before(d, <<NUL>>) = CText(mem, b)
  <1> DEFINE f == StrEnd(mem, b)
  <1> DEFINE t == CText(mem, b)
  <1> DEFINE pat == <<NUL>>
  <1>0. INBUFFER \in Nat /\ b \in Nat /\ e \in Nat /\ b <= e /\ e <= INBUFFER
    BY InbufferPositive
  <1>1. f \in b .. e /\ mem[f] = NUL /\ \A j \in b .. f - 1 : mem[j] # NUL
    BY StrEndFacts
  <1>2. t \in Seq(0 .. 255) /\ Len(t) = f - b /\ \A i \in 1 .. f - b : t[i] = mem[b + i - 1]
    <2>1. f \in b .. INBUFFER /\ StrEnd(mem, b) = f
      BY <1>0, <1>1
    <2> HIDE DEF f
    <2> QED
      BY <2>1, CTextFacts
  <1>3. d \in Seq(0 .. 255) /\ Len(d) = e - b /\ \A i \in 1 .. e - b : d[i] = mem[b + i - 1]
    BY DEF BytesOf
  <1>4. NUL \in 0 .. 255 /\ pat \in Seq(0 .. 255) /\ Len(pat) = 1
    BY DEF NUL
  <1>5. ASSUME NEW i \in Int, NEW x \in 0 .. 255 PROVE Occurs(d, i, <<x>>) <=> d[i] = x
    <2>1. IsAt(d, i, x)
      BY OneByteAt
    <2> QED
      BY <2>1, Zenon DEF IsAt
  <1>6. ASSUME NEW i \in Int PROVE Occurs(d, i, pat) <=> d[i] = NUL
    BY <1>4, <1>5, <1>6, Zenon
  <1> HIDE DEF f, t, pat
  <1>7. \A i \in 1 .. f - b : i \in 1 .. e - b /\ ~Occurs(d, i, pat)
    <2> TAKE i \in 1 .. f - b
    <2>1. i \in 1 .. e - b /\ b + i - 1 \in b .. f - 1 /\ i \in Int
      BY <1>0, <1>1
    <2>2. d[i] # NUL
      BY <1>1, <1>3, <2>1
    <2> QED
      BY <1>6, <2>1, <2>2
  <1>8. CASE f = e
    <2>1. Len(d) - Len(pat) + 1 = f - b
      BY <1>0, <1>3, <1>4, <1>8
    <2>2. Before(d, pat) = d
      BY <1>3, <1>4, <1>7, <2>1, BeforeNone
    <2>3. d = t
      BY <1>2, <1>3, <1>8, SeqEqual
    <2> QED
      BY <2>2, <2>3 DEF t, pat
  <1>9. CASE f # e
    <2> DEFINE g == f - b + 1
    <2>1. g \in 1 .. Len(d) - Len(pat) + 1 /\ g \in 1 .. e - b /\ g \in Int /\ b + g - 1 = f /\ g - 1 = f - b
      BY <1>0, <1>1, <1>3, <1>4, <1>9
    <2>2. d[g] = NUL
      BY <1>1, <1>3, <2>1
    <2> HIDE DEF g
    <2>3. Occurs(d, g, pat) /\ Len(pat) > 0
      BY <1>4, <1>6, <2>1, <2>2
    <2>4. \A i \in 1 .. g - 1 : ~Occurs(d, i, pat)
      BY <1>7, <2>1
    <2>5. BytesOf(Before(d, pat), g - 1, d, 1)
      BY <1>3, <1>4, <2>1, <2>3, <2>4, BeforeAt
    <2>6. Before(d, pat) \in Seq(0 .. 255) /\ Len(Before(d, pat)) = f - b
      BY <2>1, <2>5 DEF BytesOf
    <2>7. ASSUME NEW i \in 1 .. f - b PROVE Before(d, pat)[i] = t[i]
      <3>1. i \in 1 .. g - 1 /\ 1 + i - 1 = i
        BY <2>1
      <3>2. Before(d, pat)[i] = d[i]
        BY <2>5, <3>1 DEF BytesOf
      <3> QED
        BY <1>2, <1>3, <1>7, <3>2
    <2>8. Before(d, pat) = t
      BY <1>2, <2>6, <2>7, SeqEqual
    <2> QED
      BY <2>8 DEF t, pat
  <1> QED
    BY <1>8, <1>9

(* No escape is left: the part means what the client sent.                 *)
LEMMA Finished ==
  ASSUME NEW s \in Seq(0 .. 255), CompleteEscapes(s), NEW mem \in Memory, NEW b \in 0 .. INBUFFER,
         NEW c \in b .. INBUFFER, NEW k \in 0 .. Len(s), Reached(mem, b, s, c, k),
         NEW e \in c .. INBUFFER, e = c + (Len(s) - k), mem[e] = NUL,
         \A i \in c .. e - 1 : mem[i] # PERCENT
  PROVE  CText(mem, b) = Meaning(s)
  <1> DEFINE n == Len(s) - k
  <1>0. INBUFFER \in Nat /\ b \in Nat /\ c \in Nat /\ b <= c /\ e \in Nat /\ Len(s) \in Nat /\ n \in 0 .. Len(s) - k
        /\ c + n = e /\ k + n = Len(s) /\ b <= e
    BY InbufferPositive
  <1>1. \A j \in 1 .. n : s[k + j] # PERCENT
    <2> TAKE j \in 1 .. n
    <2>1. c + j - 1 \in c .. e - 1
      BY <1>0
    <2>2. mem[c + j - 1] = s[k + j]
      BY DEF Reached
    <2> QED
      BY <2>1, <2>2
  <1>2. Reached(mem, b, s, e, Len(s))
    <2>1. Reached(mem, b, s, c + n, k + n)
      <3> HIDE DEF n
      <3> QED
        BY <1>0, <1>1, Run
    <2> QED
      BY <1>0, <2>1
  <1>3. DecodedFrom(s)[Len(s) + 1] = <<>>
    <2>1. Len(s) + 1 \in 1 .. Len(s) + 3 /\ Len(s) + 1 > Len(s)
      BY <1>0
    <2>2. TailStep(s, Len(s) + 1)
      BY <2>1, TailSteps
    <2> QED
      BY <2>1, <2>2 DEF TailStep
  <1>4. BytesOf(Decoded(s), e - b, mem, b)
    <2>1. Agrees(Decoded(s), mem, b, e, <<>>)
      BY <1>2, <1>3 DEF Reached
    <2>2. Len(Decoded(s)) = e - b + Len(<<>>) /\ \A j \in 1 .. e - b : Decoded(s)[j] = mem[b + j - 1]
      BY <2>1 DEF Agrees
    <2>3. Len(<<>>) = 0 /\ e - b + 0 = e - b
      BY <1>0
    <2>4. Decoded(s) \in Seq(0 .. 255)
      BY DecodedTyped
    <2> QED
      BY <2>2, <2>3, <2>4 DEF BytesOf
  <1>5. e \in b .. INBUFFER
    BY <1>0
  <1>6. Before(Decoded(s), <<NUL>>) = CText(mem, b)
    BY <1>4, <1>5, NulCut
  <1> QED
    BY <1>6 DEF Meaning

(* "../" and what follows it are cut from the text.                        *)
LEMMA CutText ==
  ASSUME NEW mem \in Memory, NEW new \in Memory, NEW p \in 0 .. INBUFFER, NEW e \in p .. INBUFFER,
         StrEnd(mem, p) = e, mem[e] = NUL, NEW h, h = StrStr(mem, p, ParentDir),
         h = NULL => new = mem,
         h # NULL => h \in p .. e - 3 /\ new[h] = NUL /\ \A i \in 0 .. h - 1 : new[i] = mem[i]
  PROVE  CText(new, p) = Before(CText(mem, p), ParentDir)
  <1> DEFINE t == CText(mem, p)
  <1>0. INBUFFER \in Nat /\ p \in Nat /\ e \in Nat /\ p <= e /\ e <= INBUFFER
    BY InbufferPositive
  <1>1. t \in Seq(0 .. 255) /\ Len(t) = e - p /\ \A i \in 1 .. e - p : t[i] = mem[p + i - 1]
    BY CTextFacts
  <1>2. ParentDir \in Seq(0 .. 255) /\ Len(ParentDir) = 3
    BY DEF ParentDir, DOT, SLASH
  <1>3. /\ h = NULL => \A i \in p .. e - Len(ParentDir) : ~Occurs(mem, i, ParentDir)
        /\ h # NULL => /\ h \in p .. e - Len(ParentDir) /\ Occurs(mem, h, ParentDir)
                       /\ \A i \in p .. h - 1 : ~Occurs(mem, i, ParentDir)
    BY <1>2, StrStrFacts, ZenonT(60)
  <1> HIDE DEF t
  <1>4. ASSUME NEW i \in 1 .. e - p - 2
        PROVE  Occurs(t, i, ParentDir) <=> Occurs(mem, p + i - 1, ParentDir)
    <2>1. ASSUME NEW j \in 1 .. 3 PROVE t[i + j - 1] = mem[p + i - 1 + j - 1]
      <3>1. i + j - 1 \in 1 .. e - p /\ p + (i + j - 1) - 1 = p + i - 1 + j - 1
        BY <1>0
      <3>2. t[i + j - 1] = mem[p + (i + j - 1) - 1]
        BY <1>1, <3>1
      <3> QED
        BY <3>1, <3>2
    <2> QED
      BY <1>2, <2>1 DEF Occurs
  <1>5. CASE h = NULL
    <2>1. ASSUME NEW i \in 1 .. e - p - 2 PROVE ~Occurs(t, i, ParentDir)
      <3>1. p + i - 1 \in p .. e - 3
        BY <1>0
      <3> QED
        BY <1>2, <1>3, <1>4, <1>5, <3>1
    <2>2. Len(t) - Len(ParentDir) + 1 = e - p - 2
      BY <1>0, <1>1, <1>2
    <2>3. \A i \in 1 .. Len(t) - Len(ParentDir) + 1 : ~Occurs(t, i, ParentDir)
      BY <2>1, <2>2
    <2>4. Before(t, ParentDir) = t
      BY <1>1, <1>2, <2>3, BeforeNone
    <2> QED
      BY <1>5, <2>4 DEF t
  <1>6. CASE h # NULL
    <2> DEFINE f == h - p + 1
    <2>1. /\ h \in p .. e - 3 /\ h \in Nat /\ f \in 1 .. e - p - 2 /\ f \in Nat /\ p + f - 1 = h /\ f - 1 = h - p
          /\ h \in p .. INBUFFER /\ new[h] = NUL /\ \A i \in 0 .. h - 1 : new[i] = mem[i]
      BY <1>0, <1>6
    <2> HIDE DEF f
    <2>2. Occurs(t, f, ParentDir)
      BY <1>3, <1>4, <1>6, <2>1
    <2>3. ASSUME NEW i \in 1 .. f - 1 PROVE ~Occurs(t, i, ParentDir)
      <3>1. i \in 1 .. e - p - 2 /\ p + i - 1 \in p .. h - 1
        BY <1>0, <2>1
      <3> QED
        BY <1>3, <1>4, <1>6, <3>1
    <2>4. f \in 1 .. Len(t) - Len(ParentDir) + 1 /\ Len(ParentDir) > 0
      BY <1>0, <1>1, <1>2, <2>1
    <2>5. BytesOf(Before(t, ParentDir), f - 1, t, 1)
      BY <1>1, <1>2, <2>2, <2>3, <2>4, BeforeAt
    <2>6. StrEnd(new, p) = h
      <3>1. ASSUME NEW j \in p .. h - 1 PROVE new[j] # NUL
        <4>1. StrEnd(mem, p) \in p .. e /\ \A i \in p .. StrEnd(mem, p) - 1 : mem[i] # NUL
          BY StrEndFacts
        <4>2. j \in p .. e - 1 /\ j \in 0 .. h - 1
          BY <1>0, <2>1
        <4> QED
          BY <2>1, <4>1, <4>2
      <3> QED
        BY <2>1, <3>1, StrEndIs
    <2>7. /\ CText(new, p) \in Seq(0 .. 255) /\ Len(CText(new, p)) = h - p
          /\ \A i \in 1 .. h - p : CText(new, p)[i] = new[p + i - 1]
      BY <2>1, <2>6, CTextFacts
    <2>8. ASSUME NEW i \in 1 .. h - p PROVE CText(new, p)[i] = Before(t, ParentDir)[i]
      <3>1. i \in 1 .. f - 1 /\ 1 + i - 1 = i /\ i \in 1 .. e - p /\ p + i - 1 \in 0 .. h - 1
        BY <1>0, <2>1
      <3>2. Before(t, ParentDir)[i] = t[i]
        BY <2>5, <3>1 DEF BytesOf
      <3> QED
        BY <1>1, <2>1, <2>7, <3>1, <3>2
    <2>9. Before(t, ParentDir) \in Seq(0 .. 255) /\ Len(Before(t, ParentDir)) = h - p
      BY <2>1, <2>5 DEF BytesOf
    <2>10. CText(new, p) = Before(t, ParentDir)
      BY <2>7, <2>8, <2>9, SeqEqual
    <2> QED
      BY <2>10 DEF t
  <1> QED
    BY <1>5, <1>6

(* The invariant, with what the bytes mean: replaceEscape is somewhere in  *)
(* its part, the page is done before the parameters, and both then mean    *)
(* what the client sent.                                                   *)
Going(mem, b, s, c) == \E k \in 0 .. Len(s) : Reached(mem, b, s, c, k) /\ StrEnd(mem, c) = c + (Len(s) - k)
Meant ==
  /\ url = "page" => (CompleteEscapes(RawPage) => Going(buf, page, RawPage, cursor))
  /\ url \in {"params", "done"} =>
       (CompleteEscapes(RawPage) => CText(buf, page) = Before(Meaning(RawPage), ParentDir))
  /\ url = "params" => (CompleteEscapes(RawParams) => Going(buf, get_params, RawParams, cursor))
  /\ url = "done" /\ get_params # NULL =>
       (CompleteEscapes(RawParams) => CText(buf, get_params) = Meaning(RawParams))

LEMMA Begins ==
  ASSUME NEW mem \in Memory, NEW b \in 0 .. INBUFFER, NEW e \in b .. INBUFFER, mem[e] = NUL,
         \A i \in b .. e - 1 : mem[i] # NUL, NEW s, BytesOf(s, e - b, mem, b), CompleteEscapes(s)
  PROVE  Going(mem, b, s, b)
  <1>0. INBUFFER \in Nat /\ b \in Nat /\ e \in Nat /\ e - b \in Nat
    BY InbufferPositive
  <1>1. s \in Seq(0 .. 255) /\ Len(s) = e - b /\ \A i \in 1 .. e - b : s[i] = mem[b + i - 1]
    BY DEF BytesOf
  <1>2. StrEnd(mem, b) = e /\ e = b + (Len(s) - 0)
    BY <1>0, <1>1, StrEndIs
  <1>3. Decoded(s) \in Seq(0 .. 255) /\ Decoded(s) = DecodedFrom(s)[0 + 1]
    BY <1>1, DecodedTyped DEF Decoded
  <1>4. Agrees(Decoded(s), mem, b, b, DecodedFrom(s)[0 + 1])
    <2> DEFINE d == Decoded(s)
    <2>1. Len(d) \in Nat /\ b - b = 0 /\ 1 .. 0 = {} /\ \A j \in 1 .. Len(d) : 0 + j = j
      BY <1>0, <1>3
    <2> HIDE DEF d
    <2>2. Agrees(d, mem, b, b, d)
      BY <1>0, <2>1 DEF Agrees
    <2> QED
      BY <1>3, <2>2 DEF d
  <1>5. ASSUME NEW j \in 1 .. Len(s) - 0 PROVE mem[b + j - 1] = s[0 + j]
    <2>1. j \in 1 .. e - b /\ 0 + j = j
      BY <1>0, <1>1
    <2> QED
      BY <1>1, <2>1
  <1>6. 0 \in 0 .. Len(s)
    BY <1>0, <1>1
  <1>7. Reached(mem, b, s, b, 0)
    BY <1>4, <1>5, <1>6 DEF Reached
  <1> QED
    BY <1>2, <1>6, <1>7 DEF Going

LEMMA MeantSplit ==
  ASSUME ScanInv, UrlInv, SplitGetParams, HeadKept
  PROVE  Meant'
  <1> DEFINE R == UrlEnd'
  <1> DEFINE P == PageEnd'
  <1> DEFINE s == Before(CText(buf, page), <<QMARK>>)
  <1>1. /\ raw' = buf /\ cursor' = page /\ url' = "page" /\ page' = page
        /\ page \in 0 .. INBUFFER /\ INBUFFER \in Nat /\ end \in Nat /\ end + 3 <= bufFull
        /\ bufFull <= INBUFFER /\ bufFull \in Nat /\ buf \in Memory
        /\ R \in page .. end + 2 /\ buf[R] = NUL
        /\ \A i \in page .. P - 1 : buf[i] # QMARK
    BY SplitFacts DEF HeadKept
  <1>2. \/ buf' = buf /\ P = R
        \/ P \in page .. R - 1 /\ buf' = [buf EXCEPT ![P] = NUL] /\ buf[P] = QMARK
    BY SplitFacts
  <1>3. R = StrEnd(buf, page)
    BY <1>1 DEF UrlEnd
  <1> HIDE DEF R, P
  <1>4. /\ R \in Nat /\ P \in Nat /\ page \in Nat /\ page <= P /\ P <= R /\ R < INBUFFER
        /\ P \in page .. R /\ R \in page .. INBUFFER /\ P \in page .. INBUFFER /\ P \in 0 .. INBUFFER
        /\ (P < R => buf[P] = QMARK)
    BY <1>1, <1>2
  <1>5. BytesOf(s, P - page, buf, page)
    BY <1>1, <1>3, <1>4, RawFacts
  <1>6. buf' \in Memory /\ buf'[P] = NUL /\ \A i \in 0 .. INBUFFER : i # P => buf'[i] = buf[i]
    <2>1. CASE buf' = buf /\ P = R
      BY <1>1, <2>1
    <2>2. CASE buf' = [buf EXCEPT ![P] = NUL]
      BY <1>1, <1>4, <2>2 DEF Memory, NUL
    <2> QED
      BY <1>2, <2>1, <2>2
  <1>7. ASSUME NEW i \in page .. P - 1 PROVE i \in 0 .. INBUFFER /\ buf'[i] = buf[i] /\ buf'[i] # NUL
    <2>1. i \in 0 .. INBUFFER /\ i # P /\ i \in page .. R - 1
      BY <1>1, <1>4
    <2>2. buf[i] # NUL
      <3>1. \A j \in page .. StrEnd(buf, page) - 1 : buf[j] # NUL
        BY <1>1, <1>4, StrEndFacts
      <3> QED
        BY <1>3, <2>1, <3>1
    <2> QED
      BY <1>6, <2>1, <2>2
  <1> HIDE DEF s
  <1>8. BytesOf(s, P - page, buf', page)
    <2>1. ASSUME NEW i \in 1 .. P - page PROVE buf'[page + i - 1] = buf[page + i - 1]
      <3>1. page + i - 1 \in page .. P - 1
        BY <1>4
      <3> QED
        BY <1>7, <3>1
    <2> QED
      BY <1>5, <2>1 DEF BytesOf
  <1>9. ASSUME CompleteEscapes(s) PROVE Going(buf', page, s, page)
    BY <1>1, <1>4, <1>6, <1>7, <1>8, <1>9, Begins
  <1>10. RawPage' = s
    BY <1>1 DEF RawPage, RawUrl, s
  <1> QED
    BY <1>1, <1>9, <1>10 DEF Meant

LEMMA EscapeGoing ==
  ASSUME ScanInv, UrlInv, Escape, NEW s \in Seq(0 .. 255), CompleteEscapes(s), Going(buf, PartStart, s, cursor)
  PROVE  Going(buf', PartStart, s, cursor')
  <1> DEFINE b == PartStart
  <1> DEFINE h == NextEscape
  <1> DEFINE e == StrEnd(buf, cursor)
  <1>0. /\ INBUFFER \in Nat /\ UrlEnd \in Nat /\ UrlEnd + 1 <= INBUFFER /\ buf \in Memory
        /\ url \in {"page", "params"}
    <2>1. url \in {"page", "params"}
      BY DEF Escape
    <2> QED
      BY <2>1, UrlBounds
  <1>1. /\ h \in cursor .. e - 1 /\ e \in cursor .. PartEnd /\ h \in Nat /\ e \in Nat /\ h < e
        /\ buf[h] = PERCENT /\ \A i \in cursor .. h - 1 : buf[i] # PERCENT
        /\ buf' \in Memory /\ cursor' = h + 1
        /\ \A i \in 0 .. INBUFFER : i < h \/ i >= e => buf'[i] = buf[i]
        /\ buf'[h] = Strtol16(buf[h + 1], buf[h + 2])
        /\ h + 2 < e => buf'[e - 2] = NUL /\ \A i \in h + 1 .. e - 3 : buf'[i] = buf[i + 2]
    BY EscapeFacts
  <1>2. /\ PartEnd \in Nat /\ b \in Nat /\ PartEnd <= UrlEnd /\ buf[PartEnd] = NUL
        /\ cursor \in b .. PartEnd /\ cursor \in 0 .. INBUFFER /\ PartEnd \in cursor .. INBUFFER
    BY <1>0, PartFacts
  <1>3. \A i \in cursor .. e - 1 : buf[i] # NUL
    BY <1>0, <1>2, StrEndFacts
  <1>4. PICK k \in 0 .. Len(s) : Reached(buf, b, s, cursor, k) /\ e = cursor + (Len(s) - k)
    BY DEF Going
  <1> HIDE DEF b, h, e
  <1>5. \A j \in 1 .. Len(s) - k : buf[cursor + j - 1] = s[k + j]
    BY <1>4 DEF Reached
  <1> DEFINE n == h - cursor
  <1> DEFINE m == k + n
  <1>6. /\ Len(s) \in Nat /\ k \in Nat /\ cursor \in Nat /\ b <= cursor /\ n \in Nat /\ n + 1 <= Len(s) - k
        /\ n \in 0 .. Len(s) - k /\ cursor + n = h /\ m \in 0 .. Len(s) - 1 /\ e = h + (Len(s) - m)
        /\ h + Len(s) - m - 3 = e - 3 /\ m + 1 = k + (n + 1) /\ b <= h
        /\ h \in Nat /\ e \in Nat /\ b \in Nat /\ m \in Nat
    BY <1>1, <1>2, <1>4
  <1>7. ASSUME NEW i \in 1 .. n PROVE s[k + i] # PERCENT
    <2>1. cursor + i - 1 \in cursor .. h - 1 /\ i \in 1 .. Len(s) - k
      BY <1>6
    <2> QED
      BY <1>1, <1>5, <2>1
  <1>8. Reached(buf, b, s, h, m)
    <2>1. Reached(buf, b, s, cursor + n, k + n)
      <3> HIDE DEF n
      <3> QED
        BY <1>2, <1>4, <1>6, <1>7, Run
    <2> QED
      BY <1>6, <2>1
  <1>9. s[m + 1] = PERCENT
    <2>1. n + 1 \in 1 .. Len(s) - k /\ cursor + (n + 1) - 1 = h
      BY <1>6
    <2>2. buf[cursor + (n + 1) - 1] = s[k + (n + 1)]
      BY <1>5, <2>1
    <2> QED
      BY <1>1, <1>6, <2>1, <2>2
  <1> HIDE DEF m
  <1>10. m + 3 <= Len(s)
    <2>1. m + 1 \in 1 .. Len(s)
      BY <1>6
    <2>2. m + 1 + 2 <= Len(s)
      BY <1>9, <2>1 DEF CompleteEscapes
    <2> QED
      BY <1>6, <2>2
  <1>11. h + 2 < e /\ e - 2 \in h + 1 .. INBUFFER /\ h + 1 \in 0 .. INBUFFER /\ e \in 0 .. INBUFFER
    <2>1. h + 2 < e
      BY <1>6, <1>10
    <2>2. e <= INBUFFER
      <3>1. e \in cursor .. PartEnd /\ PartEnd \in cursor .. INBUFFER /\ cursor \in 0 .. INBUFFER
        BY <1>1, <1>2
      <3> QED
        BY <1>0, <3>1
    <2> QED
      BY <1>0, <1>6, <2>1, <2>2
  <1>12. m + 3 \in 0 .. Len(s) /\ Reached(buf', b, s, h + 1, m + 3)
    <2>1. \A i \in b .. h - 1 : buf'[i] = buf[i]
      <3> TAKE i \in b .. h - 1
      <3>1. i \in 0 .. INBUFFER /\ i < h
        BY <1>0, <1>2, <1>6, <1>11
      <3> QED
        BY <1>1, <3>1
    <2>2. \A i \in h + 1 .. h + Len(s) - m - 3 : buf'[i] = buf[i + 2]
      BY <1>1, <1>6, <1>11
    <2> QED
      BY <1>1, <1>2, <1>6, <1>8, <1>9, <2>1, <2>2, EscapeStep
  <1>13. StrEnd(buf', h + 1) = h + 1 + (Len(s) - (m + 3))
    <2>1. ASSUME NEW i \in h + 1 .. e - 2 - 1 PROVE buf'[i] # NUL
      <3>1. i \in h + 1 .. e - 3 /\ i + 2 \in cursor .. e - 1
        BY <1>1, <1>6
      <3> QED
        BY <1>1, <1>3, <1>11, <3>1
    <2>2. StrEnd(buf', h + 1) = e - 2
      BY <1>1, <1>11, <2>1, StrEndIs
    <2> QED
      BY <1>6, <2>2
  <1> QED
    BY <1>1, <1>12, <1>13 DEF Going, b

LEMMA GoingDone ==
  ASSUME ScanInv, UrlInv, url \in {"page", "params"}, NextEscape = NULL,
         NEW s \in Seq(0 .. 255), CompleteEscapes(s), Going(buf, PartStart, s, cursor)
  PROVE  CText(buf, PartStart) = Meaning(s)
  <1> DEFINE e == StrEnd(buf, cursor)
  <1>0. INBUFFER \in Nat /\ UrlEnd \in Nat /\ UrlEnd + 1 <= INBUFFER /\ buf \in Memory
    BY UrlBounds
  <1>1. /\ PartEnd \in Nat /\ PartStart \in Nat /\ PartEnd <= UrlEnd /\ buf[PartEnd] = NUL
        /\ cursor \in PartStart .. PartEnd /\ cursor \in 0 .. INBUFFER /\ PartEnd \in cursor .. INBUFFER
    BY PartFacts
  <1>2. PERCENT \in 0 .. 255
    BY DEF PERCENT
  <1>3. e \in cursor .. PartEnd /\ buf[e] = NUL /\ FoundByte(buf, cursor, PERCENT)
    BY <1>0, <1>1, <1>2, FindByte
  <1>4. \A i \in cursor .. e - 1 : buf[i] # PERCENT
    BY <1>3 DEF FoundByte, Find, NextEscape
  <1>5. PICK k \in 0 .. Len(s) : Reached(buf, PartStart, s, cursor, k) /\ e = cursor + (Len(s) - k)
    BY DEF Going
  <1> HIDE DEF e
  <1>6. PartStart \in 0 .. INBUFFER /\ cursor \in PartStart .. INBUFFER /\ e \in cursor .. INBUFFER
    BY <1>0, <1>1, <1>3
  <1> QED
    BY <1>0, <1>3, <1>4, <1>5, <1>6, Finished

LEMMA PartText ==
  ASSUME ScanInv, UrlInv, url \in {"page", "params"}
  PROVE  /\ url = "page" => PartStart = page /\ RawPage \in Seq(0 .. 255)
         /\ url = "params" => PartStart = get_params /\ RawParams \in Seq(0 .. 255) /\ get_params # NULL
  <1>1. CASE url = "page"
    BY <1>1, RawParts DEF PartStart, BytesOf
  <1>2. CASE url = "params"
    <2>1. get_params # NULL
      BY <1>2 DEF UrlInv, Cursor
    <2> QED
      BY <1>2, <2>1, RawParts DEF PartStart, BytesOf
  <1> QED
    BY <1>1, <1>2

LEMMA MeantEscape ==
  ASSUME ScanInv, UrlInv, Meant, Escape, HeadKept
  PROVE  Meant'
  <1>0. /\ url \in {"page", "params"} /\ url' = url /\ page_len' = page_len
        /\ get_params' = get_params /\ raw' = raw /\ page' = page
    BY DEF Escape, HeadKept
  <1>1. RawPage' = RawPage /\ RawParams' = RawParams
    BY <1>0 DEF RawPage, RawParams, RawUrl
  <1>2. CASE url = "page"
    <2>1. ASSUME CompleteEscapes(RawPage) PROVE Going(buf', page, RawPage, cursor')
      <3>1. PartStart = page /\ RawPage \in Seq(0 .. 255)
        BY <1>2, PartText
      <3>2. Going(buf, PartStart, RawPage, cursor)
        BY <1>2, <2>1, <3>1 DEF Meant
      <3> QED
        BY <2>1, <3>1, <3>2, EscapeGoing
    <2> QED
      BY <1>0, <1>1, <1>2, <2>1 DEF Meant
  <1>3. CASE url = "params"
    <2>0. PartStart = get_params /\ RawParams \in Seq(0 .. 255) /\ get_params # NULL
      BY <1>3, PartText
    <2>1. ASSUME CompleteEscapes(RawParams) PROVE Going(buf', get_params, RawParams, cursor')
      <3>1. Going(buf, PartStart, RawParams, cursor)
        BY <1>3, <2>0, <2>1 DEF Meant
      <3> QED
        BY <2>0, <2>1, <3>1, EscapeGoing
    <2>2. CText(buf', page) = CText(buf, page)
      <3>1. /\ INBUFFER \in Nat /\ page \in Nat /\ PageEnd \in Nat /\ UrlEnd \in Nat
            /\ page <= PageEnd /\ PageEnd <= UrlEnd /\ UrlEnd + 1 <= INBUFFER /\ buf \in Memory
            /\ buf[PageEnd] = NUL
        BY <1>3, UrlBounds
      <3> DEFINE h == NextEscape
      <3>2. h \in Nat /\ h >= cursor /\ buf' \in Memory /\ \A i \in 0 .. INBUFFER : i < h => buf'[i] = buf[i]
        BY EscapeFacts
      <3>3. cursor \in get_params .. UrlEnd /\ get_params = PageEnd + 1
        BY <1>3, <2>0 DEF UrlInv, Cursor, InUrl
      <3> HIDE DEF h
      <3>4. \A i \in page .. PageEnd : buf'[i] = buf[i]
        <4> TAKE i \in page .. PageEnd
        <4>1. i \in 0 .. INBUFFER /\ i < h
          BY <3>1, <3>2, <3>3
        <4> QED
          BY <3>2, <4>1
      <3>5. page \in 0 .. INBUFFER /\ PageEnd \in page .. INBUFFER
        BY <3>1
      <3> QED
        BY <3>1, <3>2, <3>4, <3>5, SameText
    <2> QED
      BY <1>0, <1>1, <1>3, <2>1, <2>2 DEF Meant
  <1> QED
    BY <1>0, <1>2, <1>3

LEMMA MeantCut ==
  ASSUME ScanInv, UrlInv, Meant, CutParent, HeadKept
  PROVE  Meant'
  <1>0. /\ url = "page" /\ NextEscape = NULL /\ page_len' = page_len
        /\ get_params' = get_params /\ raw' = raw /\ page' = page
        /\ \/ get_params = NULL /\ url' = "done"
           \/ get_params # NULL /\ url' = "params" /\ cursor' = get_params
    BY DEF CutParent, HeadKept
  <1>1. RawPage' = RawPage /\ RawParams' = RawParams
    BY <1>0 DEF RawPage, RawParams, RawUrl
  <1>2. /\ INBUFFER \in Nat /\ page \in Nat /\ PageEnd \in Nat /\ UrlEnd \in Nat
        /\ page <= PageEnd /\ PageEnd <= UrlEnd /\ UrlEnd + 1 <= INBUFFER /\ buf \in Memory /\ raw \in Memory
    BY <1>0, UrlBounds
  <1> DEFINE e == StrEnd(buf, page)
  <1> DEFINE h == StrStr(buf, page, ParentDir)
  <1>3. /\ e \in page .. PageEnd /\ buf[e] = NUL /\ e \in Nat /\ page \in 0 .. INBUFFER /\ e \in page .. INBUFFER
        /\ buf' \in Memory /\ \A i \in 0 .. INBUFFER : i < page \/ i >= e => buf'[i] = buf[i]
        /\ h = NULL => buf' = buf
        /\ h # NULL => h \in page .. e - 3 /\ buf'[h] = NUL /\ \A i \in 0 .. h - 1 : buf'[i] = buf[i]
    BY CutParentFacts
  <1>4. CText(buf', page) = Before(CText(buf, page), ParentDir)
    <2>1. StrEnd(buf, page) = e /\ h = StrStr(buf, page, ParentDir)
      OBVIOUS
    <2> HIDE DEF e, h
    <2> QED
      BY <1>2, <1>3, <2>1, CutText
  <1>5. ASSUME CompleteEscapes(RawPage) PROVE CText(buf', page) = Before(Meaning(RawPage), ParentDir)
    <2>1. PartStart = page /\ RawPage \in Seq(0 .. 255) /\ url \in {"page", "params"}
      BY <1>0, PartText
    <2>2. Going(buf, PartStart, RawPage, cursor)
      BY <1>0, <1>5, <2>1 DEF Meant
    <2>3. CText(buf, PartStart) = Meaning(RawPage)
      BY <1>0, <1>5, <2>1, <2>2, GoingDone
    <2> QED
      BY <1>4, <2>1, <2>3
  <1> HIDE DEF e, h
  <1>6. ASSUME get_params # NULL, CompleteEscapes(RawParams)
        PROVE  Going(buf', get_params, RawParams, get_params)
    <2>1. get_params = PageEnd + 1 /\ get_params <= UrlEnd /\ raw[UrlEnd] = NUL
      BY <1>0, <1>6 DEF UrlInv, InUrl
    <2>2. BytesOf(RawParams, UrlEnd - get_params, raw, get_params)
      BY <1>0, <1>6, RawParts
    <2>3. \A i \in page .. UrlEnd - 1 : raw[i] # NUL
      <3>1. page \in 0 .. INBUFFER /\ UrlEnd \in page .. INBUFFER
        BY <1>2
      <3>2. \A i \in page .. StrEnd(raw, page) - 1 : raw[i] # NUL
        BY <1>2, <2>1, <3>1, StrEndFacts
      <3> QED
        BY <3>2 DEF UrlEnd
    <2>4. ASSUME NEW i \in get_params .. UrlEnd PROVE buf'[i] = raw[i]
      <3>1. i \in 0 .. INBUFFER /\ i > PageEnd /\ i >= e
        BY <1>2, <1>3, <2>1
      <3>2. buf[i] = raw[i]
        BY <1>0, <3>1 DEF UrlInv, Cursor
      <3> QED
        BY <1>3, <3>1, <3>2
    <2>5. get_params \in 0 .. INBUFFER /\ UrlEnd \in get_params .. INBUFFER /\ UrlEnd \in get_params .. UrlEnd
          /\ get_params \in Nat
      BY <1>2, <2>1
    <2>6. BytesOf(RawParams, UrlEnd - get_params, buf', get_params)
      <3>1. ASSUME NEW i \in 1 .. UrlEnd - get_params PROVE buf'[get_params + i - 1] = raw[get_params + i - 1]
        <4>1. get_params + i - 1 \in get_params .. UrlEnd
          BY <1>2, <2>5
        <4> QED
          BY <2>4, <4>1
      <3> QED
        BY <2>2, <3>1 DEF BytesOf
    <2>7. buf'[UrlEnd] = NUL
      BY <2>1, <2>4, <2>5
    <2>8. \A i \in get_params .. UrlEnd - 1 : buf'[i] # NUL
      <3> TAKE i \in get_params .. UrlEnd - 1
      <3>1. i \in page .. UrlEnd - 1 /\ i \in get_params .. UrlEnd
        BY <1>2, <2>1, <2>5
      <3> QED
        BY <2>3, <2>4, <3>1
    <2> QED
      BY <1>3, <1>6, <2>5, <2>6, <2>7, <2>8, Begins
  <1> QED
    BY <1>0, <1>1, <1>5, <1>6 DEF Meant

LEMMA MeantDone ==
  ASSUME ScanInv, UrlInv, Meant, ParamsDone, HeadKept
  PROVE  Meant'
  <1>0. /\ url = "params" /\ url' = "done" /\ NextEscape = NULL /\ buf' = buf
        /\ get_params' = get_params /\ raw' = raw /\ page' = page
    BY DEF ParamsDone, HeadKept
  <1>1. RawPage' = RawPage /\ RawParams' = RawParams
    BY <1>0 DEF RawPage, RawParams, RawUrl
  <1>2. ASSUME CompleteEscapes(RawParams) PROVE CText(buf, get_params) = Meaning(RawParams)
    <2>1. PartStart = get_params /\ RawParams \in Seq(0 .. 255) /\ url \in {"page", "params"}
      BY <1>0, PartText
    <2>2. Going(buf, PartStart, RawParams, cursor)
      BY <1>0, <1>2, <2>1 DEF Meant
    <2>3. CText(buf, PartStart) = Meaning(RawParams)
      BY <1>0, <1>2, <2>1, <2>2, GoingDone
    <2> QED
      BY <2>1, <2>3
  <1> QED
    BY <1>0, <1>1, <1>2 DEF Meant

LEMMA MeantNext == HeadInv /\ Meant /\ [HeadNext]_<<headVars, urlVars>> => Meant'
  <1> SUFFICES ASSUME ScanInv, UrlInv, Meant, [HeadNext]_<<headVars, urlVars>>
               PROVE  Meant'
    BY DEF HeadInv
  <1>1. ASSUME url' = "idle" PROVE Meant'
    BY <1>1 DEF Meant
  <1>2. ASSUME scan # "parsed", UNCHANGED urlVars PROVE Meant'
    <2>1. url = "idle" /\ url' = url
      BY <1>2 DEF ScanInv, HeadCut, urlVars
    <2> QED
      BY <1>1, <2>1
  <1>3. ASSUME NEW text \in Seq(0 .. 255), NEW slow \in BOOLEAN, Accept(text, slow), UNCHANGED urlVars
        PROVE  Meant'
    BY <1>2, <1>3 DEF Accept
  <1>4. ASSUME ScanStep, UNCHANGED urlVars
        PROVE  Meant'
    BY <1>2, <1>4 DEF ScanStep, ScanStart, ScanRead, ScanEnd, Tokenize
  <1>5. CASE UrlStep
    <2>1. HeadKept
      BY <1>5 DEF UrlStep, HeadKept
    <2> QED
      BY <1>5, <2>1, MeantSplit, MeantEscape, MeantCut, MeantDone DEF UrlStep
  <1>6. ASSUME NEW keep \in BOOLEAN, NextRequest(keep), UrlReset
        PROVE  Meant'
    BY <1>1, <1>6 DEF UrlReset
  <1>7. CASE UNCHANGED <<headVars, urlVars>>
    <2>1. url' = url /\ buf' = buf /\ page' = page /\ cursor' = cursor /\ get_params' = get_params /\ raw' = raw
      BY <1>7 DEF headVars, urlVars
    <2>2. RawPage' = RawPage /\ RawParams' = RawParams
      BY <2>1 DEF RawPage, RawParams, RawUrl
    <2> QED
      BY <2>1, <2>2 DEF Meant
  <1> QED
    BY <1>3, <1>4, <1>5, <1>6, <1>7 DEF HeadNext

(* The URL means what the client sent, for every URL: each complete escape *)
(* of the page and of the parameters is replaced exactly once, the page    *)
(* ends at the first "../", and replaceEscape, delChar and strReplace      *)
(* change nothing outside the URL, incomplete escapes included.            *)
THEOREM UrlCorrect == HeadSpec => []UrlRight
  <1>1. ScanInit /\ UrlInit => HeadInv /\ Meant
    <2>1. UrlInit => Meant
      BY DEF UrlInit, Meant
    <2> QED
      BY <2>1, ScanInitInv, UrlInitInv DEF HeadInv
  <1>2. HeadInv /\ Meant => UrlRight
    <2> SUFFICES ASSUME HeadInv, Meant PROVE UrlDecoded
      BY InPlace DEF UrlRight
    <2>1. ASSUME url = "done" PROVE (get_params = NULL) = (RawPage = RawUrl)
      BY <2>1, RawParts DEF HeadInv
    <2> QED
      BY <2>1 DEF Meant, UrlDecoded
  <1> QED
    BY <1>1, <1>2, HeadInvNext, MeantNext, PTL DEF HeadSpec
-----------------------------------------------------------------------------
(* Credentials.  The bytes a text is padded to, and the six bits of the    *)
(* j-th character of its k-th block.                                       *)
ByteAt(text, i) == IF i <= Len(text) THEN text[i] ELSE 0
Sextets(x, y, z) == <<x \div 4, (x % 4) * 16 + (y \div 16), (y % 16) * 4 + (z \div 64), z % 64>>
Triple(c) == <<c[1] * 4 + (c[2] \div 16), ((c[2] * 16) % 256) + (c[3] \div 4),
               ((c[3] * 64) % 256) + c[4]>>
CodeOf(text, k, j) == Sextets(ByteAt(text, 3 * k - 2), ByteAt(text, 3 * k - 1), ByteAt(text, 3 * k))[j]

(* Base64 on three bytes: their four codes, and back.                      *)
LEMMA SextetsTyped ==
  ASSUME NEW x \in 0 .. 255, NEW y \in 0 .. 255, NEW z \in 0 .. 255, NEW j \in 1 .. 4
  PROVE  Sextets(x, y, z)[j] \in 0 .. 63
  <1>1. /\ x \div 4 \in 0 .. 63 /\ (x % 4) * 16 + (y \div 16) \in 0 .. 63
        /\ (y % 16) * 4 + (z \div 64) \in 0 .. 63 /\ z % 64 \in 0 .. 63
    OBVIOUS
  <1>2. j = 1 \/ j = 2 \/ j = 3 \/ j = 4
    OBVIOUS
  <1> QED
    BY <1>1, <1>2 DEF Sextets

LEMMA ThreeBytes ==
  ASSUME NEW x \in 0 .. 255, NEW y \in 0 .. 255, NEW z \in 0 .. 255
  PROVE  Triple(Sextets(x, y, z)) = <<x, y, z>>
  <1>1. (x \div 4) * 4 + (((x % 4) * 16 + (y \div 16)) \div 16) = x
    OBVIOUS
  <1>2. ((((x % 4) * 16 + (y \div 16)) * 16) % 256) + (((y % 16) * 4 + (z \div 64)) \div 4) = y
    OBVIOUS
  <1>3. ((((y % 16) * 4 + (z \div 64)) * 64) % 256) + (z % 64) = z
    OBVIOUS
  <1> QED
    BY <1>1, <1>2, <1>3 DEF Sextets, Triple

(* getCode undoes what the encoder does with a code.                       *)
LEMMA CodeBack ==
  ASSUME NEW c \in 0 .. 63
  PROVE  GetCode(CharOf(c)) = c /\ CharOf(c) \in 1 .. 255
  BY DEF GetCode, CharOf
LEMMA PaddingCode == GetCode(61) = 0
  BY DEF GetCode

LEMMA BytesTyped ==
  ASSUME NEW text \in Seq(0 .. 255), NEW i \in Nat \ {0}
  PROVE  ByteAt(text, i) \in 0 .. 255
  <1>1. ASSUME i <= Len(text) PROVE text[i] \in 0 .. 255
    BY <1>1, ElementOfSeq
  <1> QED
    BY <1>1 DEF ByteAt

LEMMA CodesTyped ==
  ASSUME NEW text \in Seq(0 .. 255), NEW k \in Nat \ {0}, NEW j \in 1 .. 4
  PROVE  CodeOf(text, k, j) \in 0 .. 63
  <1>1. 3 * k - 2 \in Nat \ {0} /\ 3 * k - 1 \in Nat \ {0} /\ 3 * k \in Nat \ {0}
    OBVIOUS
  <1>2. ByteAt(text, 3 * k - 2) \in 0 .. 255 /\ ByteAt(text, 3 * k - 1) \in 0 .. 255
        /\ ByteAt(text, 3 * k) \in 0 .. 255
    BY <1>1, BytesTyped
  <1> QED
    BY <1>2, SextetsTyped DEF CodeOf

(* The four characters of a block, the padded ones included, stand for the *)
(* four codes of its bytes.                                                *)
LEMMA EncodedBlock ==
  ASSUME NEW text \in Seq(0 .. 255), NEW k \in 1 .. (Len(text) + 2) \div 3, NEW j \in 1 .. 4
  PROVE  GetCode(Encoded(text)[4 * (k - 1) + j]) = CodeOf(text, k, j)
  <1> DEFINE L == Len(text)
  <1> DEFINE n == (L + 2) \div 3
  <1> DEFINE used == (L * 8 + 5) \div 6
  <1> DEFINE char(i) == IF i <= used THEN CharOf(CodeOf(text, (i + 3) \div 4, ((i - 1) % 4) + 1)) ELSE 61
  <1> DEFINE i == 4 * (k - 1) + j
  <1>1. Encoded(text) = [m \in 1 .. 4 * n |-> char(m)]
    BY DEF Encoded, CodeOf, Sextets, ByteAt
  <1>2. L \in Nat /\ n \in Nat
    OBVIOUS
  <1> HIDE DEF char
  <1>5. i \in 1 .. 4 * n /\ (i + 3) \div 4 = k /\ ((i - 1) % 4) + 1 = j
    BY <1>2
  <1>6. Encoded(text)[i] = IF i <= used THEN CharOf(CodeOf(text, k, j)) ELSE 61
    <2>1. Encoded(text)[i] = char(i)
      BY <1>1, <1>5
    <2> HIDE DEF i
    <2> QED
      BY <1>5, <2>1 DEF char
  <1>9. CodeOf(text, k, j) \in 0 .. 63
    <2>1. k \in Nat \ {0}
      BY <1>2
    <2> QED
      BY <2>1, CodesTyped
  <1>10. CASE i <= used
    <2>1. Encoded(text)[i] = CharOf(CodeOf(text, k, j))
      BY <1>6, <1>10
    <2>2. GetCode(CharOf(CodeOf(text, k, j))) = CodeOf(text, k, j)
      BY <1>9, CodeBack
    <2> QED
      BY <2>1, <2>2
  <1>11. CASE ~(i <= used)
    <2>1. Encoded(text)[i] = 61
      BY <1>6, <1>11
    <2>2. k = n /\ ((j = 4 /\ L < 3 * n) \/ (j = 3 /\ L < 3 * n - 1))
      BY <1>2, <1>5, <1>11
    <2>3. L < 3 * n => ByteAt(text, 3 * k) = 0
      BY <1>2, <2>2 DEF ByteAt
    <2>4. L < 3 * n - 1 => ByteAt(text, 3 * k - 1) = 0 /\ ByteAt(text, 3 * k) = 0
      BY <1>2, <2>2 DEF ByteAt
    <2>5. CodeOf(text, k, j) = 0
      <3>1. CASE j = 4 /\ L < 3 * n
        BY <2>3, <3>1 DEF CodeOf, Sextets
      <3>2. CASE j = 3 /\ L < 3 * n - 1
        BY <2>4, <3>2 DEF CodeOf, Sextets
      <3> QED
        BY <2>2, <3>1, <3>2
    <2> QED
      BY <2>1, <2>5, PaddingCode
  <1> QED
    BY <1>10, <1>11

LEMMA EncodedTyped ==
  ASSUME NEW text \in Seq(0 .. 255)
  PROVE  /\ Encoded(text) \in Seq(0 .. 255)
         /\ Len(Encoded(text)) = 4 * ((Len(text) + 2) \div 3)
         /\ \A i \in 1 .. Len(Encoded(text)) : Encoded(text)[i] # NUL
  <1> DEFINE n == (Len(text) + 2) \div 3
  <1> DEFINE used == (Len(text) * 8 + 5) \div 6
  <1> DEFINE char(i) == IF i <= used THEN CharOf(CodeOf(text, (i + 3) \div 4, ((i - 1) % 4) + 1)) ELSE 61
  <1>1. Encoded(text) = [m \in 1 .. 4 * n |-> char(m)]
    BY DEF Encoded, CodeOf, Sextets, ByteAt
  <1>2. n \in Nat
    OBVIOUS
  <1>3. ASSUME NEW m \in 1 .. 4 * n PROVE char(m) \in 1 .. 255
    <2>1. (m + 3) \div 4 \in Nat \ {0} /\ ((m - 1) % 4) + 1 \in 1 .. 4
      BY <1>2
    <2>2. CodeOf(text, (m + 3) \div 4, ((m - 1) % 4) + 1) \in 0 .. 63
      BY <2>1, CodesTyped
    <2> DEFINE c == CodeOf(text, (m + 3) \div 4, ((m - 1) % 4) + 1)
    <2> HIDE DEF c
    <2>3. CharOf(c) \in 1 .. 255
      BY <2>2, CodeBack DEF c
    <2> QED
      BY <2>3 DEF c
  <1> HIDE DEF char, n
  <1>4. Encoded(text) \in Seq(0 .. 255) /\ Len(Encoded(text)) = 4 * n
    BY <1>1, <1>2, <1>3
  <1>5. \A i \in 1 .. Len(Encoded(text)) : Encoded(text)[i] # NUL
    <2> TAKE i \in 1 .. Len(Encoded(text))
    <2>1. i \in 1 .. 4 * n
      BY <1>4
    <2>2. Encoded(text)[i] = char(i)
      BY <1>1, <2>1
    <2>3. char(i) \in 1 .. 255
      BY <1>3, <2>1, Zenon
    <2>4. \A x \in 1 .. 255 : x # NUL
      BY DEF NUL
    <2> QED
      BY <2>2, <2>3, <2>4, Zenon
  <1> QED
    BY <1>4, <1>5 DEF n

(* decode4_64 gives the bytes of a block back.                             *)
LEMMA DecodedBlock ==
  ASSUME NEW text \in Seq(0 .. 255), NEW k \in 1 .. (Len(text) + 2) \div 3, NEW j \in 1 .. 3
  PROVE  Decode4(SubSeq(Encoded(text), (k - 1) * 4 + 1, (k - 1) * 4 + 4))[j]
           = ByteAt(text, 3 * (k - 1) + j)
  <1> DEFINE e == Encoded(text)
  <1> DEFINE n == (Len(text) + 2) \div 3
  <1> DEFINE g == SubSeq(e, (k - 1) * 4 + 1, (k - 1) * 4 + 4)
  <1>1. e \in Seq(0 .. 255) /\ Len(e) = 4 * n /\ n \in Nat /\ k \in 1 .. n
    BY EncodedTyped
  <1>c. /\ GetCode(e[4 * (k - 1) + 1]) = CodeOf(text, k, 1) /\ GetCode(e[4 * (k - 1) + 2]) = CodeOf(text, k, 2)
        /\ GetCode(e[4 * (k - 1) + 3]) = CodeOf(text, k, 3) /\ GetCode(e[4 * (k - 1) + 4]) = CodeOf(text, k, 4)
    BY EncodedBlock
  <1> HIDE DEF e, n
  <1>2. g = [i \in 1 .. 4 |-> e[4 * (k - 1) + i]]
    <2>1. /\ (k - 1) * 4 + 1 \in 1 .. Len(e) + 1 /\ (k - 1) * 4 + 4 \in (k - 1) * 4 .. Len(e)
          /\ (k - 1) * 4 + 4 - ((k - 1) * 4 + 1) + 1 = 4
      BY <1>1
    <2>2. g = [i \in 1 .. 4 |-> e[(k - 1) * 4 + 1 + i - 1]]
      BY <1>1, <2>1
    <2>3. ASSUME NEW i \in 1 .. 4 PROVE (k - 1) * 4 + 1 + i - 1 = 4 * (k - 1) + i
      BY <1>1
    <2> QED
      BY <2>2, <2>3
  <1>3. /\ GetCode(g[1]) = CodeOf(text, k, 1) /\ GetCode(g[2]) = CodeOf(text, k, 2)
        /\ GetCode(g[3]) = CodeOf(text, k, 3) /\ GetCode(g[4]) = CodeOf(text, k, 4)
    <2>1. /\ g[1] = e[4 * (k - 1) + 1] /\ g[2] = e[4 * (k - 1) + 2]
          /\ g[3] = e[4 * (k - 1) + 3] /\ g[4] = e[4 * (k - 1) + 4]
      <3> HIDE DEF g
      <3> QED
        BY <1>2
    <2> HIDE DEF g
    <2> QED
      BY <1>c, <2>1
  <1> HIDE DEF g
  <1> DEFINE x == ByteAt(text, 3 * k - 2)
  <1> DEFINE y == ByteAt(text, 3 * k - 1)
  <1> DEFINE z == ByteAt(text, 3 * k)
  <1> DEFINE c == Sextets(x, y, z)
  <1>4. Decode4(g) = Triple(c)
    <2> HIDE DEF c, x, y, z
    <2>1. /\ GetCode(g[1]) = c[1] /\ GetCode(g[2]) = c[2]
          /\ GetCode(g[3]) = c[3] /\ GetCode(g[4]) = c[4]
      BY <1>3 DEF CodeOf, c, x, y, z
    <2> QED
      BY <2>1 DEF Decode4, Triple
  <1>5. x \in 0 .. 255 /\ y \in 0 .. 255 /\ z \in 0 .. 255
    <2>1. 3 * k - 2 \in Nat \ {0} /\ 3 * k - 1 \in Nat \ {0} /\ 3 * k \in Nat \ {0}
      BY <1>1
    <2> QED
      BY <2>1, BytesTyped
  <1>7. 3 * (k - 1) + 1 = 3 * k - 2 /\ 3 * (k - 1) + 2 = 3 * k - 1 /\ 3 * (k - 1) + 3 = 3 * k
    BY <1>1
  <1>8. Decode4(g) = <<x, y, z>>
    <2>1. c = Sextets(x, y, z)
      OBVIOUS
    <2> HIDE DEF c, x, y, z
    <2>2. Triple(c) = <<x, y, z>>
      BY <1>5, <2>1, ThreeBytes
    <2> QED
      BY <1>4, <2>2, Zenon
  <1>9. Decode4(g)[j] = ByteAt(text, 3 * (k - 1) + j)
    <2>1. j = 1 \/ j = 2 \/ j = 3
      OBVIOUS
    <2>2. x = ByteAt(text, 3 * (k - 1) + 1) /\ y = ByteAt(text, 3 * (k - 1) + 2)
          /\ z = ByteAt(text, 3 * (k - 1) + 3)
      BY <1>7
    <2> HIDE DEF x, y, z
    <2> QED
      BY <1>8, <2>1, <2>2
  <1> QED
    BY <1>9 DEF g, e

(* c is the C string in the bytes b.                                       *)
IsCut(c, b) ==
  /\ c \in Seq(0 .. 255) /\ Len(c) <= Len(b)
  /\ \A i \in 1 .. Len(c) : c[i] = b[i] /\ b[i] # NUL
  /\ Len(c) < Len(b) => b[Len(c) + 1] = NUL

LEMMA CutIs ==
  ASSUME NEW b \in Seq(0 .. 255)
  PROVE  IsCut(CutAtNul(b), b)
  <1> DEFINE Nuls == {i \in 1 .. Len(b) : b[i] = NUL}
  <1>0. Len(b) \in Nat /\ NUL \in 0 .. 255
    BY DEF NUL
  <1>1. CASE Nuls = {}
    <2>1. \A i \in 1 .. Len(b) : b[i] # NUL
      BY <1>1
    <2>2. CutAtNul(b) = b
      BY <1>0, <2>1, ByteAbsent DEF CutAtNul
    <2> QED
      BY <1>0, <2>1, <2>2 DEF IsCut
  <1>2. CASE Nuls # {}
    <2>1. PICK f \in Nuls : \A m \in Nuls : f <= m
      <3>1. Nuls \subseteq Nat
        BY <1>0
      <3> HIDE DEF Nuls
      <3> QED
        BY <1>2, <3>1, LeastExists
    <2>2. f \in 1 .. Len(b) /\ b[f] = NUL /\ \A i \in 1 .. f - 1 : b[i] # NUL
      BY <1>0, <2>1
    <2> DEFINE pat == <<NUL>>
    <2>3. pat \in Seq(0 .. 255) /\ Len(pat) = 1
      BY <1>0
    <2>4. ASSUME NEW i \in 1 .. Len(b) PROVE Occurs(b, i, pat) <=> b[i] = NUL
      <3>1. i \in Int
        OBVIOUS
      <3> QED
        BY <1>0, <3>1, OneByteAt, Zenon DEF IsAt
    <2>5. CutAtNul(b) = Before(b, pat)
      BY DEF CutAtNul
    <2> HIDE DEF pat
    <2>6. /\ f \in 1 .. Len(b) - Len(pat) + 1 /\ Occurs(b, f, pat) /\ Len(pat) > 0
          /\ \A i \in 1 .. f - 1 : ~Occurs(b, i, pat)
      BY <1>0, <2>2, <2>3, <2>4
    <2>7. BytesOf(CutAtNul(b), f - 1, b, 1)
      BY <2>3, <2>5, <2>6, BeforeAt
    <2> DEFINE c == CutAtNul(b)
    <2>8. c \in Seq(0 .. 255) /\ Len(c) = f - 1
      BY <2>7 DEF BytesOf
    <2>9. ASSUME NEW i \in 1 .. f - 1 PROVE c[i] = b[i]
      <3>1. 1 + i - 1 = i
        BY <2>2
      <3>2. c[i] = b[1 + i - 1]
        BY <2>7 DEF BytesOf
      <3> QED
        BY <3>1, <3>2
    <2> HIDE DEF c
    <2>10. f - 1 + 1 = f
      BY <2>2
    <2>11. IsCut(c, b)
      BY <1>0, <2>2, <2>8, <2>9, <2>10 DEF IsCut
    <2> QED
      BY <2>11 DEF c
  <1> QED
    BY <1>1, <1>2

LEMMA CutUnique ==
  ASSUME NEW b \in Seq(0 .. 255), NEW c, NEW d, IsCut(c, b), IsCut(d, b)
  PROVE  c = d
  <1>1. /\ c \in Seq(0 .. 255) /\ d \in Seq(0 .. 255)
        /\ Len(c) \in Nat /\ Len(d) \in Nat /\ Len(b) \in Nat
    BY DEF IsCut
  <1>2. ~(Len(c) < Len(d))
    <2>1. SUFFICES ASSUME Len(c) < Len(d) PROVE FALSE
      OBVIOUS
    <2>2. Len(c) + 1 \in 1 .. Len(d) /\ Len(c) < Len(b)
      BY <1>1, <2>1 DEF IsCut
    <2> QED
      BY <2>2 DEF IsCut
  <1>3. ~(Len(d) < Len(c))
    <2>1. SUFFICES ASSUME Len(d) < Len(c) PROVE FALSE
      OBVIOUS
    <2>2. Len(d) + 1 \in 1 .. Len(c) /\ Len(d) < Len(b)
      BY <1>1, <2>1 DEF IsCut
    <2> QED
      BY <2>2 DEF IsCut
  <1>4. Len(c) = Len(d)
    BY <1>1, <1>2, <1>3
  <1>5. \A i \in 1 .. Len(c) : c[i] = d[i]
    BY <1>4 DEF IsCut
  <1> QED
    BY <1>1, <1>4, <1>5, SeqEqual

(* More bytes behind the first ones show no less.                          *)
LEMMA CutLonger ==
  ASSUME NEW b \in Seq(0 .. 255), NEW e \in Seq(0 .. 255), Len(b) <= Len(e),
         \A i \in 1 .. Len(b) : e[i] = b[i]
  PROVE  StartsWith(CutAtNul(e), CutAtNul(b))
  <1> DEFINE c == CutAtNul(b)
  <1> DEFINE d == CutAtNul(e)
  <1>1. IsCut(c, b) /\ IsCut(d, e)
    BY CutIs
  <1> HIDE DEF c, d
  <1>2. Len(c) \in Nat /\ Len(d) \in Nat /\ Len(b) \in Nat /\ Len(e) \in Nat /\ Len(c) <= Len(b)
    BY <1>1 DEF IsCut
  <1>3. ~(Len(d) < Len(c))
    <2>1. SUFFICES ASSUME Len(d) < Len(c) PROVE FALSE
      OBVIOUS
    <2>2. Len(d) + 1 \in 1 .. Len(c) /\ Len(d) + 1 \in 1 .. Len(b) /\ Len(d) < Len(e)
      BY <1>2, <2>1
    <2>3. e[Len(d) + 1] = NUL /\ b[Len(d) + 1] # NUL /\ e[Len(d) + 1] = b[Len(d) + 1]
      BY <1>1, <2>2 DEF IsCut
    <2> QED
      BY <2>3
  <1>4. ASSUME NEW i \in 1 .. Len(c) PROVE d[i] = c[i]
    <2>1. i \in 1 .. Len(d) /\ i \in 1 .. Len(b)
      BY <1>2, <1>3
    <2> QED
      BY <1>1, <2>1 DEF IsCut
  <1>5. StartsWith(d, c)
    BY <1>2, <1>3, <1>4 DEF StartsWith
  <1> QED
    BY <1>5 DEF c, d

(* Nor do the NULs a text is padded with.                                  *)
LEMMA CutPadded ==
  ASSUME NEW b \in Seq(0 .. 255), NEW text \in Seq(0 .. 255), Len(text) <= Len(b),
         \A i \in 1 .. Len(b) : b[i] = ByteAt(text, i)
  PROVE  CutAtNul(b) = CutAtNul(text)
  <1> DEFINE c == CutAtNul(text)
  <1>1. IsCut(c, text) /\ IsCut(CutAtNul(b), b)
    BY CutIs
  <1> HIDE DEF c
  <1>2. Len(c) \in Nat /\ Len(text) \in Nat /\ Len(b) \in Nat /\ Len(c) <= Len(text) /\ c \in Seq(0 .. 255)
    BY <1>1 DEF IsCut
  <1>3. ASSUME NEW i \in 1 .. Len(c) PROVE c[i] = b[i] /\ b[i] # NUL
    <2>1. i \in 1 .. Len(b) /\ i <= Len(text)
      BY <1>2
    <2>2. b[i] = text[i]
      BY <2>1 DEF ByteAt
    <2> QED
      BY <1>1, <2>2 DEF IsCut
  <1>4. ASSUME Len(c) < Len(b) PROVE b[Len(c) + 1] = NUL
    <2>1. Len(c) + 1 \in 1 .. Len(b)
      BY <1>2, <1>4
    <2>2. b[Len(c) + 1] = ByteAt(text, Len(c) + 1)
      BY <2>1
    <2>3. CASE Len(c) < Len(text)
      <3>1. Len(c) + 1 <= Len(text)
        BY <1>2, <2>3
      <3> QED
        BY <1>1, <2>2, <2>3, <3>1 DEF ByteAt, IsCut
    <2>4. CASE ~(Len(c) < Len(text))
      <3>1. ~(Len(c) + 1 <= Len(text))
        BY <1>2, <2>4
      <3> QED
        BY <2>2, <3>1 DEF ByteAt, NUL
    <2> QED
      BY <2>3, <2>4
  <1>5. IsCut(c, b)
    BY <1>2, <1>3, <1>4 DEF IsCut
  <1>6. CutAtNul(b) = c
    BY <1>1, <1>5, CutUnique
  <1> QED
    BY <1>6 DEF c

(* The bytes of the first n groups, whatever they are.                     *)
LEMMA Decode4Typed ==
  ASSUME NEW g, NEW j \in 1 .. 3
  PROVE  Decode4(g)[j] \in 0 .. 255
  <1> DEFINE c == [k \in 1 .. 4 |-> GetCode(g[k])]
  <1>1. ASSUME NEW x PROVE GetCode(x) \in 0 .. 63
    BY DEF GetCode
  <1>2. c[1] \in 0 .. 63 /\ c[2] \in 0 .. 63 /\ c[3] \in 0 .. 63 /\ c[4] \in 0 .. 63
    BY <1>1
  <1>3. Decode4(g) = <<c[1] * 4 + (c[2] \div 16), ((c[2] * 16) % 256) + (c[3] \div 4),
                       ((c[3] * 64) % 256) + c[4]>>
    BY DEF Decode4
  <1> HIDE DEF c
  <1>4. ASSUME NEW w \in 0 .. 63, NEW x \in 0 .. 63 PROVE w * 4 + (x \div 16) \in 0 .. 255
    OBVIOUS
  <1>5. ASSUME NEW w \in 0 .. 63, NEW x \in 0 .. 63 PROVE ((w * 16) % 256) + (x \div 4) \in 0 .. 255
    OBVIOUS
  <1>6. ASSUME NEW w \in 0 .. 63, NEW x \in 0 .. 63 PROVE ((w * 64) % 256) + x \in 0 .. 255
    OBVIOUS
  <1>7. /\ c[1] * 4 + (c[2] \div 16) \in 0 .. 255 /\ ((c[2] * 16) % 256) + (c[3] \div 4) \in 0 .. 255
        /\ ((c[3] * 64) % 256) + c[4] \in 0 .. 255
    BY <1>2, <1>4, <1>5, <1>6, Zenon
  <1>8. /\ Decode4(g)[1] = c[1] * 4 + (c[2] \div 16) /\ Decode4(g)[2] = ((c[2] * 16) % 256) + (c[3] \div 4)
        /\ Decode4(g)[3] = ((c[3] * 64) % 256) + c[4]
    <2> DEFINE x == c[1] * 4 + (c[2] \div 16)
    <2> DEFINE y == ((c[2] * 16) % 256) + (c[3] \div 4)
    <2> DEFINE z == ((c[3] * 64) % 256) + c[4]
    <2>1. Decode4(g) = <<x, y, z>>
      BY <1>3
    <2> HIDE DEF x, y, z
    <2>2. Decode4(g)[1] = x /\ Decode4(g)[2] = y /\ Decode4(g)[3] = z
      BY <2>1
    <2> QED
      BY <2>2 DEF x, y, z
  <1>9. j = 1 \/ j = 2 \/ j = 3
    OBVIOUS
  <1>10. Decode4(g)[1] \in 0 .. 255 /\ Decode4(g)[2] \in 0 .. 255 /\ Decode4(g)[3] \in 0 .. 255
    BY <1>7, <1>8, Zenon
  <1> QED
    BY <1>9, <1>10, Zenon

GroupAt(a, k) == SubSeq(a, k * 4 + 1, k * 4 + 4)
GroupByte(a, i) == Decode4(GroupAt(a, (i - 1) \div 3))[((i - 1) % 3) + 1]
LEMMA GroupsTyped ==
  ASSUME NEW a, NEW n \in Nat
  PROVE  /\ GroupBytes(a, n) \in Seq(0 .. 255) /\ Len(GroupBytes(a, n)) = 3 * n
         /\ \A i \in 1 .. 3 * n : GroupBytes(a, n)[i] = GroupByte(a, i)
  <1>1. GroupBytes(a, n) = [i \in 1 .. 3 * n |-> GroupByte(a, i)]
    BY DEF GroupBytes, GroupByte, GroupAt
  <1>2. ASSUME NEW i \in 1 .. 3 * n PROVE GroupByte(a, i) \in 0 .. 255
    <2>1. ((i - 1) % 3) + 1 \in 1 .. 3
      OBVIOUS
    <2> QED
      BY <2>1, Decode4Typed DEF GroupByte
  <1>3. 3 * n \in Nat
    OBVIOUS
  <1> QED
    BY <1>1, <1>2, <1>3

LEMMA GroupsLocal ==
  ASSUME NEW a \in Seq(0 .. 255), NEW b \in Seq(0 .. 255), NEW n \in Nat, 4 * n <= Len(a), 4 * n <= Len(b),
         \A i \in 1 .. 4 * n : a[i] = b[i], NEW i \in 1 .. 3 * n
  PROVE  GroupByte(a, i) = GroupByte(b, i)
  <1> DEFINE k == (i - 1) \div 3
  <1>1. k \in Nat /\ k < n
    OBVIOUS
  <1> HIDE DEF k
  <1>2. k * 4 + 1 \in Nat /\ k * 4 + 4 \in Nat /\ 1 <= k * 4 + 1 /\ k * 4 + 4 <= 4 * n
    BY <1>1
  <1>3. \A s \in Seq(0 .. 255) : 4 * n <= Len(s) => GroupAt(s, k) = [m \in 1 .. 4 |-> s[k * 4 + m]]
    <2> TAKE s \in Seq(0 .. 255)
    <2> HAVE 4 * n <= Len(s)
    <2>1. k * 4 + 4 <= Len(s) /\ Len(s) \in Nat
      BY <1>2
    <2>2. SubSeq(s, k * 4 + 1, k * 4 + 4) = [m \in 1 .. (k * 4 + 4) - (k * 4 + 1) + 1 |-> s[k * 4 + 1 + m - 1]]
      BY <1>2, <2>1
    <2>3. (k * 4 + 4) - (k * 4 + 1) + 1 = 4 /\ \A m \in 1 .. 4 : k * 4 + 1 + m - 1 = k * 4 + m
      BY <1>1
    <2> QED
      BY <2>2, <2>3 DEF GroupAt
  <1>4. ASSUME NEW m \in 1 .. 4 PROVE a[k * 4 + m] = b[k * 4 + m]
    <2>1. k * 4 + m \in 1 .. 4 * n
      BY <1>1
    <2> QED
      BY <2>1
  <1>5. GroupAt(a, k) = GroupAt(b, k)
    BY <1>3, <1>4
  <1> QED
    BY <1>5 DEF GroupByte, k

(* The buffer holds the field, which has no NUL, and a NUL.                *)
HoldsField(who) ==
  LET a == Buffer(who)
      field == AuthField(who)
  IN  /\ field \in Seq(0 .. 255) /\ a \in Seq(0 .. 255) /\ Len(a) >= Len(field) + 1
      /\ \A i \in 1 .. Len(field) : a[i] = field[i] /\ field[i] # NUL
      /\ a[Len(field) + 1] = NUL
LEMMA FieldHeld ==
  ASSUME NEW who, ClaimType(who)
  PROVE  HoldsField(who)
  <1> DEFINE field == AuthField(who)
  <1> DEFINE stale == who.stale
  <1>1. field \in Seq(0 .. 255) /\ \A i \in 1 .. Len(field) : field[i] # NUL
    <2>1. CASE who.form = "base64"
      BY <2>1, EncodedTyped DEF ClaimType, AuthField
    <2>2. CASE who.form # "base64"
      <3>1. field = who.text
        BY <2>2 DEF AuthField
      <3> HIDE DEF field
      <3> QED
        BY <2>2, <3>1 DEF ClaimType
    <2> QED
      BY <2>1, <2>2
  <1>2. stale \in Seq(0 .. 255)
    BY DEF ClaimType
  <1>3. Buffer(who) = field \o <<NUL>> \o stale
    BY DEF Buffer
  <1> DEFINE one == <<NUL>>
  <1>4. one \in Seq(0 .. 255) /\ Len(one) = 1 /\ one[1] = NUL
    BY DEF NUL
  <1> DEFINE a == field \o one
  <1> HIDE DEF field, stale, one
  <1>5. a \in Seq(0 .. 255) /\ Len(a) = Len(field) + 1
    BY <1>1, <1>4, ConcatProperties
  <1>6. ASSUME NEW i \in 1 .. Len(field) + 1 PROVE a[i] = IF i <= Len(field) THEN field[i] ELSE NUL
    <2>1. Len(field) \in Nat /\ Len(one) \in Nat /\ i \in 1 .. Len(field) + Len(one)
      BY <1>1, <1>4
    <2>s. field \in Seq(0 .. 255) /\ one \in Seq(0 .. 255)
      BY <1>1, <1>4
    <2>2. a[i] = IF i <= Len(field) THEN field[i] ELSE one[i - Len(field)]
      BY <2>s, <2>1
    <2>3. i <= Len(field) \/ i - Len(field) = 1
      BY <2>1, <1>4
    <2> QED
      BY <1>4, <2>2, <2>3
  <1> HIDE DEF a
  <1> DEFINE b == a \o stale
  <1>7. b \in Seq(0 .. 255) /\ Len(b) = Len(a) + Len(stale)
    BY <1>2, <1>5, ConcatProperties
  <1>8. ASSUME NEW i \in 1 .. Len(field) + 1 PROVE b[i] = a[i]
    <2>1. Len(a) \in Nat /\ Len(stale) \in Nat /\ i \in 1 .. Len(a) + Len(stale) /\ i <= Len(a)
      BY <1>1, <1>2, <1>5
    <2> QED
      BY <1>2, <1>5, <2>1
  <1>9. Buffer(who) = b
    BY <1>3 DEF a, one
  <1> HIDE DEF b
  <1>10. Len(b) >= Len(field) + 1 /\ Len(field) \in Nat
    BY <1>1, <1>2, <1>5, <1>7
  <1>11. /\ \A i \in 1 .. Len(field) : b[i] = field[i] /\ field[i] # NUL
         /\ b[Len(field) + 1] = NUL
    BY <1>1, <1>6, <1>8, <1>10
  <1> QED
    BY <1>1, <1>7, <1>9, <1>10, <1>11 DEF HoldsField, field

(* The loop passes the whole groups of the field, and stops behind them    *)
(* when the field has nothing else.                                        *)
LEMMA TurnsAre ==
  ASSUME NEW who, ClaimType(who), NEW m, m = Len(AuthField(who)) \div 4
  PROVE  /\ m \in Nat /\ Turns(Buffer(who)) \in Nat /\ m <= Turns(Buffer(who))
         /\ 4 * Turns(Buffer(who)) <= Len(Buffer(who))
         /\ Len(AuthField(who)) % 4 = 0 => Turns(Buffer(who)) = m
         /\ Turns(Buffer(who)) = 0 => Len(AuthField(who)) = 0
  <1> DEFINE a == Buffer(who)
  <1> DEFINE field == AuthField(who)
  <1> DEFINE n == Turns(a)
  <1>1. HoldsField(who)
    BY FieldHeld
  <1>2. /\ field \in Seq(0 .. 255) /\ a \in Seq(0 .. 255) /\ Len(a) >= Len(field) + 1
        /\ \A i \in 1 .. Len(field) : a[i] = field[i] /\ field[i] # NUL
        /\ a[Len(field) + 1] = NUL
    BY <1>1 DEF HoldsField
  <1>3. m = Len(field) \div 4
    OBVIOUS
  <1>4. Stops(a) # {}
    BY DEF ClaimType
  <1>5. n = CHOOSE x \in Stops(a) : \A y \in Stops(a) : x <= y
    BY DEF Turns
  <1> HIDE DEF a, field, n
  <1> DEFINE l == Len(field)
  <1>6. l \in Nat /\ Len(a) \in Nat /\ m \in Nat /\ 4 * m <= l /\ l < 4 * m + 4
    BY <1>2, <1>3
  <1>7. ASSUME NEW x
        PROVE  x \in Stops(a) <=> x \in 0 .. (Len(a) - 1) \div 4 /\ a[4 * x + 1] = NUL
    BY DEF Stops
  <1>8. n \in Stops(a) /\ \A y \in Stops(a) : n <= y
    <2>1. Stops(a) \subseteq Nat
      BY <1>6, <1>7
    <2>2. \E x \in Stops(a) : \A y \in Stops(a) : x <= y
      BY <1>4, <2>1, LeastExists
    <2> QED
      BY <1>5, <2>2
  <1>9. n \in Nat /\ 4 * n <= Len(a) /\ 4 * n + 1 \in Nat /\ a[4 * n + 1] = NUL
    BY <1>6, <1>7, <1>8
  <1>10. ~(4 * n + 1 \in 1 .. l)
    BY <1>2, <1>9
  <1>11. m <= n /\ (n = 0 => l = 0)
    BY <1>6, <1>9, <1>10
  <1>12. ASSUME l % 4 = 0 PROVE n = m
    <2>1. l = 4 * m
      BY <1>3, <1>6, <1>12
    <2>2. m \in 0 .. (Len(a) - 1) \div 4 /\ a[4 * m + 1] = NUL
      BY <1>2, <1>6, <2>1
    <2>3. n <= m
      BY <1>7, <1>8, <2>2
    <2> QED
      BY <1>6, <1>9, <1>11, <2>3
  <1> QED
    BY <1>6, <1>9, <1>11, <1>12 DEF a, field, n

(* What decode64 makes of a field: of whole groups what they stand for,    *)
(* and of base64 the text that was encoded.                                *)
WholeOf(who) == CutAtNul(GroupBytes(AuthField(who), Len(AuthField(who)) \div 4))
Meets(who, told) ==
  /\ StartsWith(told, WholeOf(who))
  /\ AuthField(who) # <<>> /\ Len(AuthField(who)) % 4 = 0 => told = WholeOf(who)
  /\ who.form = "base64" /\ AuthField(who) # <<>> => told = CutAtNul(who.text)

LEMMA EncodedBytes ==
  ASSUME NEW text \in Seq(0 .. 255)
  PROVE  CutAtNul(GroupBytes(Encoded(text), Len(Encoded(text)) \div 4)) = CutAtNul(text)
  <1> DEFINE L == Len(text)
  <1> DEFINE n == (L + 2) \div 3
  <1> DEFINE e == Encoded(text)
  <1> DEFINE b == GroupBytes(e, n)
  <1>1. L \in Nat /\ n \in Nat /\ L <= 3 * n
    OBVIOUS
  <1>2. Len(e) = 4 * n
    BY EncodedTyped
  <1>3. ASSUME NEW i \in 1 .. 3 * n PROVE GroupByte(e, i) = ByteAt(text, i)
    <2> DEFINE k == ((i - 1) \div 3) + 1
    <2> DEFINE j == ((i - 1) % 3) + 1
    <2>1. k \in 1 .. n /\ j \in 1 .. 3 /\ 3 * (k - 1) + j = i /\ k - 1 = (i - 1) \div 3
      <3> HIDE DEF n, e, L
      <3>1. i \in Int /\ n \in Nat /\ 1 <= i /\ i <= 3 * n
        BY <1>1
      <3> QED
        BY <3>1
    <2>2. GroupByte(e, i) = Decode4(GroupAt(e, k - 1))[j]
      BY <2>1 DEF GroupByte
    <2> HIDE DEF k, j
    <2>3. Decode4(SubSeq(e, (k - 1) * 4 + 1, (k - 1) * 4 + 4))[j] = ByteAt(text, 3 * (k - 1) + j)
      BY <2>1, DecodedBlock
    <2> QED
      BY <2>1, <2>2, <2>3 DEF GroupAt
  <1>4. Len(e) \div 4 = n
    <2> HIDE DEF n, e, L
    <2> QED
      BY <1>1, <1>2
  <1>5. b \in Seq(0 .. 255) /\ Len(b) = 3 * n /\ \A i \in 1 .. 3 * n : b[i] = GroupByte(e, i)
    BY <1>1, GroupsTyped
  <1> HIDE DEF n, e, b
  <1>6. CutAtNul(b) = CutAtNul(text)
    <2>1. \A i \in 1 .. Len(b) : b[i] = ByteAt(text, i)
      BY <1>3, <1>5
    <2> QED
      BY <1>1, <1>5, <2>1, CutPadded
  <1> QED
    BY <1>4, <1>6 DEF b, e

LEMMA FieldDecoded ==
  ASSUME NEW who, ClaimType(who), NEW text, text = Decode64(who.stale, Buffer(who))
  PROVE  text \in Seq(0 .. 255) /\ Meets(who, text)
  <1> DEFINE a == Buffer(who)
  <1> DEFINE field == AuthField(who)
  <1> DEFINE m == Len(field) \div 4
  <1> DEFINE n == Turns(a)
  <1> DEFINE bytes == GroupBytes(a, n)
  <1> DEFINE start == GroupBytes(field, m)
  <1>1. /\ m \in Nat /\ n \in Nat /\ m <= n /\ 4 * n <= Len(a) /\ (Len(field) % 4 = 0 => n = m)
        /\ (n = 0 => Len(field) = 0)
    BY TurnsAre
  <1>2. /\ field \in Seq(0 .. 255) /\ a \in Seq(0 .. 255)
        /\ \A i \in 1 .. Len(field) : a[i] = field[i] /\ field[i] # NUL
    BY FieldHeld DEF HoldsField
  <1>3. text = IF n = 0 THEN CutAtNul(who.stale) ELSE CutAtNul(bytes)
    BY DEF Decode64
  <1>4. 4 * m <= Len(field) /\ Len(field) \in Nat
    BY <1>2
  <1>w. WholeOf(who) = CutAtNul(start)
    BY DEF WholeOf
  <1> HIDE DEF a, field, m, n
  <1>5. /\ bytes \in Seq(0 .. 255) /\ Len(bytes) = 3 * n /\ \A i \in 1 .. 3 * n : bytes[i] = GroupByte(a, i)
        /\ start \in Seq(0 .. 255) /\ Len(start) = 3 * m /\ \A i \in 1 .. 3 * m : start[i] = GroupByte(field, i)
    BY <1>1, GroupsTyped
  <1> HIDE DEF bytes, start
  <1>6. ASSUME NEW i \in 1 .. 3 * m PROVE bytes[i] = start[i]
    <2>1. 4 * m <= Len(a) /\ i \in 1 .. 3 * n
      BY <1>1, <1>2
    <2>2. \A x \in 1 .. 4 * m : a[x] = field[x]
      BY <1>1, <1>2, <1>4
    <2>3. GroupByte(a, i) = GroupByte(field, i)
      BY <1>1, <1>2, <1>4, <2>1, <2>2, GroupsLocal
    <2> QED
      BY <1>5, <2>1, <2>3
  <1>7. StartsWith(CutAtNul(bytes), CutAtNul(start))
    <2>1. Len(start) <= Len(bytes) /\ \A i \in 1 .. Len(start) : bytes[i] = start[i]
      BY <1>1, <1>5, <1>6
    <2> QED
      BY <1>5, <2>1, CutLonger
  <1>8. IsCut(CutAtNul(bytes), bytes) /\ IsCut(CutAtNul(start), start)
    BY <1>5, CutIs
  <1>9. who.stale \in Seq(0 .. 255)
    BY DEF ClaimType
  <1>10. IsCut(CutAtNul(who.stale), who.stale)
    BY <1>9, CutIs
  <1>11. text \in Seq(0 .. 255)
    BY <1>3, <1>8, <1>10 DEF IsCut
  <1>12. StartsWith(text, CutAtNul(start))
    <2>1. CASE n # 0
      BY <1>3, <1>7, <2>1
    <2>2. CASE n = 0
      <3> DEFINE c == CutAtNul(start)
      <3>1. m = 0
        BY <1>1, <2>2
      <3>2. c \in Seq(0 .. 255) /\ Len(c) <= 0
        BY <1>5, <1>8, <3>1 DEF IsCut
      <3> HIDE DEF c
      <3>3. Len(c) = 0 /\ Len(text) \in Nat
        BY <1>11, <3>2
      <3>4. StartsWith(text, c)
        BY <3>3 DEF StartsWith
      <3> QED
        BY <3>4 DEF c
    <2> QED
      BY <2>1, <2>2
  <1>13. ASSUME field # <<>>, Len(field) % 4 = 0 PROVE text = CutAtNul(start)
    <2>1. n # 0 /\ n = m
      BY <1>1, <1>2, <1>13
    <2>2. bytes = start
      <3>1. Len(bytes) = Len(start) /\ \A i \in 1 .. Len(bytes) : bytes[i] = start[i]
        BY <1>5, <1>6, <2>1
      <3> QED
        BY <1>5, <3>1, SeqEqual
    <2> QED
      BY <1>3, <2>1, <2>2
  <1>14. ASSUME who.form = "base64", field # <<>> PROVE text = CutAtNul(who.text)
    <2>1. field = Encoded(who.text) /\ who.text \in Seq(0 .. 255)
      BY <1>14 DEF AuthField, ClaimType, field
    <2>2. Len(field) % 4 = 0
      <3>1. Len(field) = 4 * ((Len(who.text) + 2) \div 3)
        BY <2>1, EncodedTyped
      <3>0. ASSUME NEW t \in Seq(0 .. 255) PROVE (Len(t) + 2) \div 3 \in Nat
        OBVIOUS
      <3>2. (Len(who.text) + 2) \div 3 \in Nat
        BY <2>1, <3>0, Zenon
      <3> DEFINE q == (Len(who.text) + 2) \div 3
      <3> HIDE DEF q
      <3>3. q \in Nat => (4 * q) % 4 = 0
        OBVIOUS
      <3> QED
        BY <3>1, <3>2, <3>3 DEF q
    <2>3. CutAtNul(start) = CutAtNul(who.text)
      BY <2>1, EncodedBytes DEF start, m
    <2> QED
      BY <1>13, <1>14, <2>2, <2>3
  <1> QED
    BY <1>w, <1>11, <1>12, <1>13, <1>14 DEF Meets, field

(* The split at the first colon loses nothing and leaves no colon in the   *)
(* name.                                                                   *)
NameOf(text) == SubSeq(text, 1, Separator(text) - 1)
WordOf(text) == SubSeq(text, Separator(text) + 1, Len(text))
LEMMA Split ==
  ASSUME NEW text \in Seq(0 .. 255), ~(\A i \in 1 .. Len(text) : text[i] # COLON)
  PROVE  /\ NameOf(text) \in Seq(0 .. 255) /\ WordOf(text) \in Seq(0 .. 255)
         /\ NameOf(text) \o <<COLON>> \o WordOf(text) = text
         /\ \A i \in DOMAIN NameOf(text) : NameOf(text)[i] # COLON
  <1> DEFINE u == NameOf(text)
  <1> DEFINE p == WordOf(text)
  <1>0. u = SubSeq(text, 1, Separator(text) - 1) /\ p = SubSeq(text, Separator(text) + 1, Len(text))
    BY DEF NameOf, WordOf
  <1> HIDE DEF u, p
  <1> DEFINE ColonsOf == {i \in 1 .. Len(text) : text[i] = COLON}
  <1> DEFINE P(i) == text[i] = COLON /\ \A j \in 1 .. i - 1 : text[j] # COLON
  <1>1. PICK s \in ColonsOf : \A m \in ColonsOf : s <= m
    <2>1. ColonsOf \subseteq Nat /\ ColonsOf # {}
      OBVIOUS
    <2> HIDE DEF ColonsOf
    <2> QED
      BY <2>1, LeastExists
  <1>2. s \in 1 .. Len(text) /\ P(s)
    <2>1. s \in 1 .. Len(text) /\ text[s] = COLON
      BY <1>1
    <2>2. ASSUME NEW j \in 1 .. s - 1, text[j] = COLON PROVE FALSE
      BY <1>1, <2>1, <2>2
    <2> QED
      BY <2>1, <2>2
  <1>3. ASSUME NEW i \in 1 .. Len(text), P(i) PROVE i = s
    <2>1. ~(i < s)
      BY <1>2, <1>3
    <2>2. ~(s < i)
      BY <1>2, <1>3
    <2> QED
      BY <1>2, <2>1, <2>2
  <1>4. (CHOOSE i \in 1 .. Len(text) : P(i)) = s
    BY <1>2, <1>3
  <1>5. Separator(text) = s
    BY <1>4, Zenon DEF Separator
  <1> HIDE DEF ColonsOf
  <1>6. text[s] = COLON /\ \A j \in 1 .. s - 1 : text[j] # COLON
    BY <1>2
  <1> HIDE DEF P
  <1> DEFINE n == Len(text)
  <1>7. n \in Nat /\ s \in 1 .. n /\ \A i \in 1 .. n : text[i] \in 0 .. 255
    BY <1>2, ElementOfSeq
  <1>8. /\ u \in Seq(0 .. 255) /\ Len(u) = s - 1 /\ \A i \in 1 .. s - 1 : u[i] = text[i]
    <2>1. s - 1 \in Int /\ \A i \in 1 .. s - 1 : text[i] \in 0 .. 255
      BY <1>7
    <2>2. /\ SubSeq(text, 1, s - 1) \in Seq(0 .. 255)
          /\ Len(SubSeq(text, 1, s - 1)) = IF 1 <= s - 1 THEN s - 1 - 1 + 1 ELSE 0
          /\ \A i \in 1 .. s - 1 - 1 + 1 : SubSeq(text, 1, s - 1)[i] = text[1 + i - 1]
      BY <2>1, SubSeqProperties
    <2>3. u = SubSeq(text, 1, s - 1)
      BY <1>0, <1>5
    <2>4. u \in Seq(0 .. 255) /\ Len(u) = (IF 1 <= s - 1 THEN s - 1 - 1 + 1 ELSE 0)
          /\ \A i \in 1 .. s - 1 - 1 + 1 : u[i] = text[1 + i - 1]
      BY <2>2, <2>3, Zenon
    <2>5. ASSUME NEW i \in 1 .. s - 1 PROVE u[i] = text[i]
      <3>1. i \in 1 .. s - 1 - 1 + 1 /\ 1 + i - 1 = i
        BY <1>7
      <3> QED
        BY <2>4, <3>1
    <2>6. Len(u) = s - 1
      BY <1>7, <2>4
    <2> QED
      BY <2>4, <2>5, <2>6
  <1>9. /\ p \in Seq(0 .. 255) /\ Len(p) = n - s /\ \A i \in 1 .. n - s : p[i] = text[s + i]
    <2>1. s + 1 \in Int /\ n \in Int /\ \A i \in s + 1 .. n : text[i] \in 0 .. 255
      BY <1>7
    <2>2. /\ SubSeq(text, s + 1, n) \in Seq(0 .. 255)
          /\ Len(SubSeq(text, s + 1, n)) = IF s + 1 <= n THEN n - (s + 1) + 1 ELSE 0
          /\ \A i \in 1 .. n - (s + 1) + 1 : SubSeq(text, s + 1, n)[i] = text[s + 1 + i - 1]
      <3> HIDE DEF n
      <3> DEFINE m == s + 1
      <3> HIDE DEF m
      <3>1. m \in Int /\ n \in Int /\ \A i \in m .. n : text[i] \in 0 .. 255
        BY <2>1 DEF m
      <3>2. /\ SubSeq(text, m, n) \in Seq(0 .. 255)
            /\ Len(SubSeq(text, m, n)) = IF m <= n THEN n - m + 1 ELSE 0
            /\ \A i \in 1 .. n - m + 1 : SubSeq(text, m, n)[i] = text[m + i - 1]
        BY <3>1, SubSeqProperties
      <3> QED
        BY <3>2, Zenon DEF m
    <2>3. p = SubSeq(text, s + 1, n)
      BY <1>0, <1>5
    <2>4. p \in Seq(0 .. 255) /\ Len(p) = (IF s + 1 <= n THEN n - (s + 1) + 1 ELSE 0)
          /\ \A i \in 1 .. n - (s + 1) + 1 : p[i] = text[s + 1 + i - 1]
      BY <2>2, <2>3, Zenon
    <2>5. ASSUME NEW i \in 1 .. n - s PROVE p[i] = text[s + i]
      <3>1. i \in 1 .. n - (s + 1) + 1 /\ s + 1 + i - 1 = s + i
        BY <1>7
      <3> QED
        BY <2>4, <3>1
    <2>6. Len(p) = n - s
      BY <1>7, <2>4
    <2> QED
      BY <2>4, <2>5, <2>6
  <1> DEFINE c == <<COLON>>
  <1>10. c \in Seq(0 .. 255) /\ Len(c) = 1 /\ c[1] = COLON
    BY DEF COLON
  <1> DEFINE v == u \o c
  <1> HIDE DEF c, n
  <1>11. v \in Seq(0 .. 255) /\ Len(v) = s
         /\ \A i \in 1 .. s : v[i] = text[i]
    <2>1. u \o c \in Seq(0 .. 255) /\ Len(u \o c) = Len(u) + Len(c)
      BY <1>8, <1>10, ConcatProperties
    <2>2. Len(u) + Len(c) = s
      BY <1>7, <1>8, <1>10
    <2>3. ASSUME NEW i \in 1 .. s PROVE v[i] = text[i]
      <3>1. v[i] = IF i <= Len(u) THEN u[i] ELSE c[i - Len(u)]
        <4>1. Len(u) \in Nat /\ Len(c) \in Nat /\ i \in 1 .. Len(u) + Len(c)
          BY <1>7, <1>8, <1>10, <2>2
        <4>2. u \in Seq(0 .. 255) /\ c \in Seq(0 .. 255)
          BY <1>8, <1>10
        <4> QED
          BY <4>1, <4>2
      <3> HIDE DEF v
      <3>2. CASE i <= s - 1
        BY <1>7, <1>8, <3>1, <3>2
      <3>3. CASE ~(i <= s - 1)
        <4>1. i = s /\ i - (s - 1) = 1
          BY <1>7, <3>3
        <4> QED
          BY <1>6, <1>8, <1>10, <3>1, <3>3, <4>1
      <3> QED
        BY <3>2, <3>3
    <2>4. v \in Seq(0 .. 255) /\ Len(v) = s
      <3>1. v \in Seq(0 .. 255) /\ Len(v) = Len(u) + Len(c)
        BY <2>1, Zenon
      <3> HIDE DEF v
      <3> QED
        BY <2>2, <3>1, Zenon
    <2> HIDE DEF v
    <2> QED
      BY <2>3, <2>4
  <1>12. u \o <<COLON>> \o p = v \o p
    BY DEF c
  <1> HIDE DEF v
  <1> DEFINE t == v \o p
  <1>13. t \in Seq(0 .. 255) /\ Len(t) = n /\ \A i \in 1 .. n : t[i] = text[i]
    <2>1. v \o p \in Seq(0 .. 255) /\ Len(v \o p) = Len(v) + Len(p)
      BY <1>9, <1>11, ConcatProperties
    <2>2. Len(v) + Len(p) = n
      BY <1>7, <1>9, <1>11
    <2>3. ASSUME NEW i \in 1 .. n PROVE t[i] = text[i]
      <3>1. t[i] = IF i <= Len(v) THEN v[i] ELSE p[i - Len(v)]
        BY <2>2, <1>7, <1>9, <1>11
      <3> HIDE DEF t
      <3>2. CASE i <= s
        BY <1>7, <1>11, <3>1, <3>2
      <3>3. CASE ~(i <= s)
        <4>1. i - s \in 1 .. n - s /\ s + (i - s) = i
          BY <1>7, <3>3
        <4> QED
          BY <1>9, <1>11, <3>1, <3>3, <4>1
      <3> QED
        BY <3>2, <3>3
    <2>4. t \in Seq(0 .. 255) /\ Len(t) = n
      <3>1. t \in Seq(0 .. 255) /\ Len(t) = Len(v) + Len(p)
        BY <2>1, Zenon
      <3> HIDE DEF t
      <3> QED
        BY <2>2, <3>1, Zenon
    <2> HIDE DEF t
    <2> QED
      BY <2>3, <2>4
  <1> HIDE DEF t
  <1>14. t = text
    BY <1>13, SeqEqual DEF n
  <1>15. ASSUME NEW i \in DOMAIN u PROVE u[i] # COLON
    <2>1. i \in 1 .. s - 1
      BY <1>8
    <2> QED
      BY <1>6, <1>8, <2>1
  <1>16. u \in Seq(0 .. 255) /\ p \in Seq(0 .. 255)
    BY <1>8, <1>9
  <1> QED
    BY <1>12, <1>14, <1>15, <1>16, Zenon DEF t, u, p

(* Lines.                                                                  *)
CrLfAt(s, i) == s[i] = CR /\ s[i + 1] = LF
LEMMA CrLfPattern ==
  /\ CRLF \in Seq(0 .. 255) /\ Len(CRLF) = 2
  /\ \A s : \A i \in Int : Occurs(s, i, CRLF) <=> CrLfAt(s, i)
  <1>1. CRLF \in Seq(0 .. 255) /\ Len(CRLF) = 2 /\ CRLF[1] = CR /\ CRLF[2] = LF
    BY DEF CRLF, CR, LF
  <1>2. ASSUME NEW s, NEW i \in Int PROVE Occurs(s, i, CRLF) <=> CrLfAt(s, i)
    <2>1. Occurs(s, i, CRLF) <=> \A k \in 1 .. 2 : s[i + k - 1] = CRLF[k]
      BY <1>1 DEF Occurs
    <2>2. i + 1 - 1 = i /\ i + 2 - 1 = i + 1 /\ 1 \in 1 .. 2 /\ 2 \in 1 .. 2
      OBVIOUS
    <2>3. ASSUME \A k \in 1 .. 2 : s[i + k - 1] = CRLF[k] PROVE CrLfAt(s, i)
      <3>1. s[i + 1 - 1] = CRLF[1] /\ s[i + 2 - 1] = CRLF[2]
        BY <2>2, <2>3, Zenon
      <3> QED
        BY <1>1, <2>2, <3>1 DEF CrLfAt
    <2>4. ASSUME CrLfAt(s, i), NEW k \in 1 .. 2 PROVE s[i + k - 1] = CRLF[k]
      <3>1. CASE k = 1
        BY <1>1, <2>2, <2>4, <3>1 DEF CrLfAt
      <3>2. CASE k = 2
        BY <1>1, <2>2, <2>4, <3>2 DEF CrLfAt
      <3> QED
        BY <3>1, <3>2
    <2> QED
      BY <2>1, <2>3, <2>4
  <1> QED
    BY <1>1, <1>2

LEMMA NoBreak ==
  ASSUME NEW x \in Seq(0 .. 255), FirstLine(x) = x, NEW i \in 1 .. Len(x) - 1
  PROVE  ~CrLfAt(x, i)
  <1>1. SUFFICES ASSUME CrLfAt(x, i) PROVE FALSE
    OBVIOUS
  <1> DEFINE hits == {k \in 1 .. Len(x) - 1 : CrLfAt(x, k)}
  <1>2. Len(x) \in Nat
    OBVIOUS
  <1>3. hits \subseteq Nat /\ hits # {}
    BY <1>1, <1>2
  <1>4. PICK f \in hits : \A k \in hits : f <= k
    <2> HIDE DEF hits
    <2> QED
      BY <1>3, LeastExists
  <1>5. f \in 1 .. Len(x) - 1 /\ CrLfAt(x, f) /\ \A k \in 1 .. f - 1 : ~CrLfAt(x, k)
    BY <1>2, <1>4
  <1>6. CRLF \in Seq(0 .. 255) /\ Len(CRLF) = 2 /\ Occurs(x, f, CRLF)
        /\ \A k \in 1 .. f - 1 : ~Occurs(x, k, CRLF)
    BY <1>5, CrLfPattern
  <1>7. f \in 1 .. Len(x) - Len(CRLF) + 1 /\ Len(CRLF) > 0
    BY <1>2, <1>5, <1>6
  <1>8. BytesOf(Before(x, CRLF), f - 1, x, 1)
    BY <1>6, <1>7, BeforeAt
  <1>9. Len(Before(x, CRLF)) = f - 1 /\ Before(x, CRLF) = x
    BY <1>8 DEF BytesOf, FirstLine
  <1> QED
    BY <1>2, <1>5, <1>9

(* A line that begins a text is its first, and what follows are the others.*)
LEMMA LineOff ==
  ASSUME NEW x \in Seq(0 .. 255), FirstLine(x) = x, NEW r \in Seq(0 .. 255)
  PROVE  /\ Line(x) \o r \in Seq(0 .. 255)
         /\ FirstLine(Line(x) \o r) = x /\ OtherLines(Line(x) \o r) = r
  <1> DEFINE n == Len(x)
  <1> DEFINE m == Len(r)
  <1> DEFINE l == x \o CRLF
  <1>0. n \in Nat /\ m \in Nat
    OBVIOUS
  <1>1. CRLF \in Seq(0 .. 255) /\ Len(CRLF) = 2 /\ CRLF[1] = CR /\ CRLF[2] = LF
    BY CrLfPattern DEF CRLF
  <1>2. l \in Seq(0 .. 255) /\ Len(l) = n + 2
    <2>1. CRLF \in Seq(0 .. 255)
      BY <1>1
    <2>2. l \in Seq(0 .. 255) /\ Len(l) = n + Len(CRLF)
      BY <2>1, ConcatProperties
    <2> HIDE DEF l, n
    <2> QED
      BY <1>1, <2>2
  <1>3. ASSUME NEW i \in 1 .. n + 2 PROVE l[i] = IF i <= n THEN x[i] ELSE CRLF[i - n]
    <2>1. i \in 1 .. Len(x) + Len(CRLF)
      BY <1>1
    <2>2. CRLF \in Seq(0 .. 255)
      BY <1>1
    <2> QED
      BY <2>1, <2>2
  <1>4. Line(x) = l
    BY DEF Line
  <1> HIDE DEF l
  <1> DEFINE s == l \o r
  <1>5. s \in Seq(0 .. 255) /\ Len(s) = n + 2 + m
    <2>1. l \in Seq(0 .. 255)
      BY <1>2
    <2>2. s \in Seq(0 .. 255) /\ Len(s) = Len(l) + m
      BY <2>1, ConcatProperties
    <2> HIDE DEF s, n, m
    <2> QED
      BY <1>2, <2>2
  <1>6. ASSUME NEW i \in 1 .. n + 2 + m PROVE s[i] = IF i <= n + 2 THEN l[i] ELSE r[i - (n + 2)]
    <2>1. i \in 1 .. Len(l) + Len(r)
      BY <1>2
    <2>2. l \in Seq(0 .. 255) /\ Len(l) = n + 2
      BY <1>2
    <2> QED
      BY <2>1, <2>2
  <1> HIDE DEF s
  <1>7. /\ \A i \in 1 .. n : s[i] = x[i]
        /\ s[n + 1] = CR /\ s[n + 2] = LF
        /\ \A i \in 1 .. m : s[n + 2 + i] = r[i]
    <2>1. ASSUME NEW i \in 1 .. n PROVE s[i] = x[i]
      <3>1. i \in 1 .. n + 2 + m /\ i \in 1 .. n + 2 /\ i <= n + 2 /\ i <= n
        BY <1>0
      <3>2. s[i] = l[i] /\ l[i] = x[i]
        BY <1>3, <1>6, <3>1
      <3> QED
        BY <3>2
    <2>2. ASSUME NEW i \in 1 .. 2 PROVE s[n + i] = CRLF[i]
      <3>1. n + i \in 1 .. n + 2 + m /\ n + i \in 1 .. n + 2 /\ n + i <= n + 2 /\ ~(n + i <= n) /\ n + i - n = i
        BY <1>0
      <3>2. s[n + i] = l[n + i] /\ l[n + i] = CRLF[n + i - n]
        BY <1>3, <1>6, <3>1
      <3> QED
        BY <3>1, <3>2
    <2>3. ASSUME NEW i \in 1 .. m PROVE s[n + 2 + i] = r[i]
      <3>1. n + 2 + i \in 1 .. n + 2 + m /\ ~(n + 2 + i <= n + 2) /\ n + 2 + i - (n + 2) = i
        BY <1>0
      <3>2. s[n + 2 + i] = r[n + 2 + i - (n + 2)]
        BY <1>6, <3>1
      <3> QED
        BY <3>1, <3>2
    <2>4. s[n + 1] = CRLF[1] /\ s[n + 2] = CRLF[2]
      BY <2>2
    <2> QED
      BY <1>1, <2>1, <2>3, <2>4
  <1>8. CrLfAt(s, n + 1)
    <2>1. n + 1 + 1 = n + 2
      BY <1>0
    <2> QED
      BY <1>7, <2>1 DEF CrLfAt
  <1>9. ASSUME NEW i \in 1 .. n PROVE ~CrLfAt(s, i)
    <2>1. CASE i = n
      <3>1. s[i + 1] = CR
        BY <1>7, <2>1
      <3> QED
        BY <3>1 DEF CrLfAt, CR, LF
    <2>2. CASE i # n
      <3>1. i \in 1 .. Len(x) - 1 /\ i + 1 \in 1 .. n
        BY <1>0, <2>2
      <3>2. ~CrLfAt(x, i)
        BY <3>1, NoBreak
      <3>3. s[i] = x[i] /\ s[i + 1] = x[i + 1]
        BY <1>7, <3>1
      <3> QED
        BY <3>2, <3>3 DEF CrLfAt
    <2> QED
      BY <2>1, <2>2
  <1>10. BytesOf(Before(s, CRLF), n, s, 1)
    <2>1. /\ n + 1 \in 1 .. Len(s) - Len(CRLF) + 1 /\ Occurs(s, n + 1, CRLF) /\ Len(CRLF) > 0
          /\ \A i \in 1 .. (n + 1) - 1 : ~Occurs(s, i, CRLF)
      <3>1. n + 1 \in 1 .. Len(s) - Len(CRLF) + 1 /\ Len(CRLF) > 0 /\ (n + 1) - 1 = n /\ n + 1 \in Int
        BY <1>0, <1>1, <1>5
      <3>2. \A i \in Int : Occurs(s, i, CRLF) <=> CrLfAt(s, i)
        BY CrLfPattern
      <3> QED
        BY <1>8, <1>9, <3>1, <3>2
    <2>2. BytesOf(Before(s, CRLF), (n + 1) - 1, s, 1)
      BY <1>1, <1>5, <2>1, BeforeAt
    <2>3. (n + 1) - 1 = n
      BY <1>0
    <2> QED
      BY <2>2, <2>3
  <1>11. FirstLine(s) = x
    <2> DEFINE b == Before(s, CRLF)
    <2>1. b \in Seq(0 .. 255) /\ Len(b) = n /\ \A i \in 1 .. n : b[i] = s[1 + i - 1]
      BY <1>10 DEF BytesOf
    <2> HIDE DEF b
    <2>2. \A i \in 1 .. n : b[i] = x[i]
      <3> TAKE i \in 1 .. n
      <3>1. 1 + i - 1 = i
        BY <1>0
      <3> QED
        BY <1>7, <2>1, <3>1
    <2>3. b = x
      BY <2>1, <2>2, SeqEqual
    <2> QED
      BY <2>3 DEF b, FirstLine
  <1>12. OtherLines(s) = r
    <2> DEFINE b == SubSeq(s, n + 3, Len(s))
    <2>1. OtherLines(s) = b
      BY <1>11 DEF OtherLines
    <2>2. b = [i \in 1 .. m |-> s[n + 2 + i]]
      <3>1. /\ n + 3 \in 1 .. Len(s) + 1 /\ Len(s) \in Nat /\ Len(s) - (n + 3) + 1 = m
            /\ \A i \in 1 .. m : n + 3 + i - 1 = n + 2 + i
        BY <1>0, <1>5
      <3>2. b = [i \in 1 .. Len(s) - (n + 3) + 1 |-> s[n + 3 + i - 1]]
        BY <1>5, <3>1
      <3> QED
        BY <3>1, <3>2
    <2> HIDE DEF b
    <2>3. Len(b) = m /\ \A i \in 1 .. m : b[i] = r[i]
      BY <1>0, <1>7, <2>2
    <2>4. \A i \in 1 .. m : r[i] \in 0 .. 255
      BY ElementOfSeq
    <2>5. b \in Seq(0 .. 255)
      <3>1. \A i \in 1 .. m : s[n + 2 + i] \in 0 .. 255
        BY <1>7, <2>4
      <3> HIDE DEF n, m
      <3> QED
        BY <1>0, <2>2, <3>1
    <2>6. b = r
      BY <2>3, <2>5, SeqEqual
    <2> QED
      BY <2>1, <2>6
  <1> QED
    BY <1>4, <1>5, <1>11, <1>12 DEF s

LEMMA LineAlone ==
  ASSUME NEW x \in Seq(0 .. 255), FirstLine(x) = x
  PROVE  Line(x) \in Seq(0 .. 255) /\ FirstLine(Line(x)) = x
  <1>1. CRLF \in Seq(0 .. 255)
    BY CrLfPattern
  <1>2. Line(x) \in Seq(0 .. 255)
    BY <1>1, ConcatProperties DEF Line
  <1> DEFINE l == Line(x)
  <1>3. <<>> \in Seq(0 .. 255)
    OBVIOUS
  <1>4. FirstLine(Line(x) \o <<>>) = x
    BY <1>3, LineOff
  <1>5. \A s \in Seq(0 .. 255) : s \o <<>> = s
    OBVIOUS
  <1>6. Line(x) \o <<>> = Line(x)
    BY <1>2, <1>5, Zenon
  <1> QED
    BY <1>2, <1>4, <1>6

LEMMA AddressLine == ADDRESS \in Seq(0 .. 255) /\ FirstLine(ADDRESS) = ADDRESS
  <1>1. /\ ADDRESS \in Seq(0 .. 255) /\ Len(ADDRESS) \in Nat
        /\ \A i \in 1 .. Len(ADDRESS) : ADDRESS[i] # CR
    <2>1. ADDRESS \in Seq((0 .. 255) \ {CR})
      BY AddressPlain
    <2>2. \A i \in 1 .. Len(ADDRESS) : ADDRESS[i] \in (0 .. 255) \ {CR}
      BY <2>1, ElementOfSeq
    <2>3. ADDRESS \in [1 .. Len(ADDRESS) -> (0 .. 255) \ {CR}] /\ Len(ADDRESS) \in Nat
      BY <2>1
    <2>4. ADDRESS \in [1 .. Len(ADDRESS) -> 0 .. 255]
      BY <2>2, <2>3
    <2>5. \E k \in Nat : ADDRESS \in [1 .. k -> 0 .. 255]
      BY <2>3, <2>4
    <2>6. ADDRESS \in UNION {[1 .. k -> 0 .. 255] : k \in Nat}
      BY <2>5
    <2>7. ADDRESS \in Seq(0 .. 255)
      BY <2>6, SeqDef
    <2> QED
      BY <2>2, <2>3, <2>7
  <1>2. ASSUME NEW i \in 1 .. Len(ADDRESS) - Len(CRLF) + 1 PROVE ~Occurs(ADDRESS, i, CRLF)
    <2>1. i \in 1 .. Len(ADDRESS) /\ i \in Int
      BY <1>1, CrLfPattern
    <2>2. ADDRESS[i] # CR
      BY <1>1, <2>1
    <2>3. Occurs(ADDRESS, i, CRLF) <=> CrLfAt(ADDRESS, i)
      BY <2>1, CrLfPattern, Zenon
    <2> QED
      BY <2>2, <2>3 DEF CrLfAt
  <1>3. CRLF \in Seq(0 .. 255)
    BY CrLfPattern
  <1>4. Before(ADDRESS, CRLF) = ADDRESS
    BY <1>1, <1>2, <1>3, BeforeNone
  <1> QED
    BY <1>1, <1>4 DEF FirstLine

(* What the provider reads of an unbroken message.                         *)
FourthOn(m) == OtherLines(OtherLines(OtherLines(m)))
LEMMA MessageRead ==
  ASSUME subject[1] \in Seq(0 .. 255), subject[2] \in Seq(0 .. 255),
         username \in Seq(0 .. 255), password \in Seq(0 .. 255), Unbroken
  PROVE  FirstLine(FourthOn(Message)) = username /\ FirstLine(OtherLines(FourthOn(Message))) = password
  <1>1. /\ FirstLine(subject[1]) = subject[1] /\ FirstLine(subject[2]) = subject[2]
        /\ FirstLine(username) = username /\ FirstLine(password) = password
    BY Zenon DEF Unbroken
  <1> DEFINE e == Line(password)
  <1> DEFINE d == Line(username) \o e
  <1> DEFINE c == Line(subject[2]) \o d
  <1> DEFINE b == Line(ADDRESS) \o c
  <1> DEFINE a == Line(subject[1]) \o b
  <1>2. Message = a
    BY DEF Message
  <1>3. e \in Seq(0 .. 255) /\ FirstLine(e) = password
    BY <1>1, LineAlone
  <1> HIDE DEF e
  <1>4. d \in Seq(0 .. 255) /\ FirstLine(d) = username /\ OtherLines(d) = e
    BY <1>1, <1>3, LineOff
  <1> HIDE DEF d
  <1>5. c \in Seq(0 .. 255) /\ OtherLines(c) = d
    BY <1>1, <1>4, LineOff
  <1> HIDE DEF c
  <1>6. b \in Seq(0 .. 255) /\ OtherLines(b) = c
    BY <1>5, AddressLine, LineOff
  <1> HIDE DEF b
  <1>7. OtherLines(a) = b
    BY <1>1, <1>6, LineOff
  <1> HIDE DEF a
  <1> QED
    BY <1>2, <1>3, <1>4, <1>5, <1>6, <1>7 DEF FourthOn

(* The invariant of the dialogue.  Creds: the name and the password are    *)
(* the ones of this request from the split on.  Before the message is      *)
(* written the provider knows nothing; a message that waits finds the      *)
(* server reading; an end of file comes from a provider that has read the  *)
(* message; and the lines it read are the ones that were meant, when none  *)
(* of them is broken.                                                      *)
Creds ==
  /\ username \in Seq(0 .. 255) /\ password \in Seq(0 .. 255)
  /\ IF claim = Anonymous THEN username = <<>> /\ password = <<>>
     ELSE /\ Meets(claim, username \o <<COLON>> \o password)
          /\ \A i \in DOMAIN username : username[i] # COLON
Ended == heard # <<>> /\ (verdict = "grant" \/ (provider = "gone" /\ verdict = "none"))
CredsKnown ==
  /\ subject[1] \in Seq(0 .. 255) /\ subject[2] \in Seq(0 .. 255)
  /\ auth \in {"connect", "write", "read", "close"} => Creds
  /\ heard # <<>> => Creds /\ (Unbroken => heard = <<username, password>>)
Untold ==
  /\ auth = "idle" => provider = "idle"
  /\ auth \in {"idle", "connect", "write"} =>
       heard = <<>> /\ provider \in {"idle", "gone"} /\ verdict = "none" /\ line = "silent"
  /\ auth \in {"idle", "connect"} => asock = "none"
Told ==
  /\ provider = "asked" => auth = "read" /\ line = "silent" /\ verdict = "none"
  /\ provider = "heard" => heard # <<>> /\ (line = "silent" <=> verdict = "none")
  /\ line = "eof" => Ended
  /\ auth \in {"close", "done"} /\ configured /\ result = "granted" => Ended
AuthInv == AuthTypeOK /\ CredsKnown /\ Untold /\ Told /\ AuthSocketClosed

LEMMA AuthInitInv == AuthInit => AuthInv
  <1>1. <<>> \in Seq(0 .. 255)
    OBVIOUS
  <1>2. AuthInit => subject[1] = <<>> /\ subject[2] = <<>>
    BY DEF AuthInit
  <1>3. AuthInit => CredsKnown
    BY <1>1, <1>2 DEF AuthInit, CredsKnown
  <1> QED
    BY <1>3 DEF AuthInit, AuthInv, AuthTypeOK, Untold, Told, AuthSocketClosed

(* What the field holds is split into what it stands for.                  *)
LEMMA ClaimSplit ==
  ASSUME NEW who, ClaimType(who), NEW text, text = Decode64(who.stale, Buffer(who)),
         ~(\A i \in 1 .. Len(text) : text[i] # COLON)
  PROVE  /\ NameOf(text) \in Seq(0 .. 255) /\ WordOf(text) \in Seq(0 .. 255)
         /\ Meets(who, NameOf(text) \o <<COLON>> \o WordOf(text))
         /\ \A i \in DOMAIN NameOf(text) : NameOf(text)[i] # COLON
  <1>1. text \in Seq(0 .. 255) /\ Meets(who, text)
    BY FieldDecoded
  <1>2. /\ NameOf(text) \in Seq(0 .. 255) /\ WordOf(text) \in Seq(0 .. 255)
        /\ NameOf(text) \o <<COLON>> \o WordOf(text) = text
        /\ \A i \in DOMAIN NameOf(text) : NameOf(text)[i] # COLON
    BY <1>1, Split, Zenon
  <1> QED
    BY <1>1, <1>2, Zenon

LEMMA AuthCheckInv ==
  ASSUME AuthInv, NEW on \in BOOLEAN, NEW who \in {Anonymous} \cup Claims,
         NEW page_ \in Seq(0 .. 255), NEW method_ \in Seq(0 .. 255), AuthCheck(on, who, page_, method_)
  PROVE  AuthInv'
  <1> DEFINE header == AuthField(who)
  <1> DEFINE text == Decode64(who.stale, Buffer(who))
  <1>1. /\ auth = "idle" /\ configured' = on /\ claim' = who /\ subject' = <<page_, method_>>
        /\ UNCHANGED <<asock, stranded, line, provider, heard, verdict>>
    BY DEF AuthCheck
  <1>2. /\ heard' = <<>> /\ provider' = "idle" /\ verdict' = "none" /\ line' = "silent" /\ asock' = "none"
        /\ stranded' \subseteq {"connect", "malloc", "end"}
        /\ asock' \in {"none", "open", "closed"} /\ line' \in {"silent", "output", "eof", "reset"}
        /\ provider' \in {"idle", "asked", "heard", "gone"} /\ verdict' \in {"none", "grant", "deny"}
        /\ result \in {"none", "granted", "denied", "NOMEM"}
    BY <1>1 DEF AuthInv, AuthTypeOK, Untold
  <1>s. subject'[1] \in Seq(0 .. 255) /\ subject'[2] \in Seq(0 .. 255)
    <2>1. subject'[1] = page_ /\ subject'[2] = method_
      BY <1>1
    <2> QED
      BY <2>1
  <1>3. \/ auth' = "done" /\ result' = "granted" /\ configured' = FALSE
        \/ auth' = "done" /\ result' \in {"denied", "NOMEM"}
        \/ auth' = "connect" /\ Creds' /\ result' = result
    <2>1. CASE ~on
      BY <1>1, <2>1 DEF AuthCheck, Return
    <2>2. CASE on /\ who = Anonymous
      <3>1. auth' = "connect" /\ username' = <<>> /\ password' = <<>> /\ result' = result
        BY <2>2 DEF AuthCheck
      <3>2. <<>> \in Seq(0 .. 255)
        OBVIOUS
      <3> QED
        BY <1>1, <2>2, <3>1, <3>2 DEF Creds
    <2>o. CASE on /\ who # Anonymous /\ who.form = "open"
      BY <2>o DEF AuthCheck, Return
    <2>3. CASE on /\ who # Anonymous /\ who.form # "open" /\ Len(header) + 1 >= PWDLIMIT * 2
      BY <2>3 DEF AuthCheck, Return
    <2>4. CASE /\ on /\ who # Anonymous /\ who.form # "open" /\ ~(Len(header) + 1 >= PWDLIMIT * 2)
               /\ \A i \in 1 .. Len(text) : text[i] # COLON
      BY <2>4 DEF AuthCheck, Return
    <2>5. CASE /\ on /\ who # Anonymous /\ who.form # "open" /\ ~(Len(header) + 1 >= PWDLIMIT * 2)
               /\ ~(\A i \in 1 .. Len(text) : text[i] # COLON)
      <3>1. /\ auth' = "connect" /\ result' = result
            /\ username' = NameOf(text) /\ password' = WordOf(text)
        BY <2>5 DEF AuthCheck, NameOf, WordOf
      <3>2. ClaimType(who)
        BY <2>5 DEF Claims
      <3>4. text = Decode64(who.stale, Buffer(who))
        OBVIOUS
      <3> HIDE DEF text
      <3>3. /\ username' \in Seq(0 .. 255) /\ password' \in Seq(0 .. 255)
            /\ Meets(who, username' \o <<COLON>> \o password')
            /\ \A i \in DOMAIN username' : username'[i] # COLON
        <4>2. /\ NameOf(text) \in Seq(0 .. 255) /\ WordOf(text) \in Seq(0 .. 255)
              /\ Meets(who, NameOf(text) \o <<COLON>> \o WordOf(text))
              /\ \A i \in DOMAIN NameOf(text) : NameOf(text)[i] # COLON
          BY <2>5, <3>2, <3>4, ClaimSplit, Zenon
        <4> QED
          BY <3>1, <4>2, Zenon
      <3> QED
        BY <1>1, <2>5, <3>1, <3>3 DEF Creds
    <2> QED
      BY <2>1, <2>2, <2>o, <2>3, <2>4, <2>5
  <1>4. CredsKnown'
    BY <1>2, <1>3, <1>s DEF CredsKnown
  <1> QED
    BY <1>2, <1>3, <1>4 DEF AuthInv, AuthTypeOK, Untold, Told, AuthSocketClosed

(* What was said of the credentials stays so while they do.                *)
LEMMA SameCreds ==
  ASSUME UNCHANGED <<subject, claim, username, password>>
  PROVE  /\ Creds' <=> Creds
         /\ Unbroken' <=> Unbroken
         /\ subject' = subject /\ username' = username /\ password' = password
  BY DEF Creds, Unbroken

Asking == {"connect", "write", "read", "close"}
LEMMA CredsStay ==
  ASSUME CredsKnown, UNCHANGED <<subject, claim, username, password, heard>>,
         auth' \in Asking => auth \in Asking
  PROVE  CredsKnown'
  <1>1. /\ Creds' <=> Creds
        /\ Unbroken' <=> Unbroken
        /\ subject' = subject /\ username' = username /\ password' = password /\ heard' = heard
    BY SameCreds
  <1>2. subject'[1] \in Seq(0 .. 255) /\ subject'[2] \in Seq(0 .. 255)
    BY <1>1, Zenon DEF CredsKnown
  <1>3. auth' \in Asking => Creds'
    BY <1>1 DEF CredsKnown, Asking
  <1>4. heard' # <<>> => Creds' /\ (Unbroken' => heard' = <<username', password'>>)
    BY <1>1, Zenon DEF CredsKnown
  <1> QED
    BY <1>2, <1>3, <1>4, Zenon DEF CredsKnown, Asking

LEMMA AuthStepInv == AuthInv /\ AuthStep => AuthInv'
  <1> SUFFICES ASSUME AuthInv, AuthStep PROVE AuthInv'
    OBVIOUS
  <1> USE DEF AuthInv, AuthTypeOK, Untold, Told, AuthSocketClosed, Ended
  <1>1. CASE AuthConnect
    <2>1. /\ UNCHANGED <<configured, subject, claim, username, password, provider, heard, verdict>>
          /\ asock' = "open" /\ line' = "silent" /\ auth = "connect"
      BY <1>1 DEF AuthConnect
    <2>2. CredsKnown'
      BY <1>1, <2>1, CredsStay DEF AuthConnect, Asking, Return
    <2>3. \/ auth' = "write" /\ stranded' = stranded /\ result' = result
          \/ auth' = "done" /\ result' = "denied" /\ stranded' \cap {"connect", "malloc"} # {}
             /\ stranded' \subseteq {"connect", "malloc", "end"}
      BY <1>1 DEF AuthConnect, Return
    <2> QED
      BY <2>1, <2>2, <2>3
  <1>2. CASE AuthWrite
    <2>1. CredsKnown'
      BY <1>2, CredsStay DEF AuthWrite, Asking
    <2> QED
      BY <1>2, <2>1 DEF AuthWrite
  <1>3. CASE AuthRead
    <2>1. CredsKnown'
      BY <1>3, CredsStay DEF AuthRead, Asking
    <2> QED
      BY <1>3, <2>1 DEF AuthRead, ReadGrants
  <1>4. CASE AuthClose
    <2>1. CredsKnown'
      BY <1>4, CredsStay DEF AuthClose, Asking
    <2> QED
      BY <1>4, <2>1 DEF AuthClose
  <1>5. CASE ProviderReads
    <2>1. /\ (Creds' <=> Creds) /\ (Unbroken' <=> Unbroken)
          /\ subject' = subject /\ username' = username /\ password' = password
      BY <1>5, SameCreds DEF ProviderReads
    <2>2. heard' = <<FirstLine(FourthOn(Message)), FirstLine(OtherLines(FourthOn(Message)))>>
      BY <1>5 DEF ProviderReads, FourthOn
    <2>3. auth = "read"
      BY <1>5 DEF ProviderReads
    <2>4. Unbroken => heard' = <<username, password>>
      <3>1. /\ username \in Seq(0 .. 255) /\ password \in Seq(0 .. 255)
            /\ subject[1] \in Seq(0 .. 255) /\ subject[2] \in Seq(0 .. 255)
        BY <2>3 DEF CredsKnown, Creds
      <3>2. ASSUME Unbroken
            PROVE  heard' = <<username, password>>
        <4>1. /\ FirstLine(FourthOn(Message)) = username
              /\ FirstLine(OtherLines(FourthOn(Message))) = password
          BY <3>1, <3>2, MessageRead
        <4> QED
          BY <2>2, <4>1
      <3> QED
        BY <3>2
    <2>5. heard' # <<>>
      BY <2>2
    <2>6. UNCHANGED <<auth, configured, asock, stranded, line, verdict, result>> /\ provider = "asked" /\ provider' = "heard"
      BY <1>5 DEF ProviderReads
    <2>7. CredsKnown'
      <3>1. Creds /\ subject[1] \in Seq(0 .. 255) /\ subject[2] \in Seq(0 .. 255)
        BY <2>3 DEF CredsKnown
      <3> QED
        BY <2>1, <2>4, <3>1, Zenon DEF CredsKnown
    <2> QED
      BY <2>3, <2>5, <2>6, <2>7
  <1>6. CASE ProviderDecides
    <2>1. CredsKnown'
      BY <1>6, CredsStay DEF ProviderDecides, Asking
    <2> QED
      BY <1>6, <2>1 DEF ProviderDecides
  <1>7. CASE ProviderDies
    <2>1. CredsKnown'
      BY <1>7, CredsStay DEF ProviderDies, Asking
    <2>2. /\ auth \in {"write", "read"} /\ provider' = "gone" /\ provider # "gone"
          /\ UNCHANGED <<auth, configured, subject, claim, username, password, asock, stranded, heard, verdict, result>>
      BY <1>7 DEF ProviderDies
    <2>3. line' = IF line # "silent" THEN line
                  ELSE CASE provider = "asked" -> "reset"
                         [] provider = "heard" -> "eof"
                         [] OTHER              -> "silent"
      BY <1>7 DEF ProviderDies
    <2>4. CASE line # "silent"
      <3>1. line' = line
        BY <2>3, <2>4
      <3> QED
        BY <2>1, <2>2, <2>4, <3>1
    <2>5. CASE line = "silent" /\ provider = "asked"
      <3>1. line' = "reset"
        BY <2>3, <2>5
      <3> QED
        BY <2>1, <2>2, <2>5, <3>1
    <2>6. CASE line = "silent" /\ provider = "heard"
      <3>1. line' = "eof"
        BY <2>3, <2>6
      <3> QED
        BY <2>1, <2>2, <2>6, <3>1
    <2>7. CASE line = "silent" /\ provider \notin {"asked", "heard"}
      <3>1. line' = "silent"
        BY <2>3, <2>7
      <3> QED
        BY <2>1, <2>2, <2>7, <3>1
    <2> QED
      BY <2>4, <2>5, <2>6, <2>7
  <1> QED
    BY <1>1, <1>2, <1>3, <1>4, <1>5, <1>6, <1>7 DEF AuthStep

LEMMA AuthNextInv == AuthInv /\ [AuthNext]_authVars => AuthInv'
  <1> SUFFICES ASSUME AuthInv, [AuthNext]_authVars PROVE AuthInv'
    OBVIOUS
  <1>1. CASE \E on \in BOOLEAN, who \in {Anonymous} \cup Claims, page_, method_ \in Seq(0 .. 255) :
               AuthCheck(on, who, page_, method_)
    BY <1>1, AuthCheckInv
  <1>2. CASE AuthStep
    BY <1>2, AuthStepInv
  <1>3. CASE AuthReset
    <2>1. subject' = subject /\ heard' = <<>> /\ auth' = "idle"
      BY <1>3 DEF AuthReset
    <2>2. CredsKnown'
      BY <2>1 DEF CredsKnown, AuthInv
    <2> QED
      BY <1>3, <2>2 DEF AuthReset, AuthInv, AuthTypeOK, Untold, Told, AuthSocketClosed, Ended
  <1>4. CASE UNCHANGED authVars
    <2>1. CredsKnown'
      BY <1>4, CredsStay DEF authVars, Asking, AuthInv
    <2> QED
      BY <1>4, <2>1 DEF authVars, AuthInv, AuthTypeOK, Untold, Told, AuthSocketClosed, Ended
  <1> QED
    BY <1>1, <1>2, <1>3, <1>4 DEF AuthNext

(* Who is let in is who the provider let in, asked with the credentials    *)
(* the client encoded, and asking it leaves no descriptor behind           *)
(* (auth_check_request, decode64, auth.c and base64.c): for every sequence *)
(* of requests with any page and any field, well-formed or not, whatever   *)
(* the stack holds, for every limit and every set of faults.               *)
THEOREM AuthCorrect == AuthSpec => []AuthRight
  <1>1. AuthInv => AuthRight
    <2> SUFFICES ASSUME AuthInv PROVE AuthRight
      OBVIOUS
    <2>1. GrantMeansGranted
      BY DEF AuthInv, Told, Ended, GrantMeansGranted
    <2>2. CredentialsDelivered
      <3> SUFFICES ASSUME heard # <<>>, Unbroken
                   PROVE  IF claim = Anonymous THEN heard = <<(<<>>), (<<>>)>>
                          ELSE /\ \A i \in DOMAIN heard[1] : heard[1][i] # COLON
                               /\ Meets(claim, heard[1] \o <<COLON>> \o heard[2])
        BY DEF CredentialsDelivered, Meets, WholeOf
      <3>1. heard = <<username, password>> /\ Creds
        BY DEF AuthInv, CredsKnown
      <3>2. heard[1] = username /\ heard[2] = password
        BY <3>1
      <3>3. CASE claim = Anonymous
        BY <3>1, <3>3, Zenon DEF Creds
      <3>4. CASE claim # Anonymous
        BY <3>1, <3>2, <3>4, Zenon DEF Creds
      <3> QED
        BY <3>3, <3>4
    <2>3. AuthSocketClosed
      BY DEF AuthInv
    <2> QED
      BY <2>1, <2>2, <2>3 DEF AuthRight
  <1> QED
    BY <1>1, AuthInitInv, AuthNextInv, PTL DEF AuthSpec
-----------------------------------------------------------------------------
(* Names and their escaped forms.                                          *)

(* The text h is complete, has nothing a URL would be cut at, and means p. *)
Spells(h, p) == /\ h \in Seq(0 .. 255) /\ CompleteEscapes(h) /\ Decoded(h) = p
                /\ \A i \in 1 .. Len(h) : h[i] \notin {NUL, QMARK, SP}

(* What comes behind is decoded as if it stood alone.                      *)
LEMMA TailShifts ==
  ASSUME NEW s \in Seq(0 .. 255), NEW t \in Seq(0 .. 255), CompleteEscapes(s), CompleteEscapes(t)
  PROVE  CompleteEscapes(s \o t)
  <1> DEFINE u == s \o t
  <1> DEFINE m == Len(s)
  <1> DEFINE n == Len(t)
  <1>1. /\ m \in Nat /\ n \in Nat /\ u \in Seq(0 .. 255) /\ Len(u) = m + n
        /\ \A i \in 1 .. m : u[i] = s[i]
        /\ \A i \in m + 1 .. m + n : u[i] = t[i - m]
    OBVIOUS
  <1> HIDE DEF u
  <1>2. ASSUME NEW i \in 1 .. m + n, u[i] = PERCENT
        PROVE  i + 2 <= m + n /\ IsHex(u[i + 1]) /\ IsHex(u[i + 2])
    <2>1. CASE i <= m
      <3>1. i \in 1 .. m /\ s[i] = PERCENT
        BY <1>1, <1>2, <2>1
      <3>2. i + 2 <= m /\ IsHex(s[i + 1]) /\ IsHex(s[i + 2])
        BY <3>1 DEF CompleteEscapes
      <3>3. i + 1 \in 1 .. m /\ i + 2 \in 1 .. m
        BY <1>1, <3>1, <3>2
      <3> QED
        BY <1>1, <3>2, <3>3
    <2>2. CASE i > m
      <3>1. i - m \in 1 .. n /\ i \in m + 1 .. m + n
        BY <1>1, <2>2
      <3>2. t[i - m] = PERCENT
        BY <1>1, <1>2, <3>1
      <3>3. i - m + 2 <= n /\ IsHex(t[i - m + 1]) /\ IsHex(t[i - m + 2])
        BY <3>1, <3>2 DEF CompleteEscapes
      <3>4. /\ i + 1 \in m + 1 .. m + n /\ i + 2 \in m + 1 .. m + n
            /\ i + 1 - m = i - m + 1 /\ i + 2 - m = i - m + 2
        BY <1>1, <3>1, <3>3
      <3> QED
        BY <1>1, <3>3, <3>4, SMTT(60)
    <2> QED
      BY <1>1, <2>1, <2>2
  <1>3. CompleteEscapes(u)
    BY <1>1, <1>2 DEF CompleteEscapes
  <1> QED
    BY <1>3 DEF u

LEMMA BehindAlone ==
  ASSUME NEW s \in Seq(0 .. 255), NEW t \in Seq(0 .. 255), CompleteEscapes(s), CompleteEscapes(t),
         NEW i \in 1 .. Len(t) + 3
  PROVE  DecodedFrom(s \o t)[Len(s) + i] = DecodedFrom(t)[i]
  <1> DEFINE u == s \o t
  <1> DEFINE m == Len(s)
  <1> DEFINE n == Len(t)
  <1> DEFINE U == DecodedFrom(u)
  <1> DEFINE T == DecodedFrom(t)
  <1> DEFINE N == n + 3
  <1> DEFINE Bad == {d \in 0 .. N : \E k \in 1 .. N : k = N - d /\ U[m + k] # T[k]}
  <1>1. /\ m \in Nat /\ n \in Nat /\ u \in Seq(0 .. 255) /\ Len(u) = m + n
        /\ \A k \in m + 1 .. m + n : u[k] = t[k - m]
    OBVIOUS
  <1>2. CompleteEscapes(u)
    BY TailShifts
  <1>3. ASSUME NEW k \in 1 .. N
        PROVE  TailStep(u, m + k) /\ TailStep(t, k) /\ (k <= n /\ t[k] = PERCENT => WholeEscape(t, k))
    <2>1. m + k \in 1 .. Len(u) + 3 /\ k \in 1 .. Len(t) + 3
      BY <1>1
    <2> HIDE DEF u
    <2> QED
      BY <1>1, <1>2, <2>1, TailSteps
  <1> HIDE DEF u
  <1>4. SUFFICES ASSUME Bad # {} PROVE FALSE
    <2>1. N - i \in 0 .. N /\ i \in 1 .. N /\ i = N - (N - i)
      BY <1>1
    <2> HIDE DEF U, T, N, m
    <2>2. Bad = {} => U[m + i] = T[i]
      BY <2>1
    <2> QED
      BY <2>2 DEF U, T, m, u
  <1>5. PICK d \in Bad : \A x \in Bad : d <= x
    <2>1. Bad \subseteq Nat
      BY <1>1
    <2> HIDE DEF Bad
    <2> QED
      BY <1>4, <2>1, LeastExists
  <1>6. PICK k \in 1 .. N : k = N - d /\ U[m + k] # T[k]
    BY <1>5
  <1>7. d \in 0 .. N
    BY <1>5
  <1>8. ASSUME NEW j \in 1 .. N, j > k PROVE U[m + j] = T[j]
    <2>1. N - j \in 0 .. N /\ ~(d <= N - j) /\ j = N - (N - j)
      BY <1>1, <1>6, <1>7, <1>8, SMTT(60)
    <2>2. N - j \notin Bad
      BY <1>5, <2>1
    <2> HIDE DEF U, T, N, m
    <2> QED
      BY <2>1, <2>2
  <1> HIDE DEF Bad
  <1>9. CASE k > n
    <2>1. m + k > Len(u)
      BY <1>1, <1>9
    <2> QED
      BY <1>3, <1>6, <1>9, <2>1 DEF TailStep
  <1>10. CASE k <= n /\ t[k] # PERCENT
    <2>1. m + k <= Len(u) /\ u[m + k] = t[k] /\ k + 1 \in 1 .. N /\ k + 1 > k /\ m + k + 1 = m + (k + 1)
      <3>1. m \in Nat /\ n \in Nat /\ k \in Int /\ 1 <= k /\ k <= n
        BY <1>1, <1>10, SMTT(60)
      <3>2. m + k \in m + 1 .. m + n /\ m + k - m = k /\ k + 1 > k /\ m + k + 1 = m + (k + 1)
        <4> HIDE DEF m, n, N
        <4> QED
          BY <3>1
      <3>3. m + k <= Len(u) /\ k + 1 \in 1 .. N
        BY <1>1, <1>10, SMTT(60)
      <3>4. u[m + k] = t[k]
        BY <1>1, <3>2, SMTT(60)
      <3> QED
        BY <3>2, <3>3, <3>4
    <2>2. U[m + (k + 1)] = T[k + 1]
      BY <1>8, <2>1
    <2>3. U[m + k] = <<t[k]>> \o U[m + k + 1] /\ T[k] = <<t[k]>> \o T[k + 1]
      BY <1>3, <1>10, <2>1 DEF TailStep
    <2> HIDE DEF U, T, m, N
    <2> QED
      BY <1>6, <2>1, <2>2, <2>3
  <1>11. CASE k <= n /\ t[k] = PERCENT
    <2>1. k + 2 <= n
      BY <1>3, <1>11 DEF WholeEscape
    <2>2. /\ m + k <= Len(u) /\ u[m + k] = t[k] /\ u[m + k + 1] = t[k + 1] /\ u[m + k + 2] = t[k + 2]
          /\ k + 3 \in 1 .. N /\ k + 3 > k /\ m + k + 3 = m + (k + 3)
      <3>1. /\ m + k \in m + 1 .. m + n /\ m + k + 1 \in m + 1 .. m + n /\ m + k + 2 \in m + 1 .. m + n
            /\ m + k - m = k /\ m + k + 1 - m = k + 1 /\ m + k + 2 - m = k + 2
        <4>1. m \in Int /\ k \in Int /\ n \in Int /\ 1 <= k /\ k + 2 <= n
          BY <1>1, <1>11, <2>1
        <4> HIDE DEF m, n, N
        <4> QED
          BY <4>1
      <3>2. m + k <= Len(u) /\ k + 3 \in 1 .. N /\ k + 3 > k /\ m + k + 3 = m + (k + 3)
        BY <1>1, <1>11, <2>1
      <3> HIDE DEF m, n, N
      <3> QED
        BY <1>1, <3>1, <3>2
    <2>3. U[m + (k + 3)] = T[k + 3]
      BY <1>8, <2>2
    <2>4. /\ U[m + k] = <<Strtol16(u[m + k + 1], u[m + k + 2])>> \o U[m + k + 3]
          /\ T[k] = <<Strtol16(t[k + 1], t[k + 2])>> \o T[k + 3]
      BY <1>3, <1>11, <2>2 DEF TailStep
    <2> HIDE DEF U, T, m, N, n
    <2> QED
      BY <1>6, <2>2, <2>3, <2>4
  <1> QED
    BY <1>1, <1>6, <1>9, <1>10, <1>11

(* One byte in front of two texts, named so that a prover need not look    *)
(* into them.                                                              *)
Cat(a, c) == a \o c
One(x) == <<x>>
LEMMA CatOne ==
  ASSUME NEW x \in 0 .. 255, NEW a \in Seq(0 .. 255), NEW c \in Seq(0 .. 255)
  PROVE  Cat(One(x), Cat(a, c)) = Cat(Cat(One(x), a), c)
  <1>1. <<x>> \in Seq(0 .. 255)
    OBVIOUS
  <1>2. <<x>> \o (a \o c) = (<<x>> \o a) \o c
    BY <1>1, ConcatAssociative
  <1> QED
    BY <1>2 DEF Cat, One

(* Two complete texts one behind the other mean what they mean, one behind *)
(* the other.                                                              *)
LEMMA Joins ==
  ASSUME NEW s \in Seq(0 .. 255), NEW t \in Seq(0 .. 255), CompleteEscapes(s), CompleteEscapes(t)
  PROVE  Decoded(s \o t) = Decoded(s) \o Decoded(t)
  <1> DEFINE u == s \o t
  <1> DEFINE m == Len(s)
  <1> DEFINE U == DecodedFrom(u)
  <1> DEFINE S == DecodedFrom(s)
  <1> DEFINE D == Decoded(t)
  <1> DEFINE N == m + 1
  <1> DEFINE Bad == {d \in 0 .. N : \E k \in 1 .. N : k = N - d /\ U[k] # S[k] \o D}
  <1>1. /\ m \in Nat /\ Len(t) \in Nat /\ u \in Seq(0 .. 255) /\ Len(u) = m + Len(t)
        /\ \A k \in 1 .. m : u[k] = s[k]
    OBVIOUS
  <1>2. CompleteEscapes(u)
    BY TailShifts
  <1>3. D \in Seq(0 .. 255) /\ \A k \in 1 .. m + 3 : S[k] \in Seq(0 .. 255)
    BY DecodedTyped, TailTyped
  <1>4. U[m + 1] = D
    <2>1. 1 \in 1 .. Len(t) + 3
      BY <1>1
    <2> QED
      BY <2>1, BehindAlone DEF Decoded
  <1>5. ASSUME NEW k \in 1 .. m
        PROVE  TailStep(u, k) /\ TailStep(s, k) /\ (s[k] = PERCENT => WholeEscape(s, k))
    <2>1. k \in 1 .. Len(u) + 3 /\ k \in 1 .. Len(s) + 3 /\ k <= Len(s)
      BY <1>1
    <2> HIDE DEF u
    <2> QED
      BY <1>1, <1>2, <2>1, TailSteps
  <1> HIDE DEF u
  <1>6. SUFFICES ASSUME Bad # {} PROVE FALSE
    <2>1. N - 1 \in 0 .. N /\ 1 \in 1 .. N /\ 1 = N - (N - 1)
      BY <1>1
    <2> HIDE DEF U, S, D, N
    <2>2. Bad = {} => U[1] = S[1] \o D
      BY <2>1
    <2> QED
      BY <2>2 DEF U, S, D, u, Decoded
  <1>7. PICK d \in Bad : \A x \in Bad : d <= x
    <2>1. Bad \subseteq Nat
      BY <1>1
    <2> HIDE DEF Bad
    <2> QED
      BY <1>6, <2>1, LeastExists
  <1>8. PICK k \in 1 .. N : k = N - d /\ U[k] # S[k] \o D
    BY <1>7
  <1>9. d \in 0 .. N
    BY <1>7
  <1>10. ASSUME NEW j \in 1 .. N, j > k PROVE U[j] = S[j] \o D
    <2>1. N - j \in 0 .. N /\ ~(d <= N - j) /\ j = N - (N - j)
      <3>1. N \in Int /\ j \in Int /\ 1 <= j /\ j <= N /\ k < j /\ d \in Int /\ k = N - d
        BY <1>1, <1>8, <1>9, <1>10
      <3> HIDE DEF N
      <3> QED
        BY <3>1
    <2>2. N - j \notin Bad
      <3> HIDE DEF Bad
      <3> QED
        BY <1>7, <2>1
    <2> HIDE DEF U, S, D, N
    <2> QED
      BY <2>1, <2>2
  <1> HIDE DEF Bad, D
  <1>11. CASE k = m + 1
    <2>1. S[k] = <<>>
      <3>1. k \in 1 .. Len(s) + 3 /\ k > Len(s)
        BY <1>1, <1>11
      <3> QED
        BY <3>1, TailSteps DEF TailStep
    <2>2. S[k] \o D = D
      BY <1>3, <2>1, ConcatEmptySeq
    <2> HIDE DEF U, S
    <2> QED
      BY <1>4, <1>8, <1>11, <2>2
  <1>12. ASSUME NEW x \in 0 .. 255, NEW j \in 1 .. m + 3, U[j] = S[j] \o D
         PROVE  <<x>> \o U[j] = (<<x>> \o S[j]) \o D
    <2>1. S[j] \in Seq(0 .. 255) /\ D \in Seq(0 .. 255)
      BY <1>3
    <2> HIDE DEF U, S
    <2>2. U[j] = Cat(S[j], D)
      BY <1>12 DEF Cat
    <2>3. Cat(One(x), Cat(S[j], D)) = Cat(Cat(One(x), S[j]), D)
      BY <2>1, CatOne, ZenonT(60)
    <2>4. Cat(One(x), U[j]) = Cat(Cat(One(x), S[j]), D)
      BY <2>2, <2>3, Zenon
    <2> QED
      BY <2>4, Zenon DEF Cat, One
  <1>13. CASE k <= m /\ s[k] # PERCENT
    <2>1. k \in 1 .. m /\ k <= Len(u) /\ k + 1 \in 1 .. N /\ k + 1 > k /\ k + 1 \in 1 .. m + 3
      <3> HIDE DEF U, S
      <3> QED
        BY <1>1, <1>13
    <2>0. u[k] = s[k] /\ s[k] \in 0 .. 255
      BY <1>1, <2>1
    <2>2. U[k + 1] = S[k + 1] \o D
      BY <1>10, <2>1
    <2>3. U[k] = <<s[k]>> \o U[k + 1] /\ S[k] = <<s[k]>> \o S[k + 1]
      BY <1>5, <1>13, <2>0, <2>1 DEF TailStep
    <2>4. <<s[k]>> \o U[k + 1] = (<<s[k]>> \o S[k + 1]) \o D
      BY <1>12, <2>0, <2>1, <2>2
    <2> HIDE DEF U, S, m, N
    <2> QED
      BY <1>8, <2>3, <2>4
  <1>14. CASE k <= m /\ s[k] = PERCENT
    <2> DEFINE x == Strtol16(s[k + 1], s[k + 2])
    <2>1. k \in 1 .. m
      BY <1>1, <1>14
    <2>2. k + 2 <= m /\ x \in 0 .. 255
      BY <1>5, <1>14, <2>1 DEF WholeEscape
    <2>3. /\ k <= Len(u) /\ u[k] = s[k] /\ u[k + 1] = s[k + 1] /\ u[k + 2] = s[k + 2]
          /\ k + 3 \in 1 .. N /\ k + 3 > k /\ k + 3 \in 1 .. m + 3
      <3>1. k + 1 \in 1 .. m /\ k + 2 \in 1 .. m
        BY <1>1, <2>1, <2>2
      <3> QED
        BY <1>1, <2>1, <2>2, <3>1
    <2>4. U[k + 3] = S[k + 3] \o D
      BY <1>10, <2>3
    <2>5. U[k] = <<x>> \o U[k + 3] /\ S[k] = <<x>> \o S[k + 3]
      BY <1>5, <1>14, <2>1, <2>3 DEF TailStep
    <2> HIDE DEF x
    <2>6. <<x>> \o U[k + 3] = (<<x>> \o S[k + 3]) \o D
      BY <1>12, <2>2, <2>3, <2>4
    <2> HIDE DEF U, S, m, N
    <2> QED
      BY <1>8, <2>5, <2>6
  <1> QED
    BY <1>1, <1>8, <1>11, <1>13, <1>14

LEMMA SpellsJoined ==
  ASSUME NEW h, NEW p, NEW g, NEW q, Spells(h, p), Spells(g, q)
  PROVE  Spells(h \o g, p \o q)
  <1> DEFINE u == h \o g
  <1>1. /\ h \in Seq(0 .. 255) /\ g \in Seq(0 .. 255) /\ CompleteEscapes(h) /\ CompleteEscapes(g)
        /\ Decoded(h) = p /\ Decoded(g) = q
    BY DEF Spells
  <1>2. u \in Seq(0 .. 255) /\ CompleteEscapes(u) /\ Decoded(u) = p \o q
    BY <1>1, ConcatProperties, TailShifts, Joins, ZenonT(60)
  <1>3. ASSUME NEW i \in 1 .. Len(u) PROVE u[i] \notin {NUL, QMARK, SP}
    <2>1. Len(u) = Len(h) + Len(g) /\ Len(h) \in Nat /\ Len(g) \in Nat
      BY <1>1
    <2>2. u[i] = IF i <= Len(h) THEN h[i] ELSE g[i - Len(h)]
      BY <1>1, <2>1, ConcatProperties
    <2>3. IF i <= Len(h) THEN i \in 1 .. Len(h) ELSE i - Len(h) \in 1 .. Len(g)
      BY <2>1
    <2> HIDE DEF u
    <2> QED
      BY <2>2, <2>3 DEF Spells
  <1> HIDE DEF u
  <1>4. Spells(u, p \o q)
    BY <1>2, <1>3 DEF Spells
  <1> QED
    BY <1>4 DEF u

LEMMA NothingSpelled == Spells(<<>>, <<>>)
  <1> DEFINE h == <<>>
  <1>1. h \in Seq(0 .. 255) /\ Len(h) = 0 /\ 1 \in 1 .. Len(h) + 3
    OBVIOUS
  <1> HIDE DEF h
  <1>2. CompleteEscapes(h)
    BY <1>1 DEF CompleteEscapes
  <1>3. DecodedFrom(h)[1] = <<>>
    <2>1. TailStep(h, 1)
      BY <1>1, <1>2, TailSteps
    <2>2. 1 > Len(h)
      BY <1>1
    <2> QED
      BY <2>1, <2>2 DEF TailStep
  <1>4. Spells(h, <<>>)
    BY <1>1, <1>2, <1>3 DEF Spells, Decoded
  <1> QED
    BY <1>4 DEF h

LEMMA PlainSpelled ==
  ASSUME NEW c \in 1 .. 255, c \notin {PERCENT, QMARK, SP}
  PROVE  Spells(<<c>>, <<c>>)
  <1> DEFINE h == <<c>>
  <1>1. /\ h \in Seq(0 .. 255) /\ Len(h) = 1 /\ h[1] = c /\ 1 \in 1 .. Len(h) + 3 /\ 2 \in 1 .. Len(h) + 3
        /\ 1 <= Len(h) /\ 2 > Len(h) /\ 1 + 1 = 2 /\ c # NUL
    BY DEF NUL
  <1>9. <<c>> \o <<>> = <<c>>
    OBVIOUS
  <1> HIDE DEF h
  <1>2. \A i \in 1 .. Len(h) : i = 1
    BY <1>1
  <1>3. CompleteEscapes(h)
    BY <1>1, <1>2 DEF CompleteEscapes
  <1>4. DecodedFrom(h)[2] = <<>>
    BY <1>1, <1>3, TailSteps DEF TailStep
  <1>5. DecodedFrom(h)[1] = <<c>> \o DecodedFrom(h)[1 + 1]
    BY <1>1, <1>3, TailSteps DEF TailStep
  <1>6. Decoded(h) = <<c>>
    BY <1>1, <1>4, <1>5, <1>9 DEF Decoded
  <1>7. Spells(h, <<c>>)
    BY <1>1, <1>2, <1>3, <1>6 DEF Spells
  <1> QED
    BY <1>7 DEF h

LEMMA HexBack ==
  ASSUME NEW d \in 0 .. 15
  PROVE  Hex(d) \in 48 .. 102 /\ IsHex(Hex(d)) /\ HexDigit(Hex(d)) = d
  BY DEF Hex, IsHex, HexDigit

LEMMA EscapeSpelled ==
  ASSUME NEW c \in 0 .. 255
  PROVE  Spells(Escaped(c), <<c>>) /\ Len(Escaped(c)) = 3
  <1> DEFINE a == c \div 16
  <1> DEFINE b == c % 16
  <1>1. a \in 0 .. 15 /\ b \in 0 .. 15 /\ c = 16 * a + b
    OBVIOUS
  <1> HIDE DEF a, b
  <1> DEFINE x == Hex(a)
  <1> DEFINE y == Hex(b)
  <1>2. /\ x \in 48 .. 102 /\ IsHex(x) /\ HexDigit(x) = a
        /\ y \in 48 .. 102 /\ IsHex(y) /\ HexDigit(y) = b
    BY <1>1, HexBack
  <1>3. x \notin {PERCENT, QMARK, SP, NUL} /\ y \notin {PERCENT, QMARK, SP, NUL}
    BY <1>2 DEF IsHex, PERCENT, QMARK, SP, NUL
  <1> HIDE DEF x, y
  <1>4. Strtol16(x, y) = c
    <2>1. x \notin {9, SP, 43} /\ x # 45
      BY <1>2 DEF SP
    <2>2. Strtol16(x, y) = 16 * HexDigit(x) + HexDigit(y)
      BY <1>2, <2>1 DEF Strtol16
    <2> QED
      BY <1>1, <1>2, <2>2
  <1> DEFINE h == <<PERCENT, x, y>>
  <1>5. /\ h \in Seq(0 .. 255) /\ Len(h) = 3 /\ h[1] = PERCENT /\ h[1 + 1] = x /\ h[1 + 2] = y
        /\ h[2] = x /\ h[3] = y
    BY <1>2 DEF PERCENT
  <1>9. <<c>> \o <<>> = <<c>>
    OBVIOUS
  <1> HIDE DEF h
  <1>6. 1 \in 1 .. Len(h) + 3 /\ 4 \in 1 .. Len(h) + 3 /\ 1 <= Len(h) /\ 4 > Len(h) /\ 1 + 3 = 4
    BY <1>5
  <1>7. CompleteEscapes(h)
    <2>1. ASSUME NEW i \in 1 .. Len(h), h[i] = PERCENT PROVE i = 1
      <3>1. i \in {1, 2, 3}
        BY <1>5
      <3> QED
        BY <1>3, <1>5, <2>1, <3>1
    <2>2. 1 + 2 <= Len(h) /\ IsHex(h[1 + 1]) /\ IsHex(h[1 + 2])
      BY <1>2, <1>5
    <2> QED
      BY <2>1, <2>2 DEF CompleteEscapes
  <1>8. DecodedFrom(h)[4] = <<>>
    BY <1>5, <1>6, <1>7, TailSteps DEF TailStep
  <1>10. DecodedFrom(h)[1] = <<Strtol16(h[1 + 1], h[1 + 2])>> \o DecodedFrom(h)[1 + 3]
    BY <1>5, <1>6, <1>7, TailSteps DEF TailStep
  <1>11. Decoded(h) = <<c>>
    BY <1>4, <1>5, <1>6, <1>8, <1>9, <1>10 DEF Decoded
  <1>12. ASSUME NEW i \in 1 .. Len(h) PROVE h[i] \notin {NUL, QMARK, SP}
    <2>1. i \in {1, 2, 3}
      BY <1>5
    <2> QED
      BY <1>3, <1>5, <2>1 DEF PERCENT, QMARK, SP, NUL
  <1>13. Spells(h, <<c>>)
    BY <1>5, <1>7, <1>11, <1>12 DEF Spells
  <1>14. Escaped(c) = h
    BY DEF Escaped, h, x, y, a, b
  <1> QED
    BY <1>5, <1>13, <1>14

(* A text put together piece by piece.                                     *)
LEMMA PiecesSpell ==
  ASSUME NEW p \in Seq(0 .. 255), NEW d, NEW w, d[0] = <<>>,
         \A i \in 1 .. Len(p) : Spells(w[i], <<p[i]>>) /\ Len(w[i]) <= 3,
         \A i \in 1 .. Len(p) : (d[i - 1] \in Seq(0 .. 255) /\ Len(d[i - 1]) <= 3 * (i - 1)) => d[i] = d[i - 1] \o w[i]
  PROVE  Spells(d[Len(p)], p) /\ Len(d[Len(p)]) <= 3 * Len(p)
  <1> DEFINE n == Len(p)
  <1> DEFINE Right(i) == Spells(d[i], SubSeq(p, 1, i)) /\ Len(d[i]) <= 3 * i
  <1> DEFINE Bad == {i \in 0 .. n : ~Right(i)}
  <1>1. n \in Nat /\ SubSeq(p, 1, n) = p /\ SubSeq(p, 1, 0) = <<>>
    OBVIOUS
  <1>2. Right(0)
    <2>1. Spells(d[0], SubSeq(p, 1, 0))
      BY <1>1, NothingSpelled
    <2>2. Len(d[0]) <= 3 * 0
      OBVIOUS
    <2> QED
      BY <2>1, <2>2
  <1>3. ASSUME NEW i \in 1 .. n, Right(i - 1) PROVE Right(i)
    <2> DEFINE h == d[i - 1]
    <2> DEFINE g == w[i]
    <2>1. Spells(h, SubSeq(p, 1, i - 1)) /\ Len(h) <= 3 * (i - 1)
      BY <1>3
    <2>2. Spells(g, <<p[i]>>) /\ Len(g) <= 3
      OBVIOUS
    <2>3. h \in Seq(0 .. 255) /\ g \in Seq(0 .. 255)
      BY <2>1, <2>2 DEF Spells
    <2>4. d[i] = h \o g
      BY <2>1, <2>3
    <2> HIDE DEF h, g
    <2>5. Spells(h \o g, SubSeq(p, 1, i - 1) \o <<p[i]>>)
      BY <2>1, <2>2, SpellsJoined
    <2>6. SubSeq(p, 1, i - 1) \o <<p[i]>> = SubSeq(p, 1, i)
      OBVIOUS
    <2>7. Len(h \o g) = Len(h) + Len(g) /\ Len(h) \in Nat /\ Len(g) \in Nat
      BY <2>3
    <2>8. Len(h \o g) <= 3 * i
      BY <2>1, <2>2, <2>7
    <2> QED
      BY <2>4, <2>5, <2>6, <2>8
  <1> HIDE DEF Right
  <1>4. SUFFICES ASSUME Bad # {} PROVE FALSE
    <2>1. Bad = {} => Right(n)
      BY <1>1
    <2> QED
      BY <1>1, <2>1 DEF Right
  <1>5. PICK i \in Bad : \A x \in Bad : i <= x
    <2>1. Bad \subseteq Nat
      BY <1>1
    <2> HIDE DEF Bad
    <2> QED
      BY <1>4, <2>1, LeastExists
  <1>6. i \in 0 .. n /\ ~Right(i)
    BY <1>5
  <1>7. i # 0
    BY <1>2, <1>6
  <1>8. i \in 1 .. n /\ i - 1 \in 0 .. n /\ ~(i <= i - 1)
    BY <1>1, <1>6, <1>7
  <1>9. i - 1 \notin Bad
    BY <1>5, <1>8
  <1>10. Right(i - 1)
    BY <1>8, <1>9
  <1> QED
    BY <1>3, <1>6, <1>8, <1>10

(* A function that is given by its first value and by how each value       *)
(* follows from the one before it exists.                                  *)
Moves(turn, n, V) == turn \in [1 .. n -> [V -> V]]
Walk(f, a, n, V, turn) == f \in [0 .. n -> V] /\ f[0] = a /\ \A i \in 1 .. n : f[i] = turn[i][f[i - 1]]
LEMMA Iterated ==
  ASSUME NEW V, NEW a \in V, NEW n \in Nat, NEW turn, Moves(turn, n, V)
  PROVE  \E f : Walk(f, a, n, V, turn)
  <1>0. SUFFICES ASSUME turn \in [1 .. n -> [V -> V]]
                 PROVE  \E f \in [0 .. n -> V] : f[0] = a /\ \A i \in 1 .. n : f[i] = turn[i][f[i - 1]]
    BY DEF Moves, Walk
  <1> DEFINE Follows(f, m) == f[0] = a /\ \A i \in 1 .. m : f[i] = turn[i][f[i - 1]]
  <1> DEFINE Some(m) == \E f \in [0 .. m -> V] : Follows(f, m)
  <1> DEFINE Bad == {m \in 0 .. n : ~Some(m)}
  <1>1. Some(0)
    <2> DEFINE f == [i \in 0 .. 0 |-> a]
    <2>1. f \in [0 .. 0 -> V] /\ f[0] = a /\ 1 .. 0 = {}
      OBVIOUS
    <2> HIDE DEF f
    <2> QED
      BY <2>1
  <1>2. ASSUME NEW m \in 1 .. n, Some(m - 1) PROVE Some(m)
    <2>1. PICK g \in [0 .. m - 1 -> V] : Follows(g, m - 1)
      BY <1>2
    <2>2. m - 1 \in 0 .. m - 1 /\ g[m - 1] \in V /\ turn[m][g[m - 1]] \in V
      BY <1>0
    <2> DEFINE f == [i \in 0 .. m |-> IF i = m THEN turn[m][g[m - 1]] ELSE g[i]]
    <2>3. f \in [0 .. m -> V]
      <3>1. ASSUME NEW i \in 0 .. m PROVE (IF i = m THEN turn[m][g[m - 1]] ELSE g[i]) \in V
        <4>1. i # m => i \in 0 .. m - 1
          OBVIOUS
        <4> QED
          BY <2>2, <4>1
      <3> QED
        BY <3>1
    <2>4. f[0] = a
      BY <2>1
    <2>5. ASSUME NEW i \in 1 .. m PROVE f[i] = turn[i][f[i - 1]]
      <3>1. i \in 0 .. m /\ i - 1 \in 0 .. m /\ i - 1 # m /\ (i # m => i \in 1 .. m - 1)
        OBVIOUS
      <3>2. f[i - 1] = g[i - 1]
        BY <3>1
      <3>3. f[i] = IF i = m THEN turn[m][g[m - 1]] ELSE g[i]
        BY <3>1
      <3> HIDE DEF f
      <3> QED
        BY <2>1, <3>1, <3>2, <3>3
    <2> HIDE DEF f
    <2> QED
      BY <2>3, <2>4, <2>5
  <1> HIDE DEF Some
  <1>3. SUFFICES ASSUME Bad # {} PROVE FALSE
    <2>1. Bad = {} => Some(n)
      OBVIOUS
    <2> QED
      BY <2>1 DEF Some
  <1>4. PICK m \in Bad : \A x \in Bad : m <= x
    <2>1. Bad \subseteq Nat
      OBVIOUS
    <2> HIDE DEF Bad
    <2> QED
      BY <1>3, <2>1, LeastExists
  <1>5. m \in 0 .. n /\ ~Some(m)
    BY <1>4
  <1>6. m # 0
    BY <1>1, <1>5
  <1>7. m \in 1 .. n /\ m - 1 \in 0 .. n /\ ~(m <= m - 1)
    BY <1>5, <1>6
  <1>8. m - 1 \notin Bad
    BY <1>4, <1>7
  <1>9. Some(m - 1)
    BY <1>7, <1>8
  <1> QED
    BY <1>2, <1>5, <1>7, <1>9

LEMMA Wider ==
  ASSUME NEW p \in Seq(1 .. 255)
  PROVE  /\ p \in Seq(0 .. 255) /\ Len(p) \in Nat
         /\ \A i \in 1 .. Len(p) : p[i] \in 1 .. 255
  <1>1. Len(p) \in Nat /\ p \in [1 .. Len(p) -> 1 .. 255]
    BY LenProperties, ZenonT(60)
  <1>2. p \in [1 .. Len(p) -> 0 .. 255]
    BY <1>1
  <1>3. p \in Seq(0 .. 255)
    BY <1>1, <1>2, SeqDef
  <1> QED
    BY <1>1, <1>3

(* uri_encode writes what is decoded to the name, and has room for it.     *)
LEMMA UriSpells ==
  ASSUME NEW p \in Seq(1 .. 255), NEW size \in Nat, 3 * Len(p) < size
  PROVE  Spells(UriEncode(p, size), p) /\ Len(UriEncode(p, size)) < size
  <1> DEFINE n == Len(p)
  <1> DEFINE V == Seq(0 .. 255)
  <1> DEFINE piece(i) == IF p[i] \in Reserved THEN Escaped(p[i]) ELSE <<p[i]>>
  <1> DEFINE w == [i \in 1 .. n |-> piece(i)]
  <1> DEFINE F(f) == [i \in 0 .. n |-> IF i = 0 THEN <<>>
                                       ELSE IF size - Len(f[i - 1]) <= 2 THEN f[i - 1]
                                       ELSE f[i - 1] \o piece(i)]
  <1> DEFINE dest == CHOOSE f : f = F(f)
  <1>1. UriEncode(p, size) = dest[n]
    BY DEF UriEncode
  <1>2. n \in Nat /\ p \in Seq(0 .. 255) /\ \A i \in 1 .. n : p[i] \in 1 .. 255
    BY Wider
  <1>3. ASSUME NEW i \in 1 .. n PROVE Spells(piece(i), <<p[i]>>) /\ Len(piece(i)) <= 3
    <2>1. p[i] \in 1 .. 255 /\ p[i] \in 0 .. 255
      BY <1>2
    <2> DEFINE c == p[i]
    <2> HIDE DEF c
    <2>2. c \in 1 .. 255 /\ c \in 0 .. 255
      BY <2>1 DEF c
    <2>3. CASE c \in Reserved
      <3>1. piece(i) = Escaped(c)
        BY <2>3 DEF c
      <3> HIDE DEF piece
      <3>2. Spells(Escaped(c), <<c>>) /\ Len(Escaped(c)) = 3
        BY <2>2, EscapeSpelled
      <3> QED
        BY <3>1, <3>2 DEF c
    <2>4. CASE c \notin Reserved
      <3>1. piece(i) = <<c>> /\ c \notin {PERCENT, QMARK, SP} /\ Len(<<c>>) = 1
        BY <2>4, SMTT(60) DEF c, Reserved, PERCENT, QMARK, SP
      <3> HIDE DEF piece
      <3>2. Spells(<<c>>, <<c>>)
        BY <2>2, <3>1, PlainSpelled
      <3> QED
        BY <3>1, <3>2 DEF c
    <2> QED
      BY <2>3, <2>4
  <1> HIDE DEF piece
  <1>4. ASSUME NEW i \in 1 .. n PROVE w[i] = piece(i) /\ w[i] \in V
    BY <1>3 DEF Spells
  <1>5. dest = F(dest)
    <2> DEFINE turn == [i \in 1 .. n |-> [v \in V |-> IF size - Len(v) <= 2 THEN v ELSE v \o piece(i)]]
    <2>1. turn \in [1 .. n -> [V -> V]]
      <3>1. ASSUME NEW i \in 1 .. n, NEW v \in V PROVE v \o piece(i) \in V
        BY <1>4, ConcatProperties
      <3> HIDE DEF V
      <3> QED
        BY <3>1
    <2>2. <<>> \in V
      OBVIOUS
    <2> HIDE DEF turn, V, n
    <2>6. PICK f : Walk(f, <<>>, n, V, turn)
      <3>1. Moves(turn, n, V)
        BY <2>1 DEF Moves
      <3> QED
        BY <1>2, <2>2, <3>1, Iterated
    <2>3. f \in [0 .. n -> V] /\ f[0] = <<>> /\ \A i \in 1 .. n : f[i] = turn[i][f[i - 1]]
      BY <2>6 DEF Walk
    <2>4. ASSUME NEW i \in 0 .. n PROVE f[i] = F(f)[i]
      <3>1. CASE i = 0
        BY <2>3, <3>1
      <3>2. CASE i # 0
        <4>1. i \in 1 .. n /\ i - 1 \in 0 .. n
          BY <1>2, <3>2
        <4>2. f[i - 1] \in V
          BY <2>3, <4>1
        <4>3. f[i] = IF size - Len(f[i - 1]) <= 2 THEN f[i - 1] ELSE f[i - 1] \o piece(i)
          BY <2>3, <4>1, <4>2 DEF turn
        <4> QED
          BY <3>2, <4>3
      <3> QED
        BY <3>1, <3>2
    <2>5. f = F(f)
      <3> DEFINE g == F(f)
      <3>1. DOMAIN g = 0 .. n /\ g = [i \in 0 .. n |-> g[i]]
        OBVIOUS
      <3>2. \A i \in 0 .. n : f[i] = g[i]
        BY <2>4
      <3> HIDE DEF g
      <3>3. f = g
        BY <2>3, <3>1, <3>2
      <3> QED
        BY <3>3 DEF g
    <2> HIDE DEF F
    <2> QED
      BY <2>5
  <1> HIDE DEF dest
  <1>6. dest[0] = <<>>
    <2>1. 0 \in 0 .. n
      BY <1>2
    <2> QED
      BY <1>5, <2>1
  <1>7. ASSUME NEW i \in 1 .. n, dest[i - 1] \in Seq(0 .. 255), Len(dest[i - 1]) <= 3 * (i - 1)
        PROVE  dest[i] = dest[i - 1] \o w[i]
    <2>1. i \in 0 .. n /\ i # 0 /\ Len(dest[i - 1]) \in Nat
      BY <1>2, <1>7
    <2>2. ~(size - Len(dest[i - 1]) <= 2)
      BY <1>2, <1>7, <2>1
    <2>3. dest[i] = IF size - Len(dest[i - 1]) <= 2 THEN dest[i - 1] ELSE dest[i - 1] \o piece(i)
      BY <1>5, <2>1
    <2> QED
      BY <1>4, <2>2, <2>3
  <1>8. \A i \in 1 .. n : Spells(w[i], <<p[i]>>) /\ Len(w[i]) <= 3
    BY <1>3, <1>4
  <1> HIDE DEF w
  <1>9. Spells(dest[n], p) /\ Len(dest[n]) <= 3 * n
    BY <1>2, <1>6, <1>7, <1>8, PiecesSpell
  <1>10. Len(dest[n]) \in Nat
    BY <1>9 DEF Spells
  <1> QED
    BY <1>1, <1>2, <1>9, <1>10

(* What holds at 0 and goes on from each number to the next holds up to n. *)
LEMMA GoesOn ==
  ASSUME NEW n \in Nat, NEW S, 0 \in S, \A i \in 1 .. n : i - 1 \in S => i \in S
  PROVE  \A i \in 0 .. n : i \in S
  <1> DEFINE Bad == {i \in 0 .. n : i \notin S}
  <1>1. SUFFICES ASSUME Bad # {} PROVE FALSE
    OBVIOUS
  <1>2. PICK i \in Bad : \A x \in Bad : i <= x
    <2>1. Bad \subseteq Nat
      OBVIOUS
    <2> HIDE DEF Bad
    <2> QED
      BY <1>1, <2>1, LeastExists
  <1>3. i \in 0 .. n /\ i \notin S
    BY <1>2
  <1>4. i \in 1 .. n /\ i - 1 \in 0 .. n /\ ~(i <= i - 1)
    BY <1>3
  <1>5. i - 1 \notin Bad
    BY <1>2, <1>4
  <1> QED
    BY <1>3, <1>4, <1>5

LEMMA EntityFacts ==
  ASSUME NEW c \in 1 .. 255
  PROVE  Entity(c) \in Seq(0 .. 255) /\ Len(Entity(c)) \in Nat
  <1>1. CASE c = 32
    <2>1. Entity(c) = <<38, 110, 98, 115, 112, 59>>
      BY <1>1 DEF Entity
    <2> QED
      BY <2>1
  <1>2. CASE c = 34
    <2>1. Entity(c) = <<38, 113, 117, 111, 116, 59>>
      BY <1>2 DEF Entity
    <2> QED
      BY <2>1
  <1>3. CASE c = 38
    <2>1. Entity(c) = <<38, 97, 109, 112, 59>>
      BY <1>3 DEF Entity
    <2> QED
      BY <2>1
  <1>4. CASE c = 60
    <2>1. Entity(c) = <<38, 108, 116, 59>>
      BY <1>4 DEF Entity
    <2> QED
      BY <2>1
  <1>5. CASE c = 62
    <2>1. Entity(c) = <<38, 103, 116, 59>>
      BY <1>5 DEF Entity
    <2> QED
      BY <2>1
  <1>6. CASE c \notin {32, 34, 38, 60, 62}
    <2>1. Entity(c) = <<c>>
      BY <1>6 DEF Entity
    <2> QED
      BY <2>1
  <1> QED
    BY <1>1, <1>2, <1>3, <1>4, <1>5, <1>6

(* html_encode stays in its buffer, with the NUL.                          *)
LEMMA HtmlFits ==
  ASSUME NEW p \in Seq(1 .. 255), NEW size \in Nat, size > 0
  PROVE  Len(HtmlEncode(p, size)) < size
  <1> DEFINE n == Len(p)
  <1> DEFINE V == Seq(0 .. 255)
  <1> DEFINE ent(i) == Entity(p[i])
  <1> DEFINE L(f) == [i \in 0 .. n |-> IF i = 0 THEN 0 ELSE f[i - 1] + Len(ent(i))]
  <1> DEFINE len == CHOOSE f : f = L(f)
  <1> DEFINE F(f) == [i \in 0 .. n |-> IF i = 0 THEN <<>>
                                       ELSE IF len[i] >= size THEN f[i - 1] ELSE f[i - 1] \o ent(i)]
  <1> DEFINE dest == CHOOSE f : f = F(f)
  <1>1. HtmlEncode(p, size) = dest[n]
    BY DEF HtmlEncode
  <1>2. n \in Nat /\ \A i \in 1 .. n : p[i] \in 1 .. 255
    BY Wider
  <1>3. ASSUME NEW i \in 1 .. n PROVE ent(i) \in V /\ Len(ent(i)) \in Nat
    BY <1>2, EntityFacts
  <1> HIDE DEF ent, n
  <1>4. len = L(len)
    <2> DEFINE turn == [i \in 1 .. n |-> [v \in Nat |-> v + Len(ent(i))]]
    <2>1. Moves(turn, n, Nat)
      BY <1>3 DEF Moves
    <2> HIDE DEF turn
    <2>2. PICK f : Walk(f, 0, n, Nat, turn)
      BY <1>2, <2>1, Iterated
    <2>3. f \in [0 .. n -> Nat] /\ f[0] = 0 /\ \A i \in 1 .. n : f[i] = turn[i][f[i - 1]]
      BY <2>2 DEF Walk
    <2>4. ASSUME NEW i \in 0 .. n, i # 0 PROVE f[i] = f[i - 1] + Len(ent(i))
      <3>1. i \in 1 .. n /\ i - 1 \in 0 .. n
        BY <1>2, <2>4
      <3>2. f[i - 1] \in Nat
        BY <2>3, <3>1
      <3> QED
        BY <2>3, <3>1, <3>2 DEF turn
    <2>5. f = L(f)
      BY <2>3, <2>4
    <2> HIDE DEF L
    <2> QED
      BY <2>5
  <1> HIDE DEF len
  <1>5. dest = F(dest)
    <2> DEFINE turn == [i \in 1 .. n |-> [v \in V |-> IF len[i] >= size THEN v ELSE v \o ent(i)]]
    <2>1. Moves(turn, n, V)
      <3>1. ASSUME NEW i \in 1 .. n, NEW v \in V PROVE v \o ent(i) \in V
        BY <1>3, ConcatProperties
      <3> HIDE DEF V
      <3> QED
        BY <3>1 DEF Moves
    <2>2. <<>> \in V
      OBVIOUS
    <2> HIDE DEF turn, V
    <2>6. PICK f : Walk(f, <<>>, n, V, turn)
      BY <1>2, <2>1, <2>2, Iterated
    <2>3. f \in [0 .. n -> V] /\ f[0] = <<>> /\ \A i \in 1 .. n : f[i] = turn[i][f[i - 1]]
      BY <2>6 DEF Walk
    <2>4. ASSUME NEW i \in 0 .. n, i # 0
          PROVE  f[i] = IF len[i] >= size THEN f[i - 1] ELSE f[i - 1] \o ent(i)
      <3>1. i \in 1 .. n /\ i - 1 \in 0 .. n
        BY <1>2, <2>4
      <3>2. f[i - 1] \in V
        BY <2>3, <3>1
      <3> QED
        BY <2>3, <3>1, <3>2 DEF turn
    <2>5. f = F(f)
      BY <2>3, <2>4
    <2> HIDE DEF F
    <2> QED
      BY <2>5
  <1> HIDE DEF dest
  <1> DEFINE Right(i) == /\ dest[i] \in V /\ len[i] \in Nat /\ Len(dest[i]) <= len[i] /\ Len(dest[i]) < size
  <1> DEFINE S == {i \in 0 .. n : Right(i)}
  <1>6. 0 \in S
    <2>1. 0 \in 0 .. n
      BY <1>2
    <2>2. dest[0] = <<>> /\ len[0] = 0
      BY <1>4, <1>5, <2>1
    <2>3. <<>> \in V /\ Len(<<>>) = 0 /\ 0 < size /\ 0 <= 0 /\ 0 \in Nat
      OBVIOUS
    <2>4. Right(0)
      <3> HIDE DEF V
      <3> QED
        BY <2>2, <2>3
    <2> HIDE DEF Right
    <2> QED
      BY <2>1, <2>4
  <1>7. ASSUME NEW i \in 1 .. n, Right(i - 1) PROVE Right(i)
    <2>1. i \in 0 .. n /\ i # 0
      BY <1>2
    <2>2. len[i] = len[i - 1] + Len(ent(i))
      BY <1>4, <2>1
    <2>3. dest[i] = IF len[i] >= size THEN dest[i - 1] ELSE dest[i - 1] \o ent(i)
      BY <1>5, <2>1
    <2>4. dest[i - 1] \in V /\ len[i - 1] \in Nat /\ Len(dest[i - 1]) <= len[i - 1] /\ Len(dest[i - 1]) < size
      BY <1>7
    <2>5. ent(i) \in V /\ Len(ent(i)) \in Nat /\ Len(dest[i - 1]) \in Nat
      BY <1>3, <2>4
    <2>6. dest[i - 1] \o ent(i) \in V /\ Len(dest[i - 1] \o ent(i)) = Len(dest[i - 1]) + Len(ent(i))
      BY <2>4, <2>5, ConcatProperties
    <2> HIDE DEF V
    <2>7. CASE len[i] >= size
      BY <2>2, <2>3, <2>4, <2>5, <2>7
    <2>8. CASE ~(len[i] >= size)
      <3>1. dest[i] = dest[i - 1] \o ent(i)
        BY <2>3, <2>8
      <3>2. Len(dest[i]) = Len(dest[i - 1]) + Len(ent(i)) /\ dest[i] \in V
        BY <2>6, <3>1
      <3> QED
        BY <2>2, <2>4, <2>5, <2>8, <3>2
    <2> QED
      BY <2>7, <2>8
  <1>8. n \in S
    <2>1. \A i \in 1 .. n : i - 1 \in S => i \in S
      <3> HIDE DEF Right
      <3> QED
        BY <1>2, <1>7
    <2> HIDE DEF S
    <2>2. \A i \in 0 .. n : i \in S
      BY <1>2, <1>6, <2>1, GoesOn
    <2> QED
      BY <1>2, <2>2
  <1> QED
    BY <1>1, <1>8

(* escape_uri writes what is decoded to the text, when it has the room.    *)
LEMMA EscSpells ==
  ASSUME NEW p \in Seq(1 .. 255), NEW size \in Nat, 3 * Len(p) + 4 <= size,
         \A i \in 1 .. Len(p) : ~(p[i] > 127)
  PROVE  Spells(EscapeUri(p, size), p)
  <1> DEFINE n == Len(p)
  <1> DEFINE V == Seq(0 .. 255)
  <1> DEFINE step(c) == IF Plain(c) THEN <<c>> ELSE IF c > 127 THEN <<PERCENT, 102, 102>> ELSE Escaped(c)
  <1> DEFINE R(f) == [i \in 0 .. n |-> IF i = 0 THEN size
                                       ELSE IF f[i - 1] < 4 THEN f[i - 1] ELSE f[i - 1] - Len(step(p[i]))]
  <1> DEFINE room == CHOOSE f : f = R(f)
  <1> DEFINE Full(m) == (m = n \/ room[m] < 4) /\ \A i \in 0 .. m - 1 : room[i] >= 4
  <1> DEFINE done == CHOOSE m \in 0 .. n : Full(m)
  <1> DEFINE F(f) == [i \in 0 .. done |-> IF i = 0 THEN <<>> ELSE f[i - 1] \o step(p[i])]
  <1> DEFINE dest == CHOOSE f : f = F(f)
  <1> DEFINE rest == IF done > 0 /\ p[done] > 127
                     THEN <<102, 102, 102, 102>> \o Tail(Escaped(p[done])) ELSE <<>>
  <1>1. EscapeUri(p, size) = dest[done] \o rest
    BY DEF EscapeUri
  <1>2. n \in Nat /\ p \in Seq(0 .. 255) /\ \A i \in 1 .. n : p[i] \in 1 .. 255
    BY Wider
  <1> DEFINE w == [i \in 1 .. n |-> step(p[i])]
  <1>3. ASSUME NEW i \in 1 .. n
        PROVE  Spells(step(p[i]), <<p[i]>>) /\ Len(step(p[i])) <= 3
    <2> DEFINE c == p[i]
    <2> HIDE DEF c
    <2>1. c \in 1 .. 255 /\ c \in 0 .. 255 /\ ~(c > 127)
      BY <1>2 DEF c
    <2>2. CASE Plain(c)
      <3>1. step(c) = <<c>> /\ c \notin {PERCENT, QMARK, SP} /\ Len(<<c>>) = 1
        BY <2>2 DEF Plain, PERCENT, QMARK, SP
      <3> HIDE DEF step
      <3>2. Spells(<<c>>, <<c>>)
        BY <2>1, <3>1, PlainSpelled
      <3> QED
        BY <3>1, <3>2 DEF c
    <2>3. CASE ~Plain(c)
      <3>1. step(c) = Escaped(c)
        BY <2>1, <2>3
      <3> HIDE DEF step
      <3>2. Spells(Escaped(c), <<c>>) /\ Len(Escaped(c)) = 3
        BY <2>1, EscapeSpelled
      <3> QED
        BY <3>1, <3>2 DEF c
    <2> QED
      BY <2>2, <2>3
  <1> HIDE DEF step, n
  <1>4. ASSUME NEW i \in 1 .. n
        PROVE  w[i] = step(p[i]) /\ step(p[i]) \in V /\ Len(step(p[i])) \in 0 .. 3
    <2>1. step(p[i]) \in Seq(0 .. 255) /\ Len(step(p[i])) <= 3
      BY <1>3 DEF Spells
    <2> DEFINE x == step(p[i])
    <2> HIDE DEF x
    <2>2. x \in Seq(0 .. 255) /\ Len(x) <= 3
      BY <2>1 DEF x
    <2>6. Len(x) \in Nat
      BY <2>2, LenProperties
    <2> DEFINE l == Len(x)
    <2> HIDE DEF l
    <2>7. l \in Nat /\ l <= 3
      BY <2>2, <2>6 DEF l
    <2>8. l \in 0 .. 3
      BY <2>7
    <2>3. Len(x) \in 0 .. 3
      BY <2>8 DEF l
    <2>4. step(p[i]) \in V /\ Len(step(p[i])) \in 0 .. 3
      BY <2>1, <2>3 DEF x
    <2>5. w[i] = step(p[i])
      OBVIOUS
    <2> QED
      BY <2>4, <2>5
  <1> HIDE DEF V
  <1>5. room = R(room)
    <2> DEFINE turn == [i \in 1 .. n |-> [v \in Int |-> IF v < 4 THEN v ELSE v - Len(step(p[i]))]]
    <2>1. Moves(turn, n, Int)
      BY <1>4 DEF Moves
    <2> HIDE DEF turn
    <2>2. PICK f : Walk(f, size, n, Int, turn)
      <3>1. size \in Int
        OBVIOUS
      <3> QED
        BY <1>2, <2>1, <3>1, Iterated
    <2>3. f \in [0 .. n -> Int] /\ f[0] = size /\ \A i \in 1 .. n : f[i] = turn[i][f[i - 1]]
      BY <2>2 DEF Walk
    <2>4. ASSUME NEW i \in 0 .. n, i # 0
          PROVE  f[i] = IF f[i - 1] < 4 THEN f[i - 1] ELSE f[i - 1] - Len(step(p[i]))
      <3>1. i \in 1 .. n /\ i - 1 \in 0 .. n
        BY <1>2, <2>4
      <3>2. f[i - 1] \in Int
        BY <2>3, <3>1
      <3> QED
        BY <2>3, <3>1, <3>2 DEF turn
    <2>5. f = R(f)
      BY <2>3, <2>4
    <2> HIDE DEF R
    <2> QED
      BY <2>5
  <1> HIDE DEF room
  <1> DEFINE Roomy(i) == room[i] \in Int /\ room[i] >= size - 3 * i
  <1> DEFINE S == {i \in 0 .. n : Roomy(i)}
  <1>6. \A i \in 0 .. n : Roomy(i)
    <2>1. 0 \in S
      <3>1. 0 \in 0 .. n
        BY <1>2
      <3>2. room[0] = size
        BY <1>5, <3>1
      <3> QED
        BY <3>1, <3>2
    <2>2. ASSUME NEW i \in 1 .. n, Roomy(i - 1) PROVE Roomy(i)
      <3>1. i \in 0 .. n /\ i # 0
        BY <1>2
      <3>2. room[i] = IF room[i - 1] < 4 THEN room[i - 1] ELSE room[i - 1] - Len(step(p[i]))
        BY <1>5, <3>1
      <3>3. Len(step(p[i])) \in 0 .. 3
        BY <1>4
      <3>4. room[i - 1] \in Int /\ room[i - 1] >= size - 3 * (i - 1)
        BY <2>2
      <3> DEFINE x == Len(step(p[i]))
      <3> HIDE DEF x
      <3>5. x \in 0 .. 3 /\ room[i] = IF room[i - 1] < 4 THEN room[i - 1] ELSE room[i - 1] - x
        BY <3>2, <3>3 DEF x
      <3>6. i \in Int
        BY <1>2
      <3> QED
        BY <3>4, <3>5, <3>6
    <2> HIDE DEF Roomy
    <2>3. \A i \in 1 .. n : i - 1 \in S => i \in S
      BY <1>2, <2>2
    <2> HIDE DEF S
    <2>4. \A i \in 0 .. n : i \in S
      BY <1>2, <2>1, <2>3, GoesOn
    <2> QED
      BY <2>4 DEF S
  <1>7. \A i \in 0 .. n : room[i] \in Int /\ room[i] >= 4
    <2>1. ASSUME NEW i \in 0 .. n PROVE room[i] \in Int /\ room[i] >= 4
      <3>1. room[i] \in Int /\ room[i] >= size - 3 * i /\ 3 * n + 4 <= size
        BY <1>6 DEF n
      <3> QED
        BY <1>2, <3>1
    <2> QED
      BY <2>1
  <1>8. done = n
    <2>1. ASSUME NEW m \in 0 .. n PROVE Full(m) <=> m = n
      <3>1. ~(room[m] < 4) /\ \A i \in 0 .. m - 1 : room[i] >= 4
        BY <1>2, <1>7
      <3> QED
        BY <3>1
    <2>2. n \in 0 .. n
      BY <1>2
    <2> HIDE DEF Full
    <2> QED
      BY <2>1, <2>2
  <1> HIDE DEF done
  <1>9. rest = <<>>
    <2>1. n > 0 => n \in 1 .. n
      BY <1>2
    <2>2. n > 0 => ~(p[n] > 127)
      BY <2>1 DEF n
    <2> QED
      BY <1>8, <2>2
  <1> HIDE DEF rest
  <1>10. dest = F(dest)
    <2> DEFINE turn == [i \in 1 .. n |-> [v \in V |-> v \o step(p[i])]]
    <2>1. Moves(turn, n, V)
      <3>1. ASSUME NEW i \in 1 .. n, NEW v \in V PROVE v \o step(p[i]) \in V
        BY <1>4, ConcatProperties DEF V
      <3> QED
        BY <3>1 DEF Moves
    <2>2. <<>> \in V
      BY DEF V
    <2> HIDE DEF turn
    <2>6. PICK f : Walk(f, <<>>, n, V, turn)
      BY <1>2, <2>1, <2>2, Iterated
    <2>3. f \in [0 .. n -> V] /\ f[0] = <<>> /\ \A i \in 1 .. n : f[i] = turn[i][f[i - 1]]
      BY <2>6 DEF Walk
    <2>4. ASSUME NEW i \in 0 .. n, i # 0 PROVE f[i] = f[i - 1] \o step(p[i])
      <3>1. i \in 1 .. n /\ i - 1 \in 0 .. n
        BY <1>2, <2>4
      <3>2. f[i - 1] \in V
        BY <2>3, <3>1
      <3> QED
        BY <2>3, <3>1, <3>2 DEF turn
    <2>5. f = F(f)
      BY <1>8, <2>3, <2>4
    <2> HIDE DEF F
    <2> QED
      BY <2>5
  <1> HIDE DEF dest
  <1>11. dest[0] = <<>>
    <2>1. 0 \in 0 .. done
      BY <1>2, <1>8
    <2> QED
      BY <1>10, <2>1
  <1>12. ASSUME NEW i \in 1 .. n PROVE dest[i] = dest[i - 1] \o w[i]
    <2>1. i \in 0 .. done /\ i # 0
      BY <1>2, <1>8
    <2>2. dest[i] = dest[i - 1] \o step(p[i])
      BY <1>10, <2>1
    <2> QED
      BY <1>4, <2>2
  <1>13. \A i \in 1 .. n : Spells(w[i], <<p[i]>>) /\ Len(w[i]) <= 3
    BY <1>3, <1>4
  <1> HIDE DEF w, F
  <1>14. Spells(dest[n], p)
    <2>1. \A i \in 1 .. Len(p) : Spells(w[i], <<p[i]>>) /\ Len(w[i]) <= 3
      BY <1>13 DEF n
    <2>2. \A i \in 1 .. Len(p) : (dest[i - 1] \in Seq(0 .. 255) /\ Len(dest[i - 1]) <= 3 * (i - 1))
                                   => dest[i] = dest[i - 1] \o w[i]
      BY <1>12 DEF n
    <2>3. Spells(dest[Len(p)], p)
      BY <1>2, <1>11, <2>1, <2>2, PiecesSpell
    <2> QED
      BY <2>3 DEF n
  <1>15. dest[n] \in Seq(0 .. 255)
    BY <1>14 DEF Spells
  <1>16. dest[done] \o rest = dest[n]
    BY <1>8, <1>9, <1>15, ConcatEmptySeq
  <1> QED
    BY <1>1, <1>14, <1>16

(* A text in which "../" does not occur is not cut at it.                  *)
ParentAt(s, i) == s[i] = DOT /\ s[i + 1] = DOT /\ s[i + 2] = SLASH
NoParent(s) == \A i \in 1 .. Len(s) - 2 : ~ParentAt(s, i)
LEMMA ParentOccurs ==
  ASSUME NEW s, NEW i \in Int
  PROVE  Occurs(s, i, ParentDir) <=> ParentAt(s, i)
  <1> DEFINE q == ParentDir
  <1>1. Len(q) = 3 /\ q[1] = DOT /\ q[2] = DOT /\ q[3] = SLASH
    BY DEF ParentDir
  <1> HIDE DEF q
  <1>2. Occurs(s, i, q) <=> \A k \in 1 .. 3 : s[i + k - 1] = q[k]
    BY <1>1 DEF Occurs
  <1>3. i + 1 - 1 = i /\ i + 2 - 1 = i + 1 /\ i + 3 - 1 = i + 2
    OBVIOUS
  <1>4. (\A k \in 1 .. 3 : s[i + k - 1] = q[k])
          <=> s[i + 1 - 1] = q[1] /\ s[i + 2 - 1] = q[2] /\ s[i + 3 - 1] = q[3]
    <2>1. 1 .. 3 = {1, 2, 3}
      OBVIOUS
    <2> QED
      BY <2>1, Zenon
  <1>5. Occurs(s, i, q) <=> ParentAt(s, i)
    BY <1>1, <1>2, <1>3, <1>4 DEF ParentAt
  <1> QED
    BY <1>5 DEF q

LEMMA ParentAbsent ==
  ASSUME NEW s \in Seq(0 .. 255)
  PROVE  Before(s, ParentDir) = s <=> NoParent(s)
  <1> DEFINE q == ParentDir
  <1>1. q \in Seq(0 .. 255) /\ Len(q) = 3 /\ Len(s) \in Nat
    BY DEF ParentDir, DOT, SLASH
  <1>2. ASSUME NEW i \in Int PROVE Occurs(s, i, q) <=> ParentAt(s, i)
    BY ParentOccurs
  <1> HIDE DEF q
  <1>3. Len(s) - Len(q) + 1 = Len(s) - 2
    BY <1>1
  <1>4. ASSUME NoParent(s) PROVE Before(s, q) = s
    <2>1. \A i \in 1 .. Len(s) - 2 : ~Occurs(s, i, q)
      BY <1>2, <1>4 DEF NoParent
    <2> QED
      BY <1>1, <1>3, <2>1, BeforeNone
  <1>5. ASSUME ~NoParent(s) PROVE Before(s, q) # s
    <2> DEFINE Hits == {i \in 1 .. Len(s) - 2 : ParentAt(s, i)}
    <2>1. Hits # {} /\ Hits \subseteq Nat
      BY <1>5 DEF NoParent
    <2>2. PICK f \in Hits : \A x \in Hits : f <= x
      <3> HIDE DEF Hits
      <3> QED
        BY <2>1, LeastExists
    <2>3. f \in 1 .. Len(s) - 2 /\ ParentAt(s, f) /\ f \in Int
      BY <2>2
    <2>4. ASSUME NEW i \in 1 .. f - 1 PROVE ~Occurs(s, i, q)
      <3>1. i \in Int /\ i \in 1 .. Len(s) - 2 /\ ~(f <= i)
        BY <1>1, <2>3
      <3>2. i \notin Hits
        BY <2>2, <3>1
      <3> QED
        BY <1>2, <3>1, <3>2
    <2>5. BytesOf(Before(s, q), f - 1, s, 1)
      <3>1. f \in 1 .. Len(s) - Len(q) + 1 /\ Occurs(s, f, q) /\ Len(q) > 0
        BY <1>1, <1>2, <1>3, <2>3
      <3> QED
        BY <1>1, <2>4, <3>1, BeforeAt
    <2>6. Len(Before(s, q)) = f - 1 /\ f - 1 < Len(s)
      BY <1>1, <2>3, <2>5 DEF BytesOf
    <2> QED
      BY <1>1, <2>3, <2>6
  <1>6. Before(s, q) = s <=> NoParent(s)
    BY <1>4, <1>5
  <1> QED
    BY <1>6 DEF q

(* A slash in front makes no "../".                                        *)
LEMMA SlashBefore ==
  ASSUME NEW s \in Seq(0 .. 255), NoParent(s)
  PROVE  <<SLASH>> \o s \in Seq(0 .. 255) /\ NoParent(<<SLASH>> \o s)
  <1> DEFINE t == <<SLASH>> \o s
  <1>1. /\ t \in Seq(0 .. 255) /\ Len(t) = Len(s) + 1 /\ Len(s) \in Nat /\ t[1] = SLASH
        /\ \A i \in 2 .. Len(s) + 1 : t[i] = s[i - 1]
    <2>1. <<SLASH>> \in Seq(0 .. 255) /\ Len(<<SLASH>>) = 1 /\ <<SLASH>>[1] = SLASH /\ Len(s) \in Nat
      BY DEF SLASH
    <2> DEFINE a == <<SLASH>>
    <2> HIDE DEF a
    <2>2. a \in Seq(0 .. 255) /\ Len(a) = 1 /\ a[1] = SLASH
      BY <2>1 DEF a
    <2>3. /\ a \o s \in Seq(0 .. 255) /\ Len(a \o s) = Len(a) + Len(s)
          /\ \A i \in 1 .. Len(a) + Len(s) : (a \o s)[i] = IF i <= Len(a) THEN a[i] ELSE s[i - Len(a)]
      BY <2>2, ConcatProperties, ZenonT(60)
    <2> QED
      BY <2>1, <2>2, <2>3 DEF a
  <1> HIDE DEF t
  <1>2. ASSUME NEW i \in 1 .. Len(t) - 2, ParentAt(t, i) PROVE FALSE
    <2>1. CASE i = 1
      BY <1>1, <1>2, <2>1 DEF ParentAt, DOT, SLASH
    <2>2. CASE i # 1
      <3>1. /\ i \in 2 .. Len(s) + 1 /\ i + 1 \in 2 .. Len(s) + 1 /\ i + 2 \in 2 .. Len(s) + 1
            /\ i - 1 \in 1 .. Len(s) - 2 /\ i + 1 - 1 = (i - 1) + 1 /\ i + 2 - 1 = (i - 1) + 2
        BY <1>1, <2>2
      <3>2. ParentAt(s, i - 1)
        BY <1>1, <1>2, <3>1 DEF ParentAt
      <3> QED
        BY <3>1, <3>2 DEF NoParent
    <2> QED
      BY <2>1, <2>2
  <1>3. t \in Seq(0 .. 255) /\ NoParent(t)
    BY <1>1, <1>2 DEF NoParent
  <1> QED
    BY <1>3 DEF t

(* A spelled text is taken as a URL for what it spells.                    *)
LEMMA SpelledMeans ==
  ASSUME NEW h, NEW p \in Seq(1 .. 255), Spells(h, p)
  PROVE  /\ CompleteEscapes(h) /\ Before(h, <<QMARK>>) = h /\ Before(h, <<SP>>) = h
         /\ Meaning(h) = p
  <1>1. h \in Seq(0 .. 255) /\ \A i \in 1 .. Len(h) : h[i] # QMARK /\ h[i] # SP
    BY DEF Spells
  <1>2. QMARK \in 0 .. 255 /\ SP \in 0 .. 255 /\ NUL \in 0 .. 255
    BY DEF QMARK, SP, NUL
  <1>3. p \in Seq(0 .. 255) /\ \A i \in 1 .. Len(p) : p[i] # NUL
    <2>1. p \in Seq(0 .. 255) /\ \A i \in 1 .. Len(p) : p[i] \in 1 .. 255
      BY Wider
    <2>2. \A x \in 1 .. 255 : x # NUL
      BY SMTT(60) DEF NUL
    <2> QED
      BY <2>1, <2>2, Zenon
  <1>4. Before(p, <<NUL>>) = p
    BY <1>2, <1>3, ByteAbsent
  <1>5. Before(h, <<QMARK>>) = h
    BY <1>1, <1>2, ByteAbsent
  <1>6. Before(h, <<SP>>) = h
    BY <1>1, <1>2, ByteAbsent
  <1>7. CompleteEscapes(h) /\ Decoded(h) = p
    BY DEF Spells
  <1> QED
    BY <1>4, <1>5, <1>6, <1>7 DEF Meaning

(* A spelled text as the URL of a request leads to what it spells.         *)
LEMMA LeadsBack ==
  ASSUME UrlDecoded, url = "done", NEW p \in Seq(1 .. 255), Spells(RawUrl, p), NoParent(p)
  PROVE  CText(buf, page) = p
  <1>1. /\ CompleteEscapes(RawUrl) /\ Before(RawUrl, <<QMARK>>) = RawUrl /\ Meaning(RawUrl) = p
    BY SpelledMeans
  <1>2. RawPage = RawUrl
    BY <1>1 DEF RawPage
  <1>3. CText(buf, page) = Before(Meaning(RawPage), ParentDir)
    BY <1>1, <1>2 DEF UrlDecoded
  <1>4. Before(p, ParentDir) = p
    BY Wider, ParentAbsent
  <1> QED
    BY <1>1, <1>2, <1>3, <1>4
=============================================================================

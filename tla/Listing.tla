------------------------------ MODULE Listing -------------------------------
(***************************************************************************)
(* The page of a directory: list_dir (utils.c) and write_dir (instance.c). *)
(* list_dir prints the page piece by piece into a buffer of BUFSIZE bytes  *)
(* and stops when there is no room left; snprintf returns the length the   *)
(* piece would have had, and is given the room left as an int that becomes *)
(* a size_t.  write_dir keeps the result in an unsigned long long int.     *)
(***************************************************************************)
EXTENDS Integers, Sequences

CONSTANTS BUFSIZE,      \* MAXSCRIPTOUT
          HEADLEN, PARENTLEN, FOOTLEN,    \* lengths of the fixed pieces
          ROWMAX,       \* longest row of an entry
          LISTWORD      \* 2 to the bits of unsigned long long int

Kinds == {"file", "dir", "special", "hidden"}
Entries == [kind : Kinds, len : 1 .. ROWMAX]

(* The fixed start of a page fits in the buffer.                           *)
ASSUME BufferHoldsHead ==
  /\ {HEADLEN, PARENTLEN, FOOTLEN, ROWMAX} \subseteq Nat \ {0} /\ BUFSIZE \in Nat
  /\ HEADLEN + PARENTLEN < BUFSIZE - 1
  /\ LISTWORD \in Nat /\ BUFSIZE + ROWMAX + FOOTLEN < LISTWORD

VARIABLES lst,          \* where write_dir is
          entries,      \* what scandir returned and is still to be listed
          parent,       \* the page has a link to the parent directory
          pagesize, maxsize,     \* bytes of the page, and room left
          high,         \* first byte of the buffer no snprintf has written
          errcode,
          complete,     \* bytes of the page as it should be
          pagelen,      \* the length write_dir sends, or -1 before it
          refused       \* write_dir sent nothing: it had no memory

listVars == <<lst, entries, parent, pagesize, maxsize, high, errcode, complete, pagelen,
              refused>>

ListTypeOK ==
  /\ lst \in {"idle", "head", "rows", "foot", "send", "done"}
  /\ entries \in Seq(Entries) /\ parent \in BOOLEAN
  /\ pagesize \in Nat /\ maxsize \in Int /\ high \in Nat
  /\ errcode \in {0, -1, -2} /\ complete \in Nat
  /\ pagelen \in -1 .. LISTWORD - 1 /\ refused \in BOOLEAN

ListInit ==
  /\ lst = "idle" /\ entries = <<>> /\ parent = FALSE
  /\ pagesize = 0 /\ maxsize = 0 /\ high = 0 /\ errcode = 0
  /\ complete = 0 /\ pagelen = -1 /\ refused = FALSE

(* snprintf(html + pagesize, maxsize, ...) of len characters: at most      *)
(* maxsize bytes with the NUL, all of them when the int was negative.      *)
Written(len) == IF maxsize = 0 THEN 0
                ELSE IF maxsize < 0 \/ len + 1 <= maxsize THEN len + 1 ELSE maxsize
Higher(a, b) == IF a > b THEN a ELSE b
Snprintf(len) ==
  /\ high' = IF Written(len) = 0 THEN high ELSE Higher(high, pagesize + Written(len))
  /\ pagesize' = pagesize + len /\ maxsize' = maxsize - len

(* write_dir allocates the buffer, list_dir scans the directory.           *)
ScanDir(found, up, memory, readable) ==
  /\ lst = "idle"
  /\ entries' = found /\ parent' = up /\ refused' = ~memory
  /\ pagesize' = 0 /\ maxsize' = BUFSIZE - 1 /\ high' = 0 /\ complete' = 0 /\ pagelen' = -1
  /\ errcode' = IF readable THEN 0 ELSE -1
  /\ lst' = IF ~memory THEN "done" ELSE IF readable THEN "head" ELSE "send"

(* The head of the page and the link to the parent directory.              *)
ListHead ==
  LET len == IF parent THEN HEADLEN + PARENTLEN ELSE HEADLEN
  IN /\ lst = "head" /\ Snprintf(len)
     /\ complete' = len /\ lst' = "rows"
     /\ UNCHANGED <<entries, parent, errcode, pagelen, refused>>

(* One turn of the loop over the entries.  Hidden ones, and all once there *)
(* was no room, are skipped; what is no file and no directory has no row.  *)
Shown(e) == e.kind \in {"file", "dir"}
ListSkip ==
  /\ lst = "rows" /\ entries # <<>>
  /\ Head(entries).kind = "hidden" \/ errcode # 0
  /\ entries' = Tail(entries)
  /\ complete' = complete + (IF Shown(Head(entries)) THEN Head(entries).len ELSE 0)
  /\ UNCHANGED <<lst, parent, pagesize, maxsize, high, errcode, pagelen, refused>>

(* No room is left.                                                        *)
OutOfRoom(room) == room <= 0

(* The mutant does not stop when there is no room.                         *)
ListRowBlind ==
  /\ lst = "rows" /\ entries # <<>>
  /\ Head(entries).kind # "hidden"
  /\ IF Shown(Head(entries))
     THEN Snprintf(Head(entries).len) /\ complete' = complete + Head(entries).len
     ELSE UNCHANGED <<pagesize, maxsize, high, complete>>
  /\ entries' = Tail(entries)
  /\ errcode' = IF OutOfRoom(maxsize') THEN -2 ELSE errcode
  /\ UNCHANGED <<lst, parent, pagelen, refused>>
ListRow ==
  /\ lst = "rows" /\ entries # <<>>
  /\ Head(entries).kind # "hidden" /\ errcode = 0
  /\ IF Shown(Head(entries))
     THEN Snprintf(Head(entries).len) /\ complete' = complete + Head(entries).len
     ELSE UNCHANGED <<pagesize, maxsize, high, complete>>
  /\ entries' = Tail(entries)
  /\ errcode' = IF OutOfRoom(maxsize') THEN -2 ELSE errcode
  /\ UNCHANGED <<lst, parent, pagelen, refused>>

(* After the last entry the page is closed, unless it did not fit; the     *)
(* room is not looked at again.                                            *)
ListFoot ==
  /\ lst = "rows" /\ entries = <<>>
  /\ IF errcode = 0 THEN Snprintf(FOOTLEN) ELSE UNCHANGED <<pagesize, maxsize, high>>
  /\ complete' = complete + FOOTLEN /\ lst' = "send"
  /\ UNCHANGED <<entries, parent, errcode, pagelen, refused>>

(* write_dir: an unsigned pagelen is never negative, so the page is sent   *)
(* with whatever length it gives.                                          *)
WriteDir ==
  /\ lst = "send"
  /\ pagelen' = (IF errcode = 0 THEN pagesize ELSE errcode) % LISTWORD
  /\ lst' = "done"
  /\ UNCHANGED <<entries, parent, pagesize, maxsize, high, errcode, complete, refused>>

ListStep == ListHead \/ ListSkip \/ ListRow \/ ListFoot \/ WriteDir

ListReset ==
  /\ lst' = "idle" /\ entries' = <<>> /\ parent' = FALSE
  /\ pagesize' = 0 /\ maxsize' = 0 /\ high' = 0 /\ errcode' = 0
  /\ complete' = 0 /\ pagelen' = -1 /\ refused' = FALSE

(* Listings of any directories, one after the other.                       *)
ListNext ==
  \/ \E found \in Seq(Entries), up \in BOOLEAN, memory \in BOOLEAN, readable \in BOOLEAN :
       ScanDir(found, up, memory, readable)
  \/ ListStep
  \/ ListReset
ListSpec == ListInit /\ [][ListNext]_listVars
-----------------------------------------------------------------------------
(* list_dir never writes outside its buffer, whatever the entries: the     *)
(* room left is never passed to snprintf once it is used up, where its     *)
(* sign would be lost.                                                     *)
ListingInBuffer == high <= BUFSIZE - 1

(* The page sent is the whole page, and its declared length is what was    *)
(* printed, whenever the page fits in the buffer.  Excepted, each with the *)
(* length the code declares instead: a directory that cannot be scanned,   *)
(* one whose rows do not fit, and one whose foot alone does not fit, for   *)
(* which the full length is declared and part of the page was not printed. *)
(* The first two lengths are the error codes of list_dir in an unsigned    *)
(* variable: write_dir means to answer 404 and 507 for them, and its test  *)
(* pagelen < 0 is never true.                                              *)
ListingExact ==
  (lst = "done" /\ ~refused) =>
    \/ pagelen = complete /\ complete < BUFSIZE - 1 /\ high = complete + 1
    \/ errcode = -1 /\ pagelen = LISTWORD - 1
    \/ errcode = -2 /\ pagelen = LISTWORD - 2 /\ complete - FOOTLEN >= BUFSIZE - 1
    \/ errcode = 0 /\ pagelen = complete /\ complete >= BUFSIZE - 1
                   /\ complete - FOOTLEN < BUFSIZE - 1

(* Both: the page of a directory stays in its buffer and is as long as its *)
(* head says.                                                              *)
ListingRight == ListingInBuffer /\ ListingExact
=============================================================================

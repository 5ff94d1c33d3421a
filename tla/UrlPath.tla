------------------------------ MODULE UrlPath -------------------------------
(***************************************************************************)
(* What set_connection_props (instance.c) does with the URL of a request,  *)
(* in place in the buffer the head was read into: split_get_params cuts it *)
(* at the question mark and notes the length of the page, then modURL      *)
(* replaces the escapes of the page, ends the page at the first "../", and *)
(* replaces the escapes of the parameters.                                 *)
(***************************************************************************)
EXTENDS HeadScan

VARIABLES url,          \* where set_connection_props is
          cursor,       \* string, in replaceEscape
          page_len,     \* connection_prop->page_len
          get_params,   \* connection_prop->get_params
          raw         \* the buffer as it was before

urlVars == <<url, cursor, page_len, get_params, raw>>

ParentDir == <<DOT, DOT, SLASH>>

UrlTypeOK ==
  /\ url \in {"idle", "page", "params", "done"}
  /\ cursor \in 0 .. INBUFFER + 1 /\ page_len \in 0 .. INBUFFER
  /\ get_params \in NULL .. INBUFFER /\ raw \in [0 .. INBUFFER -> 0 .. 255]

UrlInit ==
  /\ url = "idle" /\ cursor = 0 /\ page_len = 0 /\ get_params = NULL
  /\ raw = [i \in 0 .. INBUFFER |-> NUL]

(* split_get_params ends the page at the question mark.                    *)
SplitGetParams ==
  LET separator == StrStr(buf, page, <<QMARK>>)
  IN /\ scan = "parsed" /\ url = "idle"
     /\ IF separator = NULL
        THEN get_params' = NULL /\ page_len' = StrLen(buf, page) /\ UNCHANGED buf
        ELSE /\ get_params' = separator + 1 /\ page_len' = separator - page
             /\ buf' = [buf EXCEPT ![separator] = NUL]
     /\ raw' = buf /\ cursor' = page /\ url' = "page"

(* The percent sign replaceEscape stops at next.                           *)
NextEscape == StrStr(buf, cursor, <<PERCENT>>)

(* One turn of the loop of replaceEscape; the search goes on behind the    *)
(* new character, even when that is a NUL.  The mutant looks at it again.  *)
EscapeAgain ==
  /\ url \in {"page", "params"} /\ NextEscape # NULL
  /\ buf' = Unescape(buf, NextEscape) /\ cursor' = NextEscape
  /\ UNCHANGED <<url, page_len, get_params, raw>>
Escape ==
  /\ url \in {"page", "params"} /\ NextEscape # NULL
  /\ buf' = Unescape(buf, NextEscape) /\ cursor' = NextEscape + 1
  /\ UNCHANGED <<url, page_len, get_params, raw>>

(* The page has no escape left: "../" is cut, and the parameters follow.   *)
CutParent ==
  /\ url = "page" /\ NextEscape = NULL
  /\ buf' = StrReplace(buf, page, ParentDir)
  /\ IF get_params = NULL THEN url' = "done" /\ UNCHANGED cursor
                          ELSE url' = "params" /\ cursor' = get_params
  /\ UNCHANGED <<page_len, get_params, raw>>

(* The parameters have no escape left; nothing is cut from them.           *)
ParamsDone ==
  /\ url = "params" /\ NextEscape = NULL
  /\ url' = "done"
  /\ UNCHANGED <<buf, cursor, page_len, get_params, raw>>

UrlStep ==
  /\ SplitGetParams \/ Escape \/ CutParent \/ ParamsDone
  /\ UNCHANGED <<scan, stream, stall, taken, first, bufFull, from, end, late, page,
                 http_param>>

(* The connection goes on: the next request starts over.                   *)
UrlReset == url' = "idle" /\ UNCHANGED <<cursor, page_len, get_params, raw>>

(* Heads and their URLs, on any connections one after the other.           *)
HeadNext ==
  \/ \E text \in Seq(0 .. 255), slow \in BOOLEAN : Accept(text, slow) /\ UNCHANGED urlVars
  \/ ScanStep /\ UNCHANGED urlVars
  \/ UrlStep
  \/ \E keep \in BOOLEAN : NextRequest(keep) /\ UrlReset
HeadSpec == ScanInit /\ UrlInit /\ [][HeadNext]_<<headVars, urlVars>>
-----------------------------------------------------------------------------
(* The text of a URL with its escapes replaced, all at once: the meaning   *)
(* replaceEscape is meant to have; DecodedFrom(s)[i] is what the bytes     *)
(* from the i-th on mean.  Only for complete escapes.                      *)
CompleteEscapes(s) ==
  \A i \in 1 .. Len(s) :
    s[i] = PERCENT => i + 2 <= Len(s) /\ IsHex(s[i + 1]) /\ IsHex(s[i + 2])
DecodedFrom(s) ==
  LET tail[i \in 1 .. Len(s) + 3] ==
        IF i > Len(s) THEN <<>>
        ELSE IF s[i] = PERCENT
        THEN <<16 * HexDigit(s[i + 1]) + HexDigit(s[i + 2])>> \o tail[i + 3]
        ELSE <<s[i]>> \o tail[i + 1]
  IN  tail
Decoded(s) == DecodedFrom(s)[1]

RawUrl == CText(raw, page)
RawPage == Before(RawUrl, <<QMARK>>)
RawParams == SubSeq(RawUrl, Len(RawPage) + 2, Len(RawUrl))
Meaning(s) == Before(Decoded(s), <<NUL>>)

(* The page is the part of the URL before the question mark with every     *)
(* escape replaced once, ended at the first "../", and the parameters are  *)
(* the rest with every escape replaced once: an escaped percent sign,      *)
(* question mark or dot is data, and the end of the page never reaches     *)
(* into the parameters.  Stated for URLs with complete escapes.  A page    *)
(* that ends in ".." has no "../" and stays as it is.                      *)
UrlDecoded ==
  url = "done" =>
    /\ CompleteEscapes(RawPage) => CText(buf, page) = Before(Meaning(RawPage), ParentDir)
    /\ (get_params = NULL) = (RawPage = RawUrl)
    /\ (get_params # NULL /\ CompleteEscapes(RawParams))
         => CText(buf, get_params) = Meaning(RawParams)

(* Replacing escapes in place, the incomplete ones included, never writes  *)
(* outside the URL: the header fields behind it stay as the client sent    *)
(* them, and the page still ends where it did or before.                   *)
UrlInPlace ==
  url # "idle" =>
    /\ \A i \in DOMAIN buf :
         (i < page \/ i >= page + StrLen(raw, page)) => buf[i] = raw[i]
    /\ StrLen(buf, page) <= page_len
    /\ get_params # NULL => StrLen(buf, get_params) <= Len(RawParams)

(* The length noted before the escapes were replaced is not the length of  *)
(* the page any more.                                                      *)
PageLenStale == page_len # StrLen(buf, page)

(* Both: the URL gets its meaning, and nothing around it is touched.       *)
UrlRight == UrlDecoded /\ UrlInPlace
=============================================================================

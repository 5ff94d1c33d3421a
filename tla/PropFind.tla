------------------------------ MODULE PropFind ------------------------------
(***************************************************************************)
(* A PROPFIND request: propfind, get_props and printprops (webdav.c), from *)
(* the XML of the body to the XML of the answer.  get_props cuts the body  *)
(* into the text of its properties, in place; printprops gives one         *)
(* response for the resource and, for a deep request, one for every entry. *)
(* The cache between the two is CacheDir's.                                *)
(***************************************************************************)
EXTENDS UrlPath, Encoders, FiniteSets

CONSTANTS MAXPROPCOUNT, URILEN

ASSUME PropCountPositive == MAXPROPCOUNT \in Nat \ {0} /\ URILEN \in Nat

VARIABLES pf,           \* where propfind is
          pq,           \* the request: see NoQuery
          item,         \* items of the body get_props has passed
          sprops,       \* what the strings of sprops contain: names of properties
          props, deep,  \* the details asked for
          xml,          \* the responses written
          child,        \* entries of the directory passed
          dav_code      \* the answer

propVars == <<pf, pq, item, sprops, props, deep, xml, child, dav_code>>

(* In the order in which get_props looks for them.                         *)
Chain == <<"getetag", "getcontentlength", "resourcetype", "getlastmodified", "getcontenttype">>
Known == {Chain[k] : k \in DOMAIN Chain}
Default == Known \ {"getcontenttype"}

(* body: empty, or whether both prop tags are there, and the elements      *)
(* between: a name, its form (pair: <n></n>, else <n/>), and whether there *)
(* are attributes.  open: the resource can be opened; kids: entries of the *)
(* directory.                                                              *)
NoBody == [empty |-> TRUE, tags |-> FALSE, items |-> <<>>]
Kid(name, open) == [name |-> name, open |-> open]
NoQuery == [depth |-> "none", body |-> NoBody, is |-> "missing", open |-> TRUE, kids |-> <<>>,
            listable |-> TRUE, threaded |-> TRUE]
ElementType == [name : Known \cup {"other"}, pair : BOOLEAN, blank : BOOLEAN]
KidType == [name : Seq(1 .. 255) \ {<<>>}, open : BOOLEAN]
QueryType(q) == q.body.items \in Seq(ElementType) /\ q.kids \in Seq(KidType)

PropTypeOK ==
  /\ pf \in {"idle", "depth", "split", "chain", "self", "kids", "end", "done", "crash"}
  /\ item \in 0 .. Len(pq.body.items) /\ child \in 0 .. Len(pq.kids)
  /\ Len(sprops) < MAXPROPCOUNT /\ \A i \in DOMAIN sprops : sprops[i] \subseteq Known \cup {"other"}
  /\ props \subseteq Known /\ deep \in BOOLEAN
  /\ dav_code \in {0, 207, 301, 400, 403, 404}

PropInit ==
  /\ pf = "idle" /\ pq = NoQuery /\ item = 0 /\ sprops = <<>> /\ props = {} /\ deep = FALSE
  /\ xml = <<>> /\ child = 0 /\ dav_code = 0

(* propfind up to get_props: authentication must be on, the resource must  *)
(* be there, and a directory must have been asked for with its slash.      *)
Propfind(q, authsock, strfile) ==
  LET early == IF ~authsock THEN 403
               ELSE IF q.is = "missing" THEN 404
               ELSE IF q.is = "dir" /\ strfile[Len(strfile)] # SLASH THEN 301
               ELSE 0
  IN /\ pf = "idle" /\ pq' = q /\ dav_code' = early
     /\ pf' = IF early = 0 THEN "depth" ELSE "done"
     /\ UNCHANGED <<item, sprops, props, deep, xml, child>>

(* get_props: the value of Depth has to fit in four bytes.  The body is no *)
(* string, nothing ends it: strstr looks for a tag that is missing in it   *)
(* in what the memory holds behind it, and items are then the elements     *)
(* found there.                                                            *)
Depth ==
  /\ pf = "depth"
  /\ deep' = (pq.depth = "1")
  /\ \/ pq.body.empty /\ props' = Default /\ pf' = "self" /\ UNCHANGED dav_code
     \/ ~pq.body.empty /\ pf' = "split" /\ UNCHANGED <<props, dav_code>>
     \/ ~pq.body.empty /\ ~pq.body.tags /\ pf' = "done" /\ dav_code' = 400 /\ UNCHANGED props
  /\ UNCHANGED <<pq, item, sprops, xml, child>>

(* One turn of its loop: from the next < to the next />, which may belong  *)
(* to a later element, cut at the first blank.  The mutant stops one       *)
(* property early.                                                         *)
Elements == pq.body.items
Closed(k) == {j \in k .. Len(Elements) : ~Elements[j].pair}
Lowest(S) == CHOOSE j \in S : \A k \in S : j <= k
LimitEarly == Len(sprops) = MAXPROPCOUNT - 2
Limit == Len(sprops) = MAXPROPCOUNT - 1
SplitProp ==
  LET from_ == item + 1
      last == Lowest(Closed(from_))
      blanks == {j \in from_ .. last : Elements[j].blank}
      upto == IF blanks = {} THEN last ELSE Lowest(blanks)
  IN /\ pf = "split" /\ item < Len(Elements) /\ ~Limit /\ Closed(from_) # {}
     /\ sprops' = Append(sprops, {Elements[j].name : j \in from_ .. upto})
     /\ item' = last
     /\ UNCHANGED <<pf, pq, props, deep, xml, child, dav_code>>
SplitFails ==
  /\ pf = "split" /\ item < Len(Elements) /\ ~Limit /\ Closed(item + 1) = {}
  /\ pf' = "done" /\ dav_code' = 400
  /\ UNCHANGED <<pq, item, sprops, props, deep, xml, child>>

(* No < is left, or the limit is reached.  Of the names a string contains, *)
(* the first in the chain of comparisons counts.                           *)
Named(text) == {k \in DOMAIN Chain : Chain[k] \in text}
SplitDone ==
  /\ pf = "split" /\ (item = Len(Elements) \/ Limit)
  /\ pf' = "self"
  /\ props' = {Chain[Lowest(Named(sprops[i]))] : i \in {k \in DOMAIN sprops : Named(sprops[k]) # {}}}
  /\ UNCHANGED <<pq, item, sprops, deep, xml, child, dav_code>>

(* printprops of a file that can be opened; without a thread's data the    *)
(* type of the file cannot be found.                                       *)
Crashes == "getcontenttype" \in props /\ ~pq.threaded
Response(href, path) == [href |-> href, path |-> path, props |-> props]

(* What the buffer for the escaped page may hold: escape_uri writes        *)
(* nothing for an empty one, and the buffer was not initialized.           *)
Text == CText(buf, page)
EscapedPage == IF Text = <<>> THEN {<<>>, <<QMARK>>} ELSE {EscapeUri(Text, URILEN)}

(* The header, and the resource itself under its page; printprops writes   *)
(* nothing about what it cannot open.                                      *)
PrintSelf ==
  /\ pf = "self" /\ dav_code' = 207
  /\ IF pq.open /\ Crashes THEN pf' = "crash" /\ UNCHANGED xml
     ELSE /\ IF pq.open THEN \E href \in EscapedPage : xml' = Append(xml, Response(href, Text))
                        ELSE UNCHANGED xml
          /\ pf' = IF ~deep THEN "end" ELSE IF pq.is = "dir" /\ pq.listable THEN "kids" ELSE "done"
  /\ UNCHANGED <<pq, item, sprops, props, deep, child>>

(* One entry of the directory: hidden ones are left out, and what cannot   *)
(* be opened (HIDE_HIDDEN_FILES).                                          *)
Hidden(name) == name[1] = DOT
PrintChild ==
  LET kid == pq.kids[child + 1]
  IN /\ pf = "kids" /\ child < Len(pq.kids)
     /\ child' = child + 1
     /\ IF Hidden(kid.name) \/ ~kid.open THEN UNCHANGED <<xml, pf>>
        ELSE IF Crashes THEN pf' = "crash" /\ UNCHANGED xml
        ELSE /\ \E href \in EscapedPage :
                  xml' = Append(xml, Response(href \o EscapeUri(kid.name, URILEN), Text \o kid.name))
             /\ UNCHANGED pf
     /\ UNCHANGED <<pq, item, sprops, props, deep, dav_code>>
PrintEnd ==
  /\ pf = "end" \/ (pf = "kids" /\ child = Len(pq.kids))
  /\ pf' = "done"
  /\ UNCHANGED <<pq, item, sprops, props, deep, xml, child, dav_code>>

PropStep == Depth \/ SplitProp \/ SplitFails \/ SplitDone \/ PrintSelf \/ PrintChild \/ PrintEnd

PropReset ==
  /\ pf' = "idle" /\ pq' = NoQuery /\ item' = 0 /\ sprops' = <<>> /\ props' = {} /\ deep' = FALSE
  /\ xml' = <<>> /\ child' = 0 /\ dav_code' = 0
-----------------------------------------------------------------------------
Asked == {Elements[k].name : k \in DOMAIN Elements}

(* What an answer tells is what the body asked for: never a property it    *)
(* does not name, and all it names that the server knows, when it has      *)
(* fewer than MAXPROPCOUNT elements and each is written <name/>.  Excepted *)
(* are elements written <name></name>: the text up to the next /> counts   *)
(* as one, and one property of it is found; and bodies without both tags,  *)
(* which should be refused and are completed by whatever lies behind them. *)
PropsAsAsked ==
  (pf \in {"self", "kids", "end", "done"} /\ dav_code \in {0, 207}) =>
    IF pq.body.empty THEN props = Default
    ELSE pq.body.tags =>
         /\ props \subseteq Asked
         /\ (Len(Elements) < MAXPROPCOUNT /\ \A k \in DOMAIN Elements : ~Elements[k].pair)
              => props = Asked \cap Known

(* A finished answer to a deep request has one response for the directory  *)
(* and one for each visible entry, in its order; to any other, one for the *)
(* resource; and none for what cannot be opened, the resource included: an *)
(* answer may be empty, and still has the code of a success.  Excepted:    *)
(* the directory cannot be listed, when the answer ends behind the first.  *)
Visible(n) == {k \in 1 .. n : pq.kids[k].open /\ pq.kids[k].name[1] # DOT}
Own == IF pq.open THEN 1 ELSE 0
Covers(n) ==
  /\ Len(xml) = Own + Cardinality(Visible(n)) /\ (pq.open => xml[1].path = Text)
  /\ \A k \in Visible(n) : xml[Own + Cardinality(Visible(k))].path = Text \o pq.kids[k].name
Listed == IF deep /\ pq.is = "dir" /\ pq.listable THEN Len(pq.kids) ELSE 0
AnswerLists == (pf = "done" /\ dav_code = 207) => Covers(Listed)

(* Asking for an href of the answer leads to the resource it describes:    *)
(* what UrlPath makes of the href (UrlDecoded) is the path.  Excepted:     *)
(* names with bytes above 127, which sprintf prints with the sign of char; *)
(* texts that are cut off at URILEN; what contains "../"; and an empty     *)
(* page, below a base directory that ends in a slash.                      *)
HrefsLeadBack ==
  \A i \in DOMAIN xml : Text # <<>> =>
    LET r == xml[i]
    IN  \/ \E k \in DOMAIN r.path : r.path[k] > 127
        \/ 3 * Len(r.path) + 4 > URILEN
        \/ Before(r.path, ParentDir) # r.path
        \/ /\ CompleteEscapes(r.href) /\ Before(r.href, <<QMARK>>) = r.href
           /\ Before(r.href, <<SP>>) = r.href
           /\ Before(Meaning(r.href), ParentDir) = r.path

(* Both: an answer tells what was asked, about everything there is.        *)
AnswerRight == PropsAsAsked /\ AnswerLists
=============================================================================

------------------------ MODULE HttpConnectionProofs ------------------------
(***************************************************************************)
(* What a connection promises, for every set of requests, any number of    *)
(* them, all sizes and every combination of switches and faults: it gives  *)
(* back what it took, answers every request, goes on only from the end of  *)
(* a whole response, and, with clients that send bodies where the server   *)
(* reads them, never takes a body for a request; each but for the faults   *)
(* and the exceptions its property names.                                  *)
(***************************************************************************)
EXTENDS HttpConnection, SequenceTheorems, TLAPS

Units == Requests \cup {Body}

(* Places before the handler has answered, and those of one request.       *)
Early == {"read", "bad_request", "auth", "dispatch", "discard", "post", "handle", "put"}
InRequest == {"auth", "dispatch", "discard", "post", "handle", "put"}

Codes == {"none", "200", "201", "204", "207", "301", "303", "304", "page"}
Fates == {"short", "nomem", "list", "dropped"}

Types ==
  /\ authsock \in BOOLEAN /\ gone \in BOOLEAN
  /\ wire \in Seq(Units) /\ unsent \in Nat
  /\ pc \in Early \cup {"escape", "done", "closed"}
  /\ req \in Requests /\ keep_alive \in BOOLEAN /\ left \in Nat
  /\ strfile_fd \in {"garbage", "none", "open", "stale"}
  /\ unread \in BOOLEAN /\ deaf \in BOOLEAN

(* Who owns the body and the file, and what was released.                  *)
Ownership ==
  /\ left > 0 => pc \in {"post", "discard", "put"}
  /\ pc = "put" => req.method = "PUT"
  /\ pc = "post" => ReadsPost
  /\ post => ReadsPost /\ pc \in {"post", "handle", "escape"}
  /\ strfile_fd = "open" => pc \in {"handle", "escape"} /\ req.method \in {"GET", "POST"}
  /\ pc = "escape" /\ ClosesFd /\ strfile_fd # "open" => retval = "ERR_NOAUTH"
  /\ lost \subseteq {"auth"} /\ badclose \subseteq {"ERR_NOAUTH"}

(* The response by the time it has come to.                                *)
Silent == /\ heads = 0 /\ declared = None /\ connection = None /\ content = 0
          /\ told = "none" /\ hit = {} /\ retval = "0"

Framed == /\ content = IF declared = None THEN 0 ELSE declared
          /\ declared = None => told \in {"204", "304"} \/ LengthForgotten

Agreed == /\ heads > 0 /\ "nomem" \notin hit
          /\ req.version = "1.1" \/ told # "page"
          => (keep_alive <=> ClientExpectsMore)

(* send_page at its escape: nothing was sent and an error is to be told,   *)
(* one head was sent, there was no memory, or a refusal was dropped.       *)
Unanswered == /\ heads = 0 /\ retval # "0"
              /\ content = 0 /\ declared = None /\ connection = None /\ told = "none"
              /\ keep_alive = WantsKeepAlive(req)

Answered == /\ heads = 1 /\ retval \notin {"OK_CREATED", "OK_NOCONTENT"}
            /\ keep_alive /\ hit = {} => retval = "0" /\ Framed
            /\ told = "page" => retval = "0"
            /\ Agreed

Excused == "nomem" \in hit \/ ("dropped" \in hit /\ heads = 0 /\ retval = "0")

Response ==
  /\ declared \in {None, Wrapped, 0, FILE} /\ content \in 0 .. 2 * FILE
  /\ told \in Codes /\ hit \subseteq Fates
  /\ pc \in Early => Silent
  /\ pc \in InRequest => keep_alive = WantsKeepAlive(req)
  /\ pc = "escape" => content \in 0 .. FILE /\ (Unanswered \/ Answered \/ Excused)
  /\ pc = "done" => Agreed /\ (keep_alive /\ hit = {} => heads = 1 /\ Framed)

HttpInv == Types /\ Ownership /\ Response
-----------------------------------------------------------------------------
LEMMA InitInv == Init => HttpInv
<1> SUFFICES ASSUME Init
             PROVE  HttpInv
  OBVIOUS
<1>1. req \in Requests  BY RequestsTyped DEF Init
<1>2. Types
  <2>1. authsock \in BOOLEAN  BY SwitchesBoolean DEF Init
  <2>2. wire \in Seq(Units)  BY EmptySeq DEF Init
  <2> QED  BY <1>1, <2>1, <2>2 DEF Init, Types, Early
<1>3. Ownership  BY DEF Init, Ownership
<1>4. Response
  <2>1. content \in 0 .. 2 * FILE  BY SizesNat DEF Init
  <2> QED  BY <2>1 DEF Init, Response, Silent, Early, InRequest, Codes, Fates
<1> QED  BY <1>2, <1>3, <1>4 DEF HttpInv

(* The units of the stream.                                                *)
LEMMA StreamUnits ==
  ASSUME Types, wire # <<>>
  PROVE  /\ Head(wire) \in Units /\ Tail(wire) \in Seq(Units)
         /\ Len(wire) \in Nat \ {0} /\ Len(Tail(wire)) = Len(wire) - 1
         /\ Head(wire) = wire[1]
         /\ \A k \in 1 .. Len(wire) - 1 : Tail(wire)[k] = wire[k + 1]
<1>1. wire \in Seq(Units)  BY DEF Types
<1> QED  BY <1>1, HeadTailProperties, EmptySeq

LEMMA LengthInt == \A r \in Requests : r.length \in Int
  BY RequestsTyped DEF RequestType

LEMMA ClientTypes == HttpInv /\ Client => HttpInv'
<1> SUFFICES ASSUME HttpInv, Client
             PROVE  HttpInv'
  OBVIOUS
<1> USE DEF owned, response
<1>0. Types /\ Ownership /\ Response  BY DEF HttpInv
<1>1. /\ UNCHANGED <<authsock, pc, req, keep_alive, left, owned, retval, response>>
      /\ wire' \in Seq(Units) /\ unsent' \in Nat /\ gone' \in BOOLEAN /\ deaf' \in BOOLEAN
  <2>1. ASSUME NEW u \in Units
        PROVE  Append(wire, u) \in Seq(Units)
    BY <1>0, AppendProperties DEF Types
  <2>2. ASSUME NEW r \in Requests, ClientAsks(r)
        PROVE  wire' \in Seq(Units) /\ unsent' \in Nat /\ gone' = gone /\ deaf' = deaf
    BY <2>1, <2>2, LengthInt DEF ClientAsks, Units
  <2>3. CASE ClientSendsBody  BY <1>0, <2>1, <2>3 DEF ClientSendsBody, Units, Types
  <2>4. CASE ClientGone  BY <1>0, <2>4 DEF ClientGone, Types
  <2>5. CASE ClientStopsReading  BY <1>0, <2>5 DEF ClientStopsReading, Types
  <2> QED
    BY <1>0, <2>2, <2>3, <2>4, <2>5
       DEF Client, ClientAsks, ClientSendsBody, ClientGone, ClientStopsReading, Types
<1>2. Types'  BY <1>0, <1>1 DEF Types
<1>3. Ownership'  BY <1>0, <1>1 DEF Ownership, ReadsPost, ClosesFd
<1>4. Response'
  BY <1>0, <1>1
     DEF Response, Silent, Unanswered, Answered, Excused, Framed, LengthForgotten, Agreed,
         ClientExpectsMore, WantsKeepAlive
<1> QED  BY <1>2, <1>3, <1>4 DEF HttpInv
-----------------------------------------------------------------------------
LEMMA ServerTypes == HttpInv /\ Server => Types'
<1> SUFFICES ASSUME HttpInv, Server
             PROVE  Types'
  OBVIOUS
<1> USE DEF client, owned, response, Go, Result, CleanUp, HeaderSent, SendHttpHeader,
           SendPage, PageNotSent
<1>0. Types /\ req.length \in Int  BY LengthInt DEF HttpInv, Types
<1> USE DEF Types, Early
<1>1. CASE ReadRequest  BY <1>0, <1>1, StreamUnits DEF ReadRequest, Units, WantsKeepAlive
<1>2. CASE ReadBadRequest  BY <1>0, <1>2, StreamUnits DEF ReadBadRequest
<1>3. CASE BadRequest  BY <1>0, <1>3 DEF BadRequest
<1>4. CASE ReadEnds  BY <1>0, <1>4 DEF ReadEnds
<1>5. CASE Authorized  BY <1>0, <1>5 DEF Authorized
<1>6. CASE Refused  BY <1>0, <1>6 DEF Refused, ReadPostData, Fits
<1>7. CASE Discarded  BY <1>0, <1>7 DEF Discarded
<1>8. CASE StartPost  BY <1>0, <1>8 DEF StartPost, ReadPostData, Fits
<1>9. CASE NoPost  BY <1>0, <1>9 DEF NoPost
<1>10. CASE ReadBody  BY <1>0, <1>10, StreamUnits DEF ReadBody
<1>11. CASE PostRead  BY <1>0, <1>11 DEF PostRead
<1>12. CASE OpenFails  BY <1>0, <1>12 DEF OpenFails, Serves, Handling
<1>13. CASE OpenFile  BY <1>0, <1>13 DEF OpenFile, Serves, Handling
<1>14. CASE Redirect  BY <1>0, <1>14 DEF Redirect, SendHeaderOnly, Opened, Serves, Handling
<1>15. CASE NotModified  BY <1>0, <1>15 DEF NotModified, SendHeaderOnly, Opened, Serves, Handling
<1>16. CASE SendFile  BY <1>0, <1>16 DEF SendFile, Opened, Serves, Handling
<1>17. CASE SendFileShort  BY <1>0, <1>17 DEF SendFileShort, Opened, Serves, Handling
<1>18. CASE SendFileNoMemory  BY <1>0, <1>18 DEF SendFileNoMemory, Opened, Serves, Handling
<1>19. CASE ContentRefused  BY <1>0, <1>19 DEF ContentRefused, Opened, Serves, Handling
<1>20. CASE SendTar  BY <1>0, <1>20 DEF SendTar, Opened, Serves, Handling, SendUnsized
<1>21. CASE SendTarNoMemory  BY <1>0, <1>21 DEF SendTarNoMemory, Opened, Serves, Handling
<1>22. CASE ExecPage  BY <1>0, <1>22 DEF ExecPage, Opened, Serves, Handling, SendUnsized
<1>23. CASE ExecPageFails  BY <1>0, <1>23 DEF ExecPageFails, Opened, Serves, Handling
<1>24. CASE PutRefused  BY <1>0, <1>24 DEF PutRefused, Handling
<1>25. CASE PutStarts  BY <1>0, <1>25 DEF PutStarts, Handling
<1>26. CASE PutReads  BY <1>0, <1>26, StreamUnits DEF PutReads
<1>27. CASE PutReadsNothing  BY <1>0, <1>27 DEF PutReadsNothing, vars
<1>28. CASE PutWriteFails  BY <1>0, <1>28, StreamUnits DEF PutWriteFails
<1>29. CASE PutDone  BY <1>0, <1>29 DEF PutDone
<1>30. CASE DeleteFile  BY <1>0, <1>30 DEF DeleteFile, Handling, Answers
<1>31. CASE MkCol  BY <1>0, <1>31 DEF MkCol, Handling, Answers
<1>32. CASE CopyMove  BY <1>0, <1>32 DEF CopyMove, Handling, Answers
<1>33. CASE Options  BY <1>0, <1>33 DEF Options, SendHeaderOnly, Handling
<1>34. CASE PropfindRefused  BY <1>0, <1>34 DEF PropfindRefused, Handling
<1>35. CASE PropfindRedirect  BY <1>0, <1>35 DEF PropfindRedirect, SendHeaderOnly, Handling
<1>36. CASE PropfindLists  BY <1>0, <1>36 DEF PropfindLists, Handling, SendUnsized
<1>37. CASE Escape  BY <1>0, <1>37 DEF Escape
<1>38. CASE EscapeFails  BY <1>0, <1>38 DEF EscapeFails
<1>39. CASE Done  BY <1>0, <1>39 DEF Done
<1>40. CASE ListingFails  BY <1>0, <1>40 DEF ListingFails, Opened, Serves, Handling
<1>41. CASE RefusalDropped  BY <1>0, <1>41 DEF RefusalDropped, Opened, Serves, Handling
<1> QED
  BY <1>1, <1>2, <1>3, <1>4, <1>5, <1>6, <1>7, <1>8, <1>9, <1>10, <1>11, <1>12, <1>13,
     <1>14, <1>15, <1>16, <1>17, <1>18, <1>19, <1>20, <1>21, <1>22, <1>23, <1>24, <1>25,
     <1>26, <1>27, <1>28, <1>29, <1>30, <1>31, <1>32, <1>33, <1>34, <1>35, <1>36, <1>37,
     <1>38, <1>39, <1>40, <1>41
     DEF Server, Get, Put

LEMMA ServerOwnership == HttpInv /\ Server => Ownership'
<1> SUFFICES ASSUME HttpInv, Server
             PROVE  Ownership'
  OBVIOUS
<1> USE DEF client, owned, response, Go, Result, HeaderSent, SendHttpHeader, SendPage,
           PageNotSent
<1>0. Types /\ Ownership  BY DEF HttpInv
<1> USE DEF Types, Ownership, ReadsPost, ClosesFd, Early
<1>1. CASE ReadRequest  BY <1>0, <1>1 DEF ReadRequest
<1>2. CASE ReadBadRequest  BY <1>0, <1>2 DEF ReadBadRequest
<1>3. CASE BadRequest  BY <1>0, <1>3 DEF BadRequest
<1>4. CASE ReadEnds  BY <1>0, <1>4 DEF ReadEnds
<1>5. CASE Authorized  BY <1>0, <1>5 DEF Authorized
<1>6. CASE Refused  BY <1>0, <1>6 DEF Refused, ReadPostData
<1>7. CASE Discarded  BY <1>0, <1>7 DEF Discarded
<1>8. CASE StartPost  BY <1>0, <1>8 DEF StartPost, ReadPostData
<1>9. CASE NoPost  BY <1>0, <1>9 DEF NoPost
<1>10. CASE ReadBody  BY <1>0, <1>10 DEF ReadBody
<1>11. CASE PostRead  BY <1>0, <1>11 DEF PostRead
<1>12. CASE OpenFails  BY <1>0, <1>12 DEF OpenFails, Serves, Handling
<1>13. CASE OpenFile  BY <1>0, <1>13 DEF OpenFile, Serves, Handling
<1>14. CASE Redirect  BY <1>0, <1>14 DEF Redirect, SendHeaderOnly, Opened, Serves, Handling
<1>15. CASE NotModified  BY <1>0, <1>15 DEF NotModified, SendHeaderOnly, Opened, Serves, Handling
<1>16. CASE SendFile  BY <1>0, <1>16 DEF SendFile, Opened, Serves, Handling
<1>17. CASE SendFileShort  BY <1>0, <1>17 DEF SendFileShort, Opened, Serves, Handling
<1>18. CASE SendFileNoMemory  BY <1>0, <1>18 DEF SendFileNoMemory, Opened, Serves, Handling
<1>19. CASE ContentRefused  BY <1>0, <1>19 DEF ContentRefused, Opened, Serves, Handling
<1>20. CASE SendTar
  <2>1. Opened /\ \E r \in {"0", "ERR_BRKPIPE", "ERR_NOMEM"} : SendUnsized("200", r)
    BY <1>20 DEF SendTar
  <2> QED  BY <1>0, <2>1 DEF Opened, Serves, Handling, SendUnsized
<1>21. CASE SendTarNoMemory  BY <1>0, <1>21 DEF SendTarNoMemory, Opened, Serves, Handling
<1>22. CASE ExecPage  BY <1>0, <1>22 DEF ExecPage, Opened, Serves, Handling, SendUnsized
<1>23. CASE ExecPageFails  BY <1>0, <1>23 DEF ExecPageFails, Opened, Serves, Handling
<1>24. CASE PutRefused  BY <1>0, <1>24 DEF PutRefused, Handling
<1>25. CASE PutStarts  BY <1>0, <1>25 DEF PutStarts, Handling
<1>26. CASE PutReads  BY <1>0, <1>26 DEF PutReads
<1>27. CASE PutReadsNothing  BY <1>0, <1>27 DEF PutReadsNothing, vars
<1>28. CASE PutWriteFails  BY <1>0, <1>28 DEF PutWriteFails
<1>29. CASE PutDone  BY <1>0, <1>29 DEF PutDone
<1>30. CASE DeleteFile  BY <1>0, <1>30 DEF DeleteFile, Handling, Answers
<1>31. CASE MkCol  BY <1>0, <1>31 DEF MkCol, Handling, Answers
<1>32. CASE CopyMove  BY <1>0, <1>32 DEF CopyMove, Handling, Answers
<1>33. CASE Options  BY <1>0, <1>33 DEF Options, SendHeaderOnly, Handling
<1>34. CASE PropfindRefused  BY <1>0, <1>34 DEF PropfindRefused, Handling
<1>35. CASE PropfindRedirect  BY <1>0, <1>35 DEF PropfindRedirect, SendHeaderOnly, Handling
<1>36. CASE PropfindLists  BY <1>0, <1>36 DEF PropfindLists, Handling, SendUnsized
<1>37. CASE Escape  BY <1>0, <1>37 DEF Escape, CleanUp, ClosedWrongly
<1>38. CASE EscapeFails  BY <1>0, <1>38 DEF EscapeFails, CleanUp, ClosedWrongly
<1>39. CASE Done  BY <1>0, <1>39 DEF Done
<1>40. CASE ListingFails  BY <1>0, <1>40 DEF ListingFails, Opened, Serves, Handling
<1>41. CASE RefusalDropped  BY <1>0, <1>41 DEF RefusalDropped, Opened, Serves, Handling
<1> QED
  BY <1>1, <1>2, <1>3, <1>4, <1>5, <1>6, <1>7, <1>8, <1>9, <1>10, <1>11, <1>12, <1>13,
     <1>14, <1>15, <1>16, <1>17, <1>18, <1>19, <1>20, <1>21, <1>22, <1>23, <1>24, <1>25,
     <1>26, <1>27, <1>28, <1>29, <1>30, <1>31, <1>32, <1>33, <1>34, <1>35, <1>36, <1>37,
     <1>38, <1>39, <1>40, <1>41
     DEF Server, Get, Put

(* send_http_header tells the client what the server will do.              *)
LEMMA HeaderAgrees ==
  ASSUME Types, Types', NEW code, NEW size, HeaderSent(code, size, keep_alive'), req' = req,
         keep_alive' => WantsKeepAlive(req)
  PROVE  Agreed'
<1>1. req.version \in {"1.0", "1.1"}  BY RequestsTyped DEF Types, RequestType
<1>2. connection' = IF req.version # "1.1" /\ keep_alive' THEN "keep-alive"
                    ELSE IF req.version = "1.1" /\ ~keep_alive' THEN "close" ELSE None
  BY DEF HeaderSent
<1>3. WantsKeepAlive(req)' = WantsKeepAlive(req)  BY DEF WantsKeepAlive
<1> QED  BY <1>1, <1>2, <1>3, Fresh DEF Agreed, ClientExpectsMore

LEMMA ServerResponse == HttpInv /\ Server /\ Types' => Response'
<1> SUFFICES ASSUME HttpInv, Server, Types'
             PROVE  Response'
  OBVIOUS
<1>0. /\ Types /\ Response /\ FILE \in Nat \ {0}
      /\ WantsKeepAlive(req) \in BOOLEAN
  BY SizesNat DEF HttpInv, WantsKeepAlive
<1> USE DEF client, owned, response, Go
(* Nothing is said yet.                                                    *)
<1>1. ASSUME pc \in Early, pc' \in Early \cup {"closed"}, UNCHANGED <<retval, response>>,
             pc' \in InRequest => keep_alive' = WantsKeepAlive(req')
      PROVE  Response'
  BY <1>0, <1>1 DEF Response, Silent, Early
<1>2. ASSUME pc \in InRequest, pc' \in InRequest,
             UNCHANGED <<retval, response, keep_alive, req>>
      PROVE  Response'
  BY <1>0, <1>1, <1>2 DEF Response, WantsKeepAlive, InRequest, Early
<1>3. CASE ReadRequest
  BY <1>0, <1>1, <1>3 DEF ReadRequest, Early
<1>4. CASE ReadBadRequest \/ BadRequest \/ ReadEnds
  BY <1>1, <1>4 DEF ReadBadRequest, BadRequest, ReadEnds, Early, InRequest
<1>5. CASE \/ Authorized \/ Refused \/ StartPost \/ NoPost \/ ReadBody \/ PostRead
           \/ OpenFile \/ PutStarts \/ PutReads \/ PutReadsNothing
  BY <1>2, <1>5
     DEF Authorized, Refused, StartPost, NoPost, ReadBody, PostRead, OpenFile, PutStarts, PutReads,
         PutReadsNothing, Serves, Handling, InRequest, vars
(* The handler leaves the answer to send_error_header.                     *)
<1>6. ASSUME pc \in InRequest, pc' = "escape", retval' # "0",
             UNCHANGED <<response, keep_alive, req>>
      PROVE  Response'
  <2>1. /\ Silent /\ keep_alive = WantsKeepAlive(req)
        /\ WantsKeepAlive(req)' = WantsKeepAlive(req)
    BY <1>0, <1>6 DEF Response, Early, InRequest, WantsKeepAlive
  <2>2. Unanswered'  BY <1>6, <2>1 DEF Silent, Unanswered
  <2>3. content' \in 0 .. FILE /\ content' \in 0 .. 2 * FILE /\ declared' = None
    BY <1>0, <1>6, <2>1 DEF Silent
  <2>4. told' \in Codes /\ hit' \subseteq Fates  BY <1>0, <1>6 DEF Response
  <2> QED  BY <1>0, <1>6, <2>2, <2>3, <2>4 DEF Response, Early, InRequest
<1>7. CASE \/ Discarded \/ OpenFails \/ ContentRefused \/ PutRefused \/ PutWriteFails \/ PutDone
           \/ DeleteFile \/ MkCol \/ CopyMove \/ PropfindRefused
  <2>1. pc' = "escape" /\ retval' # "0"
    BY <1>7
       DEF Discarded, OpenFails, ContentRefused, PutRefused, PutWriteFails, PutDone, DeleteFile,
           MkCol, CopyMove, PropfindRefused, Answers, Result
  <2>2. pc \in InRequest /\ UNCHANGED <<response, keep_alive, req>>
    BY <1>7
       DEF Discarded, OpenFails, ContentRefused, PutRefused, PutWriteFails, PutDone, DeleteFile,
           MkCol, CopyMove, PropfindRefused, Answers, Opened, Serves, Handling, InRequest
  <2> QED  BY <1>6, <2>1, <2>2
(* There was no memory, or a refusal was dropped.                          *)
<1>e. ASSUME pc \in InRequest, pc' = "escape", UNCHANGED <<declared, told>>,
             content' \in 0 .. FILE, hit' \subseteq Fates, Excused'
      PROVE  Response'
  <2>1. content' \in 0 .. 2 * FILE  BY <1>0, <1>e
  <2>2. declared' \in {None, Wrapped, 0, FILE} /\ told' \in Codes  BY <1>0, <1>e DEF Response
  <2> QED  BY <1>e, <2>1, <2>2 DEF Response, Early, InRequest
(* It has sent its header, and the content with it.                        *)
<1>8. ASSUME pc \in InRequest, pc' = "escape", req' = req,
             NEW code \in Codes \ {"page"}, NEW size \in {None, Wrapped, 0, FILE},
             NEW after \in SUBSET Fates, SendHttpHeader(code, size, keep_alive', after),
             keep_alive' = keep_alive \/ keep_alive' = FALSE,
             content' \in 0 .. FILE,
             retval' \notin {"OK_CREATED", "OK_NOCONTENT"},
             keep_alive' /\ after = {} =>
                /\ retval' = "0" /\ content' = IF size = None THEN 0 ELSE size
                /\ size = None => \/ code = "304"
                                  \/ code = "200" /\ req.method = "OPTIONS"
                                  \/ code = "301" /\ req.method = "PROPFIND"
      PROVE  Response'
  <2>1. Silent /\ keep_alive = WantsKeepAlive(req)
    BY <1>0, <1>8 DEF Response, Early, InRequest
  <2>2. CASE HeaderSent(code, size, keep_alive') /\ hit' = hit \cup after
    <3>1. Agreed'  BY <1>0, <1>8, <2>1, <2>2, HeaderAgrees
    <3>2. /\ heads' = 1 /\ told' = code /\ (keep_alive' => declared' = size)
          /\ declared' \in {None, Wrapped, 0, FILE} /\ hit' = after
      BY <1>8, <2>1, <2>2 DEF HeaderSent, Silent
    <3>3. Answered'  BY <1>8, <3>1, <3>2 DEF Answered, Framed, LengthForgotten
    <3>4. content' \in 0 .. 2 * FILE  BY <1>0, <1>8
    <3> QED  BY <1>8, <3>2, <3>3, <3>4 DEF Response, Early, InRequest
  <2>3. CASE /\ hit' = hit \cup after \cup {"nomem"}
             /\ UNCHANGED <<heads, declared, connection, told>>
    BY <1>8, <1>e, <2>1, <2>3 DEF Excused, Fates, Silent
  <2> QED  BY <1>8, <2>2, <2>3 DEF SendHttpHeader
<1>9. ASSUME pc \in InRequest
      PROVE  content = 0 /\ hit = {} /\ heads = 0
  BY <1>0, <1>9 DEF Response, Silent, Early, InRequest
<1>a. ASSUME pc \in InRequest, NEW code \in {"200", "301", "303", "304"}, NEW size \in {None, 0},
             SendHeaderOnly(code, size),
             size = None => \/ code = "304"
                            \/ code = "200" /\ req.method = "OPTIONS"
                            \/ code = "301" /\ req.method = "PROPFIND"
      PROVE  Response'
  <2>1. /\ pc' = "escape" /\ retval' = "0" /\ req' = req /\ keep_alive' = keep_alive
        /\ content' = 0 /\ SendHttpHeader(code, size, keep_alive', {})
    BY <1>9, <1>a DEF SendHeaderOnly, Result, SendHttpHeader, HeaderSent
  <2>2. content' \in 0 .. FILE /\ code \in Codes \ {"page"} /\ {} \in SUBSET Fates
    BY <1>0, <2>1 DEF Codes
  <2> QED  BY <1>8, <1>a, <2>1, <2>2
<1>10. CASE Redirect
  BY <1>a, <1>10, Fresh DEF Redirect, Opened, Serves, Handling, InRequest
<1>11. CASE NotModified
  BY <1>a, <1>11 DEF NotModified, Opened, Serves, Handling, InRequest
<1>b. ASSUME Opened, NEW size \in {Wrapped, FILE}, NEW after \in SUBSET Fates,
             SendHttpHeader("200", size, keep_alive, after), UNCHANGED <<req, keep_alive>>,
             pc' = "escape", content' \in 0 .. FILE,
             retval' \in {"0", "ERR_NOMEM"}, after = {} => retval' = "0" /\ content' = size
      PROVE  Response'
  <2>1. pc \in InRequest /\ size # None /\ "200" \in Codes \ {"page"}
        /\ SendHttpHeader("200", size, keep_alive', after)
    BY <1>b, Fresh DEF Opened, Serves, Handling, InRequest, Codes, SendHttpHeader, HeaderSent
  <2> QED  BY <1>8, <1>b, <2>1
<1>12. CASE SendFile
  BY <1>0, <1>b, <1>12 DEF SendFile, Result
<1>13. CASE SendFileShort
  BY <1>0, <1>b, <1>13 DEF SendFileShort, Result, Fates
<1>c. CASE ListingFails
  <2>1. content' = 0  BY <1>9, <1>c DEF ListingFails, Opened, Serves, Handling, InRequest
  <2> QED  BY <1>0, <1>b, <1>c, <2>1 DEF ListingFails, Result, Fates
<1>14. CASE SendFileNoMemory
  <2>1. content' = 0  BY <1>9, <1>14 DEF SendFileNoMemory, Opened, Serves, Handling, InRequest
  <2> QED  BY <1>0, <1>b, <1>14, <2>1 DEF SendFileNoMemory, Result, Fates
<1>d. CASE RefusalDropped
  <2>1. /\ pc = "handle" /\ pc' = "escape" /\ retval' = "0" /\ hit' = hit \cup {"dropped"}
        /\ UNCHANGED <<heads, declared, content, told>>
    BY <1>d DEF RefusalDropped, Opened, Serves, Handling, Result
  <2>2. content = 0 /\ hit = {} /\ heads = 0  BY <1>9, <2>1 DEF InRequest
  <2>3. Excused'  BY <2>1, <2>2 DEF Excused
  <2>4. content' \in 0 .. FILE /\ hit' \subseteq Fates /\ pc \in InRequest
    BY <1>0, <2>1, <2>2 DEF Fates, InRequest
  <2> QED  BY <1>e, <2>1, <2>3, <2>4
<1>15. CASE Options
  BY <1>a, <1>15 DEF Options, Handling, InRequest
<1>16. CASE PropfindRedirect
  BY <1>a, <1>16 DEF PropfindRedirect, Handling, InRequest
<1>17. ASSUME pc \in InRequest, NEW code \in {"200", "207"},
              NEW r \in {"0", "ERR_BRKPIPE", "ERR_NOMEM"}, SendUnsized(code, r),
              content' \in 0 .. FILE
       PROVE  Response'
  <2>1. /\ keep_alive' = FALSE /\ pc' = "escape" /\ retval' = r /\ req' = req
        /\ SendHttpHeader(code, None, keep_alive', {})
    BY <1>17 DEF SendUnsized, Result, SendHttpHeader, HeaderSent
  <2>2. code \in Codes \ {"page"} /\ {} \in SUBSET Fates  BY DEF Codes
  <2> QED  BY <1>8, <1>17, <2>1, <2>2
<1>18. CASE SendTar
  BY <1>0, <1>17, <1>18 DEF SendTar, Opened, Serves, Handling, InRequest
<1>19. CASE ExecPage
  BY <1>17, <1>19 DEF ExecPage, Opened, Serves, Handling, InRequest
<1>20. CASE PropfindLists
  BY <1>0, <1>17, <1>20 DEF PropfindLists, Handling, InRequest
<1>21. CASE SendTarNoMemory
  <2>1. pc = "handle" /\ pc' = "escape" /\ hit' = hit \cup {"nomem"}
        /\ UNCHANGED <<declared, content, told>>
    BY <1>21 DEF SendTarNoMemory, Opened, Serves, Handling, Result
  <2>2. content = 0 /\ hit = {}  BY <1>9, <2>1 DEF InRequest
  <2> QED  BY <1>0, <1>e, <2>1, <2>2 DEF Excused, Fates, InRequest
<1>22. CASE ExecPageFails
  <2>1. /\ pc = "handle" /\ pc' = "escape" /\ retval' = "0" /\ (SendPage(FILE) \/ PageNotSent)
        /\ UNCHANGED <<req, keep_alive>>
    BY <1>22 DEF ExecPageFails, Opened, Serves, Handling, Result
  <2>2. Silent /\ keep_alive = WantsKeepAlive(req)  BY <1>0, <2>1 DEF Response, Early, InRequest
  <2>3. CASE SendPage(FILE)
    <3>1. /\ heads' = 1 /\ declared' = FILE /\ connection' = None /\ content' = FILE
          /\ told' = "page" /\ hit' = {}
      BY <1>0, <2>2, <2>3 DEF SendPage, Silent
    <3>2. Agreed'
      BY <2>1, <2>2, <3>1, Fresh DEF Agreed, ClientExpectsMore, WantsKeepAlive
    <3>3. Answered'  BY <2>1, <3>1, <3>2, Fresh DEF Answered, Framed
    <3>4. content' \in 0 .. FILE /\ content' \in 0 .. 2 * FILE  BY <1>0, <3>1
    <3>5. told' \in Codes /\ hit' \subseteq Fates  BY <3>1 DEF Codes
    <3> QED  BY <2>1, <3>1, <3>3, <3>4, <3>5 DEF Response, Early, InRequest
  <2>4. CASE PageNotSent
    <3>1. hit' = {"nomem"} /\ content' = 0 /\ UNCHANGED <<declared, told>>
      BY <2>2, <2>4 DEF PageNotSent, Silent
    <3> QED  BY <1>0, <1>e, <2>1, <3>1 DEF Excused, Fates, InRequest
  <2> QED  BY <2>1, <2>3, <2>4
<1>23. CASE Escape
  <2>1. /\ pc = "escape" /\ pc' = "done" /\ UNCHANGED <<req, keep_alive, retval>>
        /\ \/ retval = "0" /\ UNCHANGED response
           \/ /\ retval \in {"OK_CREATED", "OK_NOCONTENT"}
              /\ HeaderSent(Status[retval], None, keep_alive) /\ UNCHANGED <<content, hit>>
           \/ /\ retval \notin {"0", "OK_CREATED", "OK_NOCONTENT"} /\ SendPage(FILE)
    BY <1>23 DEF Escape, Status
  <2>2. /\ content \in 0 .. FILE /\ (Unanswered \/ Answered \/ Excused)
        /\ hit \subseteq Fates /\ told \in Codes /\ declared \in {None, Wrapped, 0, FILE}
    BY <1>0, <2>1 DEF Response
  <2>3. /\ content' \in 0 .. 2 * FILE /\ hit' \subseteq Fates /\ told' \in Codes
        /\ declared' \in {None, Wrapped, 0, FILE} /\ hit' = hit
    <3>1. CASE retval = "0" /\ UNCHANGED response  BY <1>0, <2>2, <3>1
    <3>2. CASE /\ retval \in {"OK_CREATED", "OK_NOCONTENT"}
               /\ HeaderSent(Status[retval], None, keep_alive) /\ UNCHANGED <<content, hit>>
      <4>1. Status[retval] \in {"201", "204"}  BY <3>2 DEF Status
      <4> QED  BY <1>0, <2>2, <3>2, <4>1 DEF HeaderSent, Codes
    <3>3. CASE SendPage(FILE)  BY <1>0, <2>2, <3>3 DEF SendPage, Codes
    <3> QED  BY <2>1, <3>1, <3>2, <3>3
  <2> SUFFICES Agreed' /\ (keep_alive' /\ hit' = {} => heads' = 1 /\ Framed')
    BY <2>1, <2>3 DEF Response, Early, InRequest
  <2>4. CASE Excused
    <3>1. hit # {} /\ ("nomem" \in hit \/ (heads = 0 /\ retval = "0"))  BY <2>4 DEF Excused
    <3> QED  BY <2>1, <2>3, <3>1 DEF Agreed
  <2>5. CASE retval = "0" /\ Answered
    BY <2>1, <2>5
       DEF Answered, Agreed, Framed, LengthForgotten, ClientExpectsMore, WantsKeepAlive
  <2>6. CASE retval \in {"OK_CREATED", "OK_NOCONTENT"} /\ Unanswered
    <3>1. /\ HeaderSent(Status[retval], None, keep_alive') /\ content' = 0
          /\ heads = 0 /\ keep_alive = WantsKeepAlive(req) /\ Status[retval] \in {"201", "204"}
      BY <2>1, <2>6 DEF Unanswered, HeaderSent, Status
    <3>2. heads' = 1 /\ declared' = None /\ told' \in {"201", "204"}  BY <3>1 DEF HeaderSent
    <3>3. Agreed'  BY <1>0, <2>1, <3>1, HeaderAgrees
    <3>4. Framed'  BY <3>1, <3>2 DEF Framed, LengthForgotten
    <3> QED  BY <3>2, <3>3, <3>4
  <2>7. CASE retval \notin {"0", "OK_CREATED", "OK_NOCONTENT"} /\ Unanswered
    <3>1. /\ heads' = 1 /\ declared' = FILE /\ connection' = None /\ content' = FILE
          /\ told' = "page"
      BY <1>0, <2>1, <2>7 DEF Unanswered, SendPage
    <3>2. Agreed'
      BY <2>1, <2>7, <3>1, Fresh DEF Unanswered, Agreed, ClientExpectsMore, WantsKeepAlive
    <3>3. Framed'  BY <3>1, Fresh DEF Framed
    <3> QED  BY <3>1, <3>2, <3>3
  <2>8. CASE retval \notin {"0", "OK_CREATED", "OK_NOCONTENT"} /\ Answered
    <3>1. /\ connection' = connection /\ told' = "page" /\ heads = 1
          /\ ~(keep_alive /\ hit = {}) /\ told # "page"
      BY <2>1, <2>8 DEF Answered, SendPage
    <3>2. Agreed'
      BY <2>1, <2>3, <2>8, <3>1 DEF Answered, Agreed, ClientExpectsMore, WantsKeepAlive
    <3> QED  BY <2>1, <2>3, <3>1, <3>2
  <2> QED  BY <2>1, <2>2, <2>4, <2>5, <2>6, <2>7, <2>8 DEF Unanswered, Answered
<1>24. CASE EscapeFails
  <2>1. hit' \subseteq Fates  BY <1>0, <1>24 DEF EscapeFails, PageNotSent, Response, Fates
  <2> QED  BY <1>0, <1>24, <2>1 DEF EscapeFails, PageNotSent, Response, Early, InRequest
<1>25. CASE Done
  <2>1. /\ pc' \in {"read", "closed"} /\ Silent'
    BY <1>25 DEF Done, Silent
  <2>2. content' \in 0 .. 2 * FILE  BY <1>0, <2>1 DEF Silent
  <2> QED  BY <2>1, <2>2 DEF Response, Silent, Early, InRequest, Codes
<1> QED
  BY <1>3, <1>4, <1>5, <1>7, <1>10, <1>11, <1>12, <1>13, <1>14, <1>15, <1>16, <1>18, <1>19,
     <1>20, <1>21, <1>22, <1>23, <1>24, <1>25, <1>c, <1>d
     DEF Server, Get, Put

LEMMA HttpInvariant == Spec => []HttpInv
<1>1. HttpInv /\ [Next]_vars => HttpInv'
  <2>1. HttpInv /\ Server => HttpInv'
    BY ServerTypes, ServerOwnership, ServerResponse DEF HttpInv
  <2>2. HttpInv /\ UNCHANGED vars => HttpInv'
    <3> SUFFICES ASSUME HttpInv, UNCHANGED vars
                 PROVE  HttpInv'
      OBVIOUS
    <3> USE DEF vars
    <3>1. Types'  BY DEF HttpInv, Types
    <3>2. Ownership'  BY DEF HttpInv, Ownership, ReadsPost, ClosesFd
    <3>3. Response'
      BY DEF HttpInv, Response, Silent, Unanswered, Answered, Excused, Framed, LengthForgotten,
             Agreed, ClientExpectsMore, WantsKeepAlive
    <3> QED  BY <3>1, <3>2, <3>3 DEF HttpInv
  <2> QED  BY <2>1, <2>2, ClientTypes DEF Next, Closed
<1> QED  BY <1>1, InitInv, PTL DEF Spec

(* The fields of connection_t and the response have their types and agree  *)
(* with the place handle_requests is at.                                   *)
THEOREM HttpTypeCorrect == Spec => []HttpTypeOK
<1>1. HttpInv => HttpTypeOK
  <2> SUFFICES ASSUME HttpInv
               PROVE  HttpTypeOK
    OBVIOUS
  <2>0. Types /\ Ownership /\ Response  BY DEF HttpInv
  <2>1. ASSUME NEW k \in DOMAIN wire
        PROVE  wire[k] = Body \/ wire[k] \in Requests
    BY <2>0, LenProperties, ElementOfSeq DEF Types, Units
  <2>2. left >= 0 /\ pc \in Early \cup {"escape", "done", "closed"}  BY <2>0 DEF Types
  <2>3. {unread, deaf} \subseteq BOOLEAN  BY <2>0 DEF Types
  <2> QED
    BY <2>0, <2>1, <2>2, <2>3 DEF Types, Ownership, Response, HttpTypeOK, Early, Codes, Fates
<1> QED  BY <1>1, HttpInvariant, PTL

(* send_page gives back what it took and closes nothing else, but for the  *)
(* two leaks of a refused request.                                         *)
THEOREM ReleasedOwn == Spec => []ReleasesOwn
<1>1. HttpInv => ReleasesOwn
  BY DEF HttpInv, Ownership, ReleasesOwn, ClosesOwnFile, PostFreed
<1> QED  BY <1>1, HttpInvariant, PTL

(* A connection goes on only after one whole response, and then for both   *)
(* sides, unless one of the faults FramedWhenKept names befell it.         *)
THEOREM KeptInStep == Spec => []InStep
<1>1. HttpInv => InStep
  BY DEF HttpInv, Response, Agreed, Framed, InStep, FramedWhenKept, ConnectionAgreed
<1> QED  BY <1>1, HttpInvariant, PTL

(* No request ends without an answer to a client that is there, unless     *)
(* memory for it is lacking or the refusal of a cached listing is dropped. *)
THEOREM EveryRequestAnswered == Spec => RequestAnswered
<1>1. ASSUME HttpInv, [Next]_vars
      PROVE  [EndsRequest /\ ~gone => heads' > 0 \/ hit' \cap {"nomem", "dropped"} # {}]_vars
  <2> SUFFICES ASSUME Next, EndsRequest, ~gone
               PROVE  heads' > 0 \/ "nomem" \in hit' \/ "dropped" \in hit'
    BY <1>1
  <2>1. pc = "escape" /\ pc' \in {"done", "closed"} /\ (Unanswered \/ Answered \/ Excused)
    BY <1>1 DEF EndsRequest, HttpInv, Response
  <2>2. Escape \/ EscapeFails
    <3>1. ~Client
      BY <2>1 DEF Client, ClientAsks, ClientSendsBody, ClientGone, ClientStopsReading
    <3>2. ~Closed  BY <2>1 DEF Closed
    <3>3. Server  BY <3>1, <3>2 DEF Next
    <3>4. ~Get
      BY <2>1
         DEF Get, OpenFails, OpenFile, Redirect, NotModified, SendHeaderOnly, SendFile,
             SendFileShort, SendFileNoMemory, ContentRefused, SendTar, SendTarNoMemory, ExecPage,
             ExecPageFails, ListingFails, RefusalDropped, Opened, Serves, Handling
    <3>5. ~Put
      BY <2>1
         DEF Put, PutRefused, PutStarts, PutReads, PutReadsNothing, PutWriteFails, PutDone, Handling
    <3> QED
      BY <2>1, <3>3, <3>4, <3>5
         DEF Server, ReadRequest, ReadBadRequest, BadRequest, ReadEnds, Authorized, Refused,
             Discarded, StartPost, NoPost, ReadBody, PostRead, DeleteFile, MkCol, CopyMove, Options,
             PropfindRefused, PropfindRedirect, PropfindLists, Handling, Done
  <2>3. CASE EscapeFails  BY <2>3 DEF EscapeFails, PageNotSent
  <2>4. CASE Escape
    <3>1. hit' = hit  BY <2>4 DEF Escape, SendPage, response
    <3>2. CASE Excused  BY <3>1, <3>2 DEF Excused
    <3>3. CASE Unanswered \/ Answered
      <4>1. heads \in {0, 1} /\ (heads = 0 => retval # "0")
        BY <3>3 DEF Unanswered, Answered
      <4> QED  BY <2>4, <4>1 DEF Escape, HeaderSent, SendPage, response
    <3> QED  BY <2>1, <3>2, <3>3
  <2> QED  BY <2>2, <2>3, <2>4
<1> QED  BY <1>1, HttpInvariant, PTL DEF Spec, RequestAnswered
-----------------------------------------------------------------------------
(* The stream in front of handle_requests: d units of the body of the      *)
(* request in hand, then requests, each followed by its body; u units of   *)
(* the last body are still to come.  Position k of the stream belongs to a *)
(* body if it is one of the first d, or follows a request closely enough.  *)
BodyOf(r) == IF r.length > 0 THEN r.length ELSE 0

InBody(w, d, k) ==
  \/ k <= d
  \/ \E j \in 1 .. Len(w) : j < k /\ w[j] # Body /\ k <= j + BodyOf(w[j])

Tidy(w, d, u) ==
  \A k \in Nat \ {0} :
     InBody(w, d, k) <=> IF k <= Len(w) THEN w[k] = Body ELSE k <= Len(w) + u

(* What of its body the request in hand has not read.                      *)
Due == IF pc \in {"auth", "dispatch"} \/ (pc = "handle" /\ req.method = "PUT")
       THEN BodyOf(req) ELSE left

(* The stream is tidy until a body is given up or the client is gone.      *)
StreamInv == unread \/ (gone /\ wire = <<>>) \/ Tidy(wire, Due, unsent)

(* Clients that send a body only with the methods that read one, of a size *)
(* the server accepts, and without a pause of READ_TIMEOUT within it.      *)
PoliteClients ==
  /\ STALLS = FALSE
  /\ \A r \in Requests : /\ r.length <= POST_MAX
                         /\ r.length > 0 => r.method \in {"POST", "PROPFIND", "PUT"}

LEMMA BodyOfNat == \A r \in Requests : BodyOf(r) \in Nat
<1> TAKE r \in Requests
<1>1. r.length \in Int  BY LengthInt
<1> QED  BY <1>1 DEF BodyOf

(* One more unit at the end of the stream.                                 *)
LEMMA InBodyAppend ==
  ASSUME NEW w \in Seq(Units), NEW e \in Units, NEW d \in Nat, NEW k \in Nat \ {0}
  PROVE  InBody(Append(w, e), d, k) <=>
           \/ InBody(w, d, k)
           \/ Len(w) + 1 < k /\ e # Body /\ k <= Len(w) + 1 + BodyOf(e)
<1> DEFINE x == Append(w, e)
<1>1. /\ Len(w) \in Nat /\ Len(x) = Len(w) + 1 /\ x[Len(w) + 1] = e
      /\ \A j \in 1 .. Len(w) : x[j] = w[j]
  BY LenProperties, AppendProperties
<1>2. 1 .. Len(x) = (1 .. Len(w)) \cup {Len(w) + 1}  BY <1>1
<1> HIDE DEF x
<1>3. (\E j \in 1 .. Len(x) : j < k /\ x[j] # Body /\ k <= j + BodyOf(x[j]))
        <=> \/ \E j \in 1 .. Len(w) : j < k /\ w[j] # Body /\ k <= j + BodyOf(w[j])
            \/ Len(w) + 1 < k /\ e # Body /\ k <= Len(w) + 1 + BodyOf(e)
  BY <1>1, <1>2
<1> QED  BY <1>3 DEF InBody, x

LEMMA TidyRequest ==
  ASSUME NEW w \in Seq(Units), NEW d \in Nat, NEW r \in Requests, Tidy(w, d, 0)
  PROVE  Tidy(Append(w, r), d, BodyOf(r))
<1> DEFINE x == Append(w, r)
           n == Len(w)
<1>1. /\ n \in Nat /\ Len(x) = n + 1 /\ x[n + 1] = r /\ \A j \in 1 .. n : x[j] = w[j]
      /\ BodyOf(r) \in Nat /\ r # Body /\ r \in Units
  <2>1. r \in Units /\ r # Body /\ BodyOf(r) \in Nat  BY BodyOfNat, Fresh DEF Units
  <2> QED  BY <2>1, LenProperties, AppendProperties
<1>2. ASSUME NEW k \in Nat \ {0}
      PROVE  InBody(x, d, k) <=> IF k <= Len(x) THEN x[k] = Body ELSE k <= Len(x) + BodyOf(r)
  <2>1. InBody(x, d, k) <=> InBody(w, d, k) \/ (n + 1 < k /\ k <= n + 1 + BodyOf(r))
    BY <1>1, InBodyAppend
  <2>2. InBody(w, d, k) <=> IF k <= n THEN w[k] = Body ELSE k <= n + 0
    BY DEF Tidy
  <2> HIDE DEF x, n
  <2>3. CASE k \in 1 .. n  BY <1>1, <2>1, <2>2, <2>3
  <2>4. CASE k = n + 1  BY <1>1, <2>1, <2>2, <2>4
  <2>5. CASE k > n + 1  BY <1>1, <2>1, <2>2, <2>5
  <2> QED  BY <1>1, <2>3, <2>4, <2>5
<1> QED  BY <1>2 DEF Tidy

LEMMA TidySend ==
  ASSUME NEW w \in Seq(Units), NEW d \in Nat, NEW u \in Nat \ {0}, Tidy(w, d, u)
  PROVE  Tidy(Append(w, Body), d, u - 1)
<1> DEFINE x == Append(w, Body)
           n == Len(w)
<1>1. /\ n \in Nat /\ Len(x) = n + 1 /\ x[n + 1] = Body /\ \A j \in 1 .. n : x[j] = w[j]
      /\ Body \in Units
  BY LenProperties, AppendProperties DEF Units
<1>2. ASSUME NEW k \in Nat \ {0}
      PROVE  InBody(x, d, k) <=> IF k <= Len(x) THEN x[k] = Body ELSE k <= Len(x) + (u - 1)
  <2>1. InBody(x, d, k) <=> InBody(w, d, k)  BY <1>1, InBodyAppend
  <2>2. InBody(w, d, k) <=> IF k <= n THEN w[k] = Body ELSE k <= n + u
    BY DEF Tidy
  <2> HIDE DEF x, n
  <2>3. CASE k \in 1 .. n  BY <1>1, <2>1, <2>2, <2>3
  <2>4. CASE k = n + 1  BY <1>1, <2>1, <2>2, <2>4
  <2>5. CASE k > n + 1  BY <1>1, <2>1, <2>2, <2>5
  <2> QED  BY <1>1, <2>3, <2>4, <2>5
<1> QED  BY <1>2 DEF Tidy

(* One unit less at its beginning.                                         *)
LEMMA TidyTake ==
  ASSUME NEW w \in Seq(Units), w # <<>>, NEW d \in Nat, NEW u \in Nat, Tidy(w, d, u), NEW e \in Nat,
         IF w[1] = Body THEN d > 0 /\ e = d - 1 ELSE d = 0 /\ e = BodyOf(w[1])
  PROVE  Tidy(Tail(w), e, u)
<1> DEFINE x == Tail(w)
           n == Len(x)
<1>1. /\ n \in Nat /\ Len(w) = n + 1 /\ \A j \in 1 .. n : x[j] = w[j + 1]
  BY LenProperties, HeadTailProperties
<1>2. ASSUME NEW k \in Nat \ {0}
      PROVE  InBody(x, e, k) <=> IF k <= n THEN x[k] = Body ELSE k <= n + u
  <2>1. InBody(w, d, k + 1) <=> IF k + 1 <= Len(w) THEN w[k + 1] = Body ELSE k + 1 <= Len(w) + u
    BY DEF Tidy
  <2> HIDE DEF x, n
  <2>2. InBody(x, e, k) <=> InBody(w, d, k + 1)
    <3>1. ASSUME NEW j \in 1 .. Len(x), j < k, x[j] # Body, k <= j + BodyOf(x[j])
          PROVE  InBody(w, d, k + 1)
      <4>1. /\ j + 1 \in 1 .. Len(w) /\ j + 1 < k + 1 /\ w[j + 1] = x[j]
            /\ w[j + 1] \in Requests
        BY <1>1, <3>1, ElementOfSeq DEF Units, n
      <4>2. k + 1 <= (j + 1) + BodyOf(w[j + 1])  BY <3>1, <4>1, BodyOfNat
      <4> QED  BY <3>1, <4>1, <4>2 DEF InBody
    <3>2. ASSUME k <= e
          PROVE  InBody(w, d, k + 1)
      <4>1. CASE w[1] = Body  BY <3>2, <4>1 DEF InBody
      <4>2. CASE w[1] # Body
        <5>1. 1 \in 1 .. Len(w) /\ 1 < k + 1 /\ k + 1 <= 1 + BodyOf(w[1])  BY <1>1, <3>2, <4>2
        <5> QED  BY <4>2, <5>1 DEF InBody
      <4> QED  BY <4>1, <4>2
    <3>3. ASSUME NEW j \in 1 .. Len(w), j < k + 1, w[j] # Body, k + 1 <= j + BodyOf(w[j])
          PROVE  InBody(x, e, k)
      <4>1. CASE j = 1
        BY <3>3, <4>1 DEF InBody
      <4>2. CASE j # 1
        <5>1. PICK i \in 1 .. Len(x) : j = i + 1  BY <1>1, <3>3, <4>2 DEF n
        <5>2. x[i] = w[j] /\ w[j] \in Requests  BY <1>1, <3>3, <5>1, ElementOfSeq DEF Units, n
        <5>3. i < k /\ k <= i + BodyOf(x[i])  BY <3>3, <5>1, <5>2, BodyOfNat
        <5> QED  BY <3>3, <5>2, <5>3 DEF InBody
      <4> QED  BY <4>1, <4>2
    <3>4. ASSUME k + 1 <= d
          PROVE  InBody(x, e, k)
      BY <3>4 DEF InBody
    <3> QED  BY <3>1, <3>2, <3>3, <3>4 DEF InBody
  <2>3. CASE k <= n
    <3>1. k + 1 <= Len(w) /\ x[k] = w[k + 1]  BY <1>1, <2>3
    <3> QED  BY <2>1, <2>2, <2>3, <3>1
  <2>4. CASE ~(k <= n)
    <3>1. ~(k + 1 <= Len(w)) /\ (k + 1 <= Len(w) + u <=> k <= n + u)  BY <1>1, <2>4
    <3> QED  BY <2>1, <2>2, <2>4, <3>1
  <2> QED  BY <2>3, <2>4
<1> QED  BY <1>2 DEF Tidy

(* No body is in front when none is due, and none due when the stream is   *)
(* empty and nothing to come.                                              *)
LEMMA TidyFront ==
  ASSUME NEW w \in Seq(Units), NEW d \in Nat, NEW u \in Nat, Tidy(w, d, u)
  PROVE  /\ w # <<>> /\ d = 0 => w[1] # Body
         /\ w = <<>> /\ u = 0 => d = 0
<1>1. InBody(w, d, 1) <=> IF 1 <= Len(w) THEN w[1] = Body ELSE 1 <= Len(w) + u
  BY DEF Tidy
<1>2. InBody(w, d, 1) <=> 1 <= d
  BY LenProperties DEF InBody
<1>3. Len(w) \in Nat /\ (w # <<>> => Len(w) \in Nat \ {0}) /\ (w = <<>> => Len(w) = 0)
  BY LenProperties, EmptySeq
<1> QED  BY <1>1, <1>2, <1>3

(* The units of a tidy stream, and what is due of it.                      *)
LEMMA DueNat ==
  ASSUME HttpInv
  PROVE  Due \in Nat /\ wire \in Seq(Units) /\ unsent \in Nat /\ left \in Nat /\ req \in Requests
  BY BodyOfNat DEF Due, HttpInv, Types

LEMMA StreamStep ==
  ASSUME PoliteClients, HttpInv, StreamInv, [Next]_vars
  PROVE  StreamInv'
<1> USE DEF client, owned, response, Go, Result
<1>0. /\ Due \in Nat /\ wire \in Seq(Units) /\ unsent \in Nat /\ left \in Nat /\ req \in Requests
      /\ req.length \in Int /\ gone \in BOOLEAN /\ unread \in BOOLEAN
      /\ wire # <<>> => Head(wire) = wire[1] /\ wire[1] \in Units
  BY DueNat, LengthInt, StreamUnits DEF HttpInv, Types
<1>a. Ownership  BY DEF HttpInv
<1>b. /\ req.length <= POST_MAX
      /\ req.length > 0 => req.method \in {"POST", "PROPFIND", "PUT"}
      /\ Fits => BodyOf(req) = req.length
      /\ ~Fits => BodyOf(req) = 0
  BY <1>0, SizesNat DEF PoliteClients, Fits, BodyOf
<1>1. CASE unread
  <2>1. Server => unread'
    BY <1>1
       DEF Server, Get, Put, ReadRequest, ReadBadRequest, BadRequest, ReadEnds, Authorized, Refused,
           Discarded, StartPost, NoPost, ReadBody, PostRead, OpenFails, OpenFile, Redirect,
           NotModified, SendHeaderOnly, SendFile, SendFileShort, SendFileNoMemory, ContentRefused,
           ListingFails, RefusalDropped, ReadPostData,
           SendTar, SendTarNoMemory, ExecPage, ExecPageFails, SendUnsized, PutRefused, PutStarts,
           PutReads, PutReadsNothing, PutWriteFails, PutDone, DeleteFile, MkCol, CopyMove, Answers,
           Options, PropfindRefused, PropfindRedirect, PropfindLists, Escape, EscapeFails, CleanUp,
           Done, vars
  <2>2. unread'
    BY <1>1, <2>1 DEF Next, Client, ClientAsks, ClientSendsBody, ClientGone, ClientStopsReading,
                           Closed, vars
  <2> QED  BY <2>2 DEF StreamInv
<1>2. CASE gone /\ wire = <<>>
  <2>1. Server => gone' = gone /\ wire' = wire
    BY <1>2
       DEF Server, Get, Put, ReadRequest, ReadBadRequest, BadRequest, ReadEnds, Authorized, Refused,
           Discarded, StartPost, NoPost, ReadBody, PostRead, OpenFails, OpenFile, Redirect,
           NotModified, SendHeaderOnly, SendFile, SendFileShort, SendFileNoMemory, ContentRefused,
           ListingFails, RefusalDropped, ReadPostData,
           SendTar, SendTarNoMemory, ExecPage, ExecPageFails, SendUnsized, PutRefused, PutStarts,
           PutReads, PutReadsNothing, PutWriteFails, PutDone, DeleteFile, MkCol, CopyMove, Answers,
           Options, PropfindRefused, PropfindRedirect, PropfindLists, Escape, EscapeFails,
           Done, vars
  <2>2. gone' /\ wire' = <<>>
    BY <1>2, <2>1 DEF Next, Client, ClientAsks, ClientSendsBody, ClientGone, ClientStopsReading,
                           Closed, vars
  <2> QED  BY <2>2 DEF StreamInv
<1>3. CASE Tidy(wire, Due, unsent)
  <2>1. ASSUME NEW n, Due' = n, Tidy(wire', n, unsent')
        PROVE  StreamInv'
    BY <2>1 DEF StreamInv
  <2>2. ASSUME UNCHANGED <<wire, unsent>>, Due' = Due
        PROVE  StreamInv'
    BY <1>3, <2>1, <2>2
  (* The client.                                                           *)
  <2>3. ASSUME NEW r \in Requests, ClientAsks(r)
        PROVE  StreamInv'
    <3>1. wire' = Append(wire, r) /\ unsent = 0 /\ unsent' = BodyOf(r) /\ Due' = Due
      BY <2>3 DEF ClientAsks, BodyOf, Due
    <3>2. Tidy(Append(wire, r), Due, BodyOf(r))  BY <1>0, <1>3, <3>1, TidyRequest
    <3> QED  BY <2>1, <3>1, <3>2
  <2>4. CASE ClientSendsBody
    <3>1. wire' = Append(wire, Body) /\ unsent \in Nat \ {0} /\ unsent' = unsent - 1 /\ Due' = Due
      BY <1>0, <2>4 DEF ClientSendsBody, BodyOf, Due
    <3>2. Tidy(Append(wire, Body), Due, unsent - 1)  BY <1>0, <1>3, <3>1, TidySend
    <3> QED  BY <2>1, <3>1, <3>2
  <2>5. CASE ClientGone \/ ClientStopsReading
    BY <2>2, <2>5 DEF ClientGone, ClientStopsReading, Due, BodyOf
  (* A unit is read.                                                       *)
  <2>6. CASE ReadRequest
    <3>1. /\ wire # <<>> /\ wire[1] # Body /\ wire' = Tail(wire) /\ unsent' = unsent
          /\ wire[1] \in Requests /\ req' = wire[1] /\ pc = "read" /\ pc' = "auth"
      BY <1>0, <2>6 DEF ReadRequest, Units
    <3>2. Due = 0 /\ Due' = BodyOf(wire[1])  BY <1>0, <1>a, <3>1 DEF Ownership, Due, BodyOf
    <3>3. Tidy(Tail(wire), BodyOf(wire[1]), unsent)
      BY <1>0, <1>3, <3>1, <3>2, BodyOfNat, TidyTake
    <3> QED  BY <2>1, <3>1, <3>2, <3>3
  <2>7. CASE ReadBadRequest
    <3>1. /\ wire # <<>> /\ wire' = Tail(wire) /\ unsent' = unsent /\ left' = left
          /\ pc = "read" /\ pc' = "bad_request" /\ (wire[1] # Body => wire[1].method = "unknown")
      BY <1>0, <2>7 DEF ReadBadRequest
    <3>2. Due = 0 /\ Due' = 0  BY <1>0, <1>a, <3>1 DEF Ownership, Due
    <3>3. wire[1] # Body  BY <1>0, <1>3, <3>1, <3>2, TidyFront
    <3>4. wire[1] \in Requests  BY <1>0, <3>1, <3>3 DEF Units
    <3>5. BodyOf(wire[1]) = 0  BY <3>1, <3>3, <3>4 DEF PoliteClients, BodyOf
    <3>6. Tidy(Tail(wire), 0, unsent)  BY <1>0, <1>3, <3>1, <3>2, <3>3, <3>5, TidyTake
    <3> QED  BY <2>1, <3>1, <3>2, <3>6
  <2>8. ASSUME pc \in {"post", "discard", "put"}, left > 0, wire # <<>>, wire[1] = Body,
               wire' = Tail(wire), unsent' = unsent, Due' = left - 1
        PROVE  StreamInv'
    <3>1. Due = left /\ left - 1 \in Nat  BY <1>0, <2>8 DEF Due
    <3>2. Tidy(Tail(wire), left - 1, unsent)  BY <1>0, <1>3, <2>8, <3>1, TidyTake
    <3> QED  BY <2>1, <2>8, <3>2
  <2>9. CASE ReadBody  BY <1>0, <2>8, <2>9 DEF ReadBody, Due
  <2>10. CASE PutReads  BY <1>0, <2>8, <2>10 DEF PutReads, Due
  <2>11. CASE PutWriteFails
    <3>1. CASE left > 1  BY <2>11, <3>1 DEF PutWriteFails, StreamInv
    <3>2. CASE left = 1  BY <1>0, <2>8, <2>11, <3>2 DEF PutWriteFails, Due
    <3> QED  BY <1>0, <2>11, <3>1, <3>2 DEF PutWriteFails
  (* The body is read, or will not come.                                   *)
  <2>12. ASSUME pc \in {"post", "discard"}, BodyDone, UNCHANGED client, Due' = 0
         PROVE  StreamInv'
    <3>1. Due = left  BY <2>12 DEF Due
    <3>2. CASE left = 0  BY <2>2, <2>12, <3>1, <3>2
    <3>3. CASE wire = <<>> /\ gone  BY <2>12, <3>3 DEF StreamInv
    <3>4. CASE wire = <<>> /\ unsent = 0
      <4>1. Due = 0  BY <1>0, <1>3, <3>4, TidyFront
      <4> QED  BY <2>2, <2>12, <4>1
    <3> QED  BY <2>12, <3>2, <3>3, <3>4 DEF BodyDone, ReadGivesUp, PoliteClients
  <2>13. CASE PostRead
    <3>1. Due' = 0  BY <1>a, <2>13 DEF PostRead, Due, Ownership, ReadsPost
    <3> QED  BY <2>12, <2>13, <3>1 DEF PostRead
  <2>14. CASE Discarded  BY <2>12, <2>14 DEF Discarded, Due
  (* What is due is counted otherwise.                                     *)
  <2>15. CASE Authorized  BY <2>2, <2>15 DEF Authorized, Due, BodyOf
  <2>16. CASE Refused \/ StartPost
    <3>1. PICK got \in BOOLEAN : ReadPostData(got)  BY <2>16 DEF Refused, StartPost
    <3>2. /\ pc \in {"auth", "dispatch"} /\ pc' \in {"discard", "post"}
          /\ UNCHANGED <<wire, unsent>>
      BY <2>16 DEF Refused, StartPost
    <3>3. CASE ~got /\ Fits /\ req.length > 0
      BY <3>1, <3>3 DEF ReadPostData, StreamInv
    <3>4. CASE ~(~got /\ Fits /\ req.length > 0)
      <4>1. left' = BodyOf(req)  BY <1>0, <1>b, <3>1, <3>4 DEF ReadPostData, BodyOf
      <4>2. Due = BodyOf(req) /\ Due' = left'  BY <3>2 DEF Due
      <4> QED  BY <2>2, <3>2, <4>1, <4>2
    <3> QED  BY <3>3, <3>4
  <2>17. CASE NoPost
    <3>1. req.method = "PUT" \/ (req.method # "PUT" /\ BodyOf(req) = 0)
      BY <1>b, <2>17 DEF NoPost, ReadsPost, BodyOf
    <3>2. left = 0  BY <1>0, <1>a, <2>17 DEF NoPost, Ownership
    <3>3. Due' = Due  BY <2>17, <3>1, <3>2 DEF NoPost, Due, BodyOf
    <3> QED  BY <2>2, <2>17, <3>3 DEF NoPost
  <2>18. CASE PutStarts
    <3>1. Due' = Due  BY <1>0, <2>18 DEF PutStarts, Handling, Due, BodyOf
    <3> QED  BY <2>2, <2>18, <3>1 DEF PutStarts
  <2>19. CASE PutRefused
    <3>1. CASE req.length > 0  BY <2>19, <3>1 DEF PutRefused, StreamInv
    <3>2. CASE ~(req.length > 0)
      <4>1. Due = 0 /\ left = 0 /\ Due' = left /\ UNCHANGED <<wire, unsent>>
        BY <1>0, <1>a, <2>19, <3>2 DEF PutRefused, Handling, Due, BodyOf, Ownership
      <4> QED  BY <2>2, <4>1
    <3> QED  BY <3>1, <3>2
  (* Nothing of the body is left when the request is handled.              *)
  <2>20. ASSUME pc \in {"read", "bad_request", "put", "escape", "done"} \/ (pc = "handle" /\ req.method # "PUT"),
                pc' \in {"read", "closed", "escape", "done"} \/ (pc' = "handle" /\ req'.method # "PUT"),
                UNCHANGED <<wire, unsent, left>>
         PROVE  StreamInv'
    <3>1. Due = left /\ Due' = left'  BY <2>20 DEF Due
    <3> QED  BY <2>2, <2>20, <3>1
  <2>21. CASE BadRequest \/ ReadEnds \/ PutDone
    BY <2>20, <2>21 DEF BadRequest, ReadEnds, PutDone
  <2>22. CASE Get
    <3>1. /\ pc = "handle" /\ req.method # "PUT" /\ req' = req
          /\ pc' \in {"escape", "handle"} /\ UNCHANGED <<wire, unsent, left>>
      BY <2>22
         DEF Get, OpenFails, OpenFile, Redirect, NotModified, SendHeaderOnly, SendFile, SendFileShort,
             SendFileNoMemory, ContentRefused, SendTar, SendTarNoMemory, ExecPage, ExecPageFails,
             ListingFails, RefusalDropped, SendUnsized, Opened, Serves, Handling
    <3> QED  BY <2>20, <3>1
  <2>23. CASE \/ DeleteFile \/ MkCol \/ CopyMove \/ Options \/ PropfindRefused
              \/ PropfindRedirect \/ PropfindLists
    <3>1. pc = "handle" /\ req.method # "PUT" /\ pc' = "escape" /\ UNCHANGED <<wire, unsent, left>>
      BY <2>23
         DEF DeleteFile, MkCol, CopyMove, Answers, Options, PropfindRefused, PropfindRedirect,
             PropfindLists, SendHeaderOnly, SendUnsized, Handling
    <3> QED  BY <2>20, <3>1
  <2>24. CASE Escape \/ EscapeFails \/ Done
    BY <2>20, <2>24 DEF Escape, EscapeFails, Done
  <2>25. CASE UNCHANGED vars  BY <2>2, <2>25 DEF vars, Due, BodyOf
  <2> QED
    BY <2>3, <2>4, <2>5, <2>6, <2>7, <2>9, <2>10, <2>11, <2>13, <2>14, <2>15, <2>16, <2>17, <2>18,
       <2>19, <2>21, <2>22, <2>23, <2>24, <2>25
       DEF Next, Client, Server, Put, PutReadsNothing, Closed
<1> QED  BY <1>1, <1>2, <1>3 DEF StreamInv

(* handle_requests never takes bytes of a body for a request, unless a PUT *)
(* was given up or read_post_data found no memory for a body: for clients  *)
(* that send bodies only where they are read, not larger than              *)
(* POST_MAX_SIZE and without a pause.  (The run http_big_body shows what   *)
(* happens without the bound.)                                             *)
THEOREM BodiesConsumed ==
  ASSUME PoliteClients
  PROVE  Spec => []BodyNeverParsed
<1>1. Init => StreamInv
  <2> SUFFICES ASSUME Init
               PROVE  Tidy(wire, Due, unsent)
    BY DEF StreamInv
  <2>1. wire = <<>> /\ Due = 0 /\ unsent = 0  BY DEF Init, Due
  <2>2. \A k \in Nat \ {0} : ~InBody(<<>>, 0, k)  BY DEF InBody
  <2>3. Len(<<>>) = 0  BY EmptySeq
  <2> QED  BY <2>1, <2>2, <2>3 DEF Tidy
<1>2. HttpInv /\ StreamInv => BodyNeverParsed
  <2> SUFFICES ASSUME HttpInv, StreamInv, pc = "read", wire # <<>>, Head(wire) = Body, ~unread
               PROVE  FALSE
    BY DEF BodyNeverParsed
  <2>1. Tidy(wire, Due, unsent)  BY DEF StreamInv
  <2>2. Due = 0  BY DueNat DEF Due, HttpInv, Ownership
  <2>3. wire[1] = Body  BY StreamUnits DEF HttpInv
  <2> QED  BY <2>1, <2>2, <2>3, DueNat, TidyFront
<1>3. HttpInv /\ StreamInv /\ [Next]_vars => StreamInv'  BY StreamStep
<1> QED  BY <1>1, <1>2, <1>3, HttpInvariant, PTL DEF Spec
=============================================================================

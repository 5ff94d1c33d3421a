--------------------------- MODULE HttpConnection ---------------------------
(***************************************************************************)
(* One connection served by a worker: handle_requests, send_page,          *)
(* get_or_post, write_file, tar_send_dir, read_file, read_post_data and    *)
(* the senders of headers and errors in instance.c, with the answers of    *)
(* propfind, copy_move, mkcol (webdav.c) and exec_page (cgi.c).            *)
(*                                                                         *)
(* The request stream is a sequence of units: the head of a request (its   *)
(* record) or one unit of a body.  buffer_read is taken by what it does    *)
(* (ByteStream): it returns the units asked for, or fewer once the client  *)
(* is silent for READ_TIMEOUT.  A response is the number of heads sent,    *)
(* the length the last one declared, its Connection header, and the units  *)
(* of content that followed.                                               *)
(***************************************************************************)
EXTENDS Integers, Sequences

CONSTANTS Requests,     \* what the client may ask: records, see RequestType
          MaxRequests,  \* bound: requests on the connection
          AUTH,         \* may an authentication provider be configured: set of BOOLEAN
          TAR,          \* directories are sent as tar files
          CACHE,        \* listings of directories are cached
          CGI,          \* scripts are executed
          STALLS,       \* clients may pause longer than READ_TIMEOUT in a body
          POST_MAX,     \* POST_MAX_SIZE, in units
          FILE,         \* size of a served file or page, in units
          FAULTS,       \* what may fail: subset of FaultKinds
          None,         \* no header
          Body          \* a unit of a body

FaultKinds == {"shrink", "nomem", "tar", "put", "list"}
Methods == {"GET", "POST", "PUT", "DELETE", "OPTIONS", "PROPFIND", "MKCOL", "COPY",
            "MOVE", "unknown"}
RequestType == [method : Methods, version : {"1.0", "1.1"},
                conn : {"close", "keep-alive", None}, length : Int]

(* The error codes of list_dir as an unsigned length: 2^64 - 1, 2^64 - 2.  *)
Wrapped == -1

ASSUME RequestsTyped == Requests \subseteq RequestType /\ Requests # {}
ASSUME FaultsTyped == FAULTS \subseteq FaultKinds
ASSUME SizesNat == POST_MAX \in Nat /\ FILE \in Nat \ {0} /\ MaxRequests \in Nat
ASSUME Fresh == None \notin {Wrapped, 0, FILE, "close", "keep-alive"} /\ Body \notin Requests
ASSUME SwitchesBoolean == AUTH \cup {TAR, CACHE, CGI, STALLS} \subseteq BOOLEAN

VARIABLES authsock,     \* weborf_conf.authsock is set; fixed at the start
          wire,         \* units sent by the client and not read
          unsent,       \* units of the current body the client has still to send
          gone,         \* the client closed, or will not send anything again
          deaf,         \* the client is there and takes no more of the answers
          asked,        \* requests sent so far
          pc,           \* where handle_requests is
          req,          \* request being handled
          keep_alive,   \* connection_prop->keep_alive
          left,         \* units of the body still to read
          post,         \* post_param.data: FALSE when NULL
          lost,         \* where a buffer of read_post_data was never freed
          strfile_fd,   \* connection_prop->strfile_fd: garbage, none, open, stale
          badclose,     \* results of requests that closed what they did not open
          unread,       \* a body was given up: by read_file, or no memory for it
          retval,       \* result of the handler, for send_error_header
          heads, declared, connection, content,    \* the response so far
          told,         \* the status of its last head: none, page (send_err, request_auth)
          hit           \* what befell it: short, nomem, list, or dropped, see below

vars == <<authsock, wire, unsent, gone, deaf, asked, pc, req, keep_alive, left, post, lost, strfile_fd,
          badclose, unread, retval, heads, declared, connection, content, told, hit>>
client == <<authsock, wire, unsent, gone, deaf, asked>>
owned == <<post, lost, strfile_fd, badclose, unread>>
response == <<heads, declared, connection, content, told, hit>>

Init == /\ authsock \in AUTH
        /\ wire = <<>> /\ unsent = 0 /\ gone = FALSE /\ deaf = FALSE /\ asked = 0
        /\ pc = "read"
        /\ req = CHOOSE r \in Requests : TRUE     \* not read before a head is
        /\ keep_alive = FALSE /\ left = 0
        /\ post = FALSE /\ lost = {}
        /\ strfile_fd = "garbage" /\ badclose = {} /\ unread = FALSE
        /\ retval = "0"
        /\ heads = 0 /\ declared = None /\ connection = None /\ content = 0
        /\ told = "none" /\ hit = {}
-----------------------------------------------------------------------------
(* The client sends a request and then its body, without waiting for       *)
(* answers, or gives up.                                                   *)
ClientAsks(r) == /\ ~gone /\ unsent = 0 /\ asked < MaxRequests
                 /\ wire' = Append(wire, r)
                 /\ unsent' = IF r.length > 0 THEN r.length ELSE 0
                 /\ asked' = asked + 1
                 /\ UNCHANGED <<authsock, gone, deaf, pc, req, keep_alive, left, owned, retval,
                                response>>

ClientSendsBody == /\ ~gone /\ unsent > 0
                   /\ wire' = Append(wire, Body)
                   /\ unsent' = unsent - 1
                   /\ UNCHANGED <<authsock, gone, deaf, asked, pc, req, keep_alive, left, owned, retval,
                                  response>>

ClientGone == /\ ~gone
              /\ gone' = TRUE
              /\ UNCHANGED <<authsock, wire, unsent, deaf, asked, pc, req, keep_alive, left, owned,
                             retval, response>>

(* It stays and stops reading.  The socket has no send timeout.            *)
ClientStopsReading == /\ ~gone /\ ~deaf
                      /\ deaf' = TRUE
                      /\ UNCHANGED <<authsock, wire, unsent, gone, asked, pc, req, keep_alive, left,
                                     owned, retval, response>>

(* buffer_read gives up: nothing came for READ_TIMEOUT, or the stream      *)
(* ended.                                                                  *)
ReadGivesUp == wire = <<>> /\ (gone \/ STALLS \/ unsent = 0)

Client == \/ \E r \in Requests : ClientAsks(r)
          \/ ClientSendsBody \/ ClientGone \/ ClientStopsReading
-----------------------------------------------------------------------------
Go(p) == pc' = p

(* send_http_header: the Connection header only where it is not the        *)
(* default of the protocol, the length only if the connection goes on.     *)
HeaderSent(code, size, ka) ==
  /\ heads' = heads + 1
  /\ declared' = IF ka THEN size ELSE None
  /\ connection' = IF req.version # "1.1" /\ ka THEN "keep-alive"
                   ELSE IF req.version = "1.1" /\ ~ka THEN "close"
                   ELSE None
  /\ told' = code

(* Without memory it sends nothing, and the callers go on as if it had.    *)
SendHttpHeader(code, size, ka, after) ==
  \/ HeaderSent(code, size, ka) /\ hit' = hit \cup after
  \/ /\ "nomem" \in FAULTS
     /\ hit' = hit \cup after \cup {"nomem"}
     /\ UNCHANGED <<heads, declared, connection, told>>

(* send_err and request_auth: page and length, never a Connection header.  *)
(* Behind another head the client takes both for content.                  *)
SendPage(size) == /\ heads' = heads + 1
                  /\ declared' = IF heads = 0 THEN size ELSE declared
                  /\ connection' = IF heads = 0 THEN None ELSE connection
                  /\ content' = content + size
                  /\ told' = "page"
                  /\ UNCHANGED hit

(* ... or nothing, without memory for it.                                  *)
PageNotSent == /\ "nomem" \in FAULTS
               /\ hit' = hit \cup {"nomem"}
               /\ UNCHANGED <<heads, declared, connection, content, told>>

(* The handler is done: what send_error_header has to say goes to the end. *)
Result(r) == retval' = r /\ Go("escape")

(* set_connection_props.                                                   *)
WantsKeepAlive(r) == IF r.version = "1.1" THEN r.conn # "close" ELSE r.conn = "keep-alive"

(* handle_requests reads a head and starts send_page.                      *)
ReadRequest == /\ pc = "read" /\ wire # <<>>
               /\ Head(wire) # Body /\ Head(wire).method # "unknown"
               /\ req' = Head(wire)
               /\ wire' = Tail(wire)
               /\ keep_alive' = WantsKeepAlive(Head(wire))
               /\ Go("auth")
               /\ UNCHANGED <<authsock, unsent, gone, deaf, asked, left, owned, retval, response>>

(* The bytes at hand are no request.                                       *)
ReadBadRequest == /\ pc = "read" /\ wire # <<>>
                  /\ Head(wire) # Body => Head(wire).method = "unknown"
                  /\ wire' = Tail(wire)
                  /\ Go("bad_request")
                  /\ UNCHANGED <<authsock, unsent, gone, deaf, asked, req, keep_alive, left, owned, retval,
                                 response>>

(* send_error_header(400), for which it has no case; the connection ends.  *)
BadRequest == /\ pc = "bad_request"
              /\ Go("closed")
              /\ UNCHANGED <<client, req, keep_alive, left, owned, retval, response>>

(* No further request.                                                     *)
ReadEnds == /\ pc = "read" /\ ReadGivesUp
            /\ Go("closed")
            /\ UNCHANGED <<client, req, keep_alive, left, owned, retval, response>>
-----------------------------------------------------------------------------
(* auth_check_request: 0 without a provider or when it grants the request. *)
Authorized == /\ pc = "auth"
              /\ Go("dispatch")
              /\ UNCHANGED <<client, req, keep_alive, left, owned, retval, response>>

(* The limit taken as exclusive.                                           *)
FitsBelow == req.length \in 0 .. POST_MAX - 1

(* A body read_post_data may read: announced, and not too large.           *)
Fits == req.length \in 0 .. POST_MAX

(* read_post_data gets a buffer for the body and reads it, or leaves it.   *)
ReadPostData(got) == /\ got => Fits
                     /\ got \/ ~Fits \/ "nomem" \in FAULTS
                     /\ left' = IF got THEN req.length ELSE 0
                     /\ unread' = (unread \/ (~got /\ Fits /\ req.length > 0))

(* Refused: the body is read into a buffer nobody keeps a pointer to.      *)
Refused == /\ pc = "auth" /\ authsock
           /\ \E got \in BOOLEAN : /\ ReadPostData(got)
                                   /\ lost' = lost \cup (IF got THEN {"auth"} ELSE {})
           /\ Go("discard")
           /\ UNCHANGED <<client, req, keep_alive, post, strfile_fd, badclose, retval, response>>

ReadsPost == req.method \in {"POST", "PROPFIND"}

StartPost == /\ pc = "dispatch" /\ ReadsPost
             /\ \E got \in BOOLEAN : ReadPostData(got) /\ post' = got
             /\ Go("post")
             /\ UNCHANGED <<client, req, keep_alive, lost, strfile_fd, badclose, retval, response>>

(* One unit of the body arrives in the buffer of read_post_data.           *)
ReadBody == /\ pc \in {"post", "discard"} /\ left > 0
            /\ wire # <<>> /\ Head(wire) = Body
            /\ wire' = Tail(wire)
            /\ left' = left - 1
            /\ UNCHANGED <<authsock, unsent, gone, deaf, asked, pc, req, keep_alive, owned, retval, response>>

(* The body is complete, or buffer_read returned less than that.           *)
BodyDone == left = 0 \/ ReadGivesUp

(* A read_post_data that tries again until the body is whole.              *)
PostReadRetries == /\ pc = "post" /\ BodyDone
                   /\ Go(IF left = 0 THEN "handle" ELSE "post")
                   /\ UNCHANGED <<client, req, keep_alive, left, owned, retval, response>>

PostRead == /\ pc = "post" /\ BodyDone
            /\ left' = 0
            /\ Go("handle")
            /\ UNCHANGED <<client, req, keep_alive, owned, retval, response>>

Discarded == /\ pc = "discard" /\ BodyDone
             /\ left' = 0
             /\ Result("ERR_NOAUTH")
             /\ UNCHANGED <<client, req, keep_alive, owned, response>>

NoPost == /\ pc = "dispatch" /\ ~ReadsPost
          /\ Go("handle")
          /\ UNCHANGED <<client, req, keep_alive, left, owned, retval, response>>
-----------------------------------------------------------------------------
Handling(ms) == pc = "handle" /\ req.method \in ms
Serves == Handling({"GET", "POST"})

OpenFails == /\ Serves /\ strfile_fd # "open"
             /\ strfile_fd' = "none"
             /\ Result("ERR_FILENOTFOUND")
             /\ UNCHANGED <<client, req, keep_alive, left, post, lost, badclose, unread, response>>

OpenFile == /\ Serves /\ strfile_fd # "open"
            /\ strfile_fd' = "open"
            /\ UNCHANGED <<client, pc, req, keep_alive, left, post, lost, badclose, unread, retval,
                           response>>

Opened == Serves /\ strfile_fd = "open"

(* A header is all there is to say.                                        *)
SendHeaderOnly(code, size) == /\ SendHttpHeader(code, size, keep_alive, {})
                              /\ Result("0")
                              /\ UNCHANGED <<client, req, keep_alive, left, owned, content>>

(* A directory without its slash, or one with an index file.               *)
Redirect == Opened /\ \E code \in {"301", "303"} : SendHeaderOnly(code, 0)

(* check_etag: the client has it already.                                  *)
NotModified == Opened /\ SendHeaderOnly("304", None)

(* write_file, and write_dir with the page it made or with a cached one:   *)
(* header with the size, and the content.                                  *)
SendFile == /\ Opened
            /\ SendHttpHeader("200", FILE, keep_alive, {})
            /\ content' = FILE
            /\ Result("0")
            /\ UNCHANGED <<client, req, keep_alive, left, owned>>

(* write_dir when list_dir fails: the test for an error is never true of   *)
(* an unsigned length, which is declared, and no write can take.           *)
ListingFails == /\ Opened /\ "list" \in FAULTS
                /\ SendHttpHeader("200", Wrapped, keep_alive, {"list"})
                /\ Result("0")
                /\ UNCHANGED <<client, req, keep_alive, left, owned, content>>

(* fd_copy: the file ends before the size that fstat told.                 *)
SendFileShort == /\ Opened /\ "shrink" \in FAULTS
                 /\ SendHttpHeader("200", FILE, keep_alive, {"short"})
                 /\ content' \in 0 .. FILE - 1
                 /\ Result("0")
                 /\ UNCHANGED <<client, req, keep_alive, left, owned>>

(* fd_copy finds no memory when the header is out already; write_dir does  *)
(* not hear of it when it sends a cached listing.                          *)
SendFileNoMemory == /\ Opened /\ "nomem" \in FAULTS
                    /\ SendHttpHeader("200", FILE, keep_alive, {"nomem"})
                    /\ Result("ERR_NOMEM") \/ (CACHE /\ Result("0"))
                    /\ UNCHANGED <<client, req, keep_alive, left, owned, content>>

(* A range that does not fit or cannot be read, no memory for a list, no   *)
(* pipe or process for a script.                                           *)
ContentRefused ==
  /\ Opened
  /\ \E r \in {"ERR_RANGE_NOT_SATISFIABLE", "ERR_NOTHTTP", "ERR_NOMEM"} : Result(r)
  /\ UNCHANGED <<client, req, keep_alive, left, owned, response>>

(* The range of a cached listing: cache_send_item drops the result of      *)
(* write_file, and write_dir returns 0.                                    *)
RefusalDropped == /\ Opened /\ CACHE
                  /\ hit' = hit \cup {"dropped"}
                  /\ Result("0")
                  /\ UNCHANGED <<client, req, keep_alive, left, owned, heads, declared, connection,
                                 content, told>>

(* The flag cleared after the header.                                      *)
SendUnsizedLate(code, r) == /\ keep_alive' = FALSE
                            /\ SendHttpHeader(code, None, keep_alive, {})
                            /\ Result(r)
                            /\ UNCHANGED <<client, req, left, owned>>

(* Content of unknown size: the connection will not be kept, and says so.  *)
SendUnsized(code, r) == /\ keep_alive' = FALSE
                        /\ SendHttpHeader(code, None, FALSE, {})
                        /\ Result(r)
                        /\ UNCHANGED <<client, req, left, owned>>

SendTar == /\ Opened /\ TAR
           /\ \/ SendUnsized("200", "0") /\ content' = FILE
              \/ /\ "tar" \in FAULTS
                 /\ \E r \in {"ERR_BRKPIPE", "ERR_NOMEM"} : SendUnsized("200", r)
                 /\ content' \in 0 .. FILE

(* No memory for the extra headers, when the flag is cleared already.      *)
SendTarNoMemory == /\ Opened /\ TAR /\ "nomem" \in FAULTS
                   /\ keep_alive' = FALSE
                   /\ hit' = hit \cup {"nomem"}
                   /\ Result("ERR_NOMEM")
                   /\ UNCHANGED <<client, req, left, owned, heads, declared, connection,
                                  content, told>>

(* exec_page: headers and output of the script, or a 500 without them.     *)
ExecPage == /\ Opened /\ CGI
            /\ SendUnsized("200", "0")
            /\ content' \in 0 .. FILE

(* A script without headers that is answered by nothing.                   *)
ExecPageSilent == /\ Opened /\ CGI
                  /\ Result("0")
                  /\ UNCHANGED <<client, req, keep_alive, left, owned, response>>

ExecPageFails == /\ Opened /\ CGI
                 /\ SendPage(FILE) \/ PageNotSent
                 /\ Result("0")
                 /\ UNCHANGED <<client, req, keep_alive, left, owned>>

Get == \/ OpenFails \/ OpenFile
       \/ Redirect \/ NotModified
       \/ SendFile \/ SendFileShort \/ SendFileNoMemory \/ ListingFails
       \/ ContentRefused \/ RefusalDropped
       \/ SendTar \/ SendTarNoMemory \/ ExecPage \/ ExecPageFails
-----------------------------------------------------------------------------
(* read_file: refused without a provider, without a length, or when the    *)
(* file cannot be opened or sized; the body stays where it is.             *)
PutRefused == /\ Handling({"PUT"})
              /\ \/ ~authsock /\ Result("ERR_FORBIDDEN")
                 \/ authsock /\ req.length < 0 /\ Result("ERR_NODATA")
                 \/ authsock /\ req.length >= 0 /\ "put" \in FAULTS
                         /\ \E r \in {"ERR_FILENOTFOUND", "ERR_NOMEM"} : Result(r)
              /\ unread' = (unread \/ req.length > 0)
              /\ UNCHANGED <<client, req, keep_alive, left, post, lost, strfile_fd,
                             badclose, response>>

PutStarts == /\ Handling({"PUT"}) /\ authsock /\ req.length >= 0
             /\ left' = req.length
             /\ Go("put")
             /\ UNCHANGED <<client, req, keep_alive, owned, retval, response>>

PutReads == /\ pc = "put" /\ left > 0
            /\ wire # <<>> /\ Head(wire) = Body
            /\ wire' = Tail(wire)
            /\ left' = left - 1
            /\ UNCHANGED <<authsock, unsent, gone, deaf, asked, pc, req, keep_alive, owned, retval, response>>

(* buffer_read returns 0, write returns 0, and the loop goes on.           *)
PutReadsNothing == /\ pc = "put" /\ left > 0 /\ ReadGivesUp
                   /\ UNCHANGED vars

PutWriteFails == /\ pc = "put" /\ left > 0 /\ "put" \in FAULTS
                 /\ wire # <<>> /\ Head(wire) = Body
                 /\ wire' = Tail(wire)
                 /\ left' = 0
                 /\ unread' = (unread \/ left > 1)
                 /\ Result("ERR_BRKPIPE")
                 /\ UNCHANGED <<authsock, unsent, gone, deaf, asked, req, keep_alive, post, lost,
                                strfile_fd, badclose, response>>

PutDone == /\ pc = "put" /\ left = 0
           /\ \E r \in {"OK_CREATED", "OK_NOCONTENT"} : Result(r)
           /\ UNCHANGED <<client, req, keep_alive, left, owned, response>>

Put == PutRefused \/ PutStarts \/ PutReads \/ PutReadsNothing \/ PutWriteFails \/ PutDone
-----------------------------------------------------------------------------
(* delete_file, mkcol and copy_move answer through their result only;      *)
(* copy_move does not ask for a provider.                                  *)
Answers(results) == /\ \E r \in results : Result(r)
                    /\ UNCHANGED <<client, req, keep_alive, left, owned, response>>

DeleteFile == /\ Handling({"DELETE"})
              /\ Answers(IF authsock THEN {"ERR_FILENOTFOUND", "ERR_FORBIDDEN", "OK_NOCONTENT"}
                         ELSE {"ERR_FORBIDDEN"})

MkCol == /\ Handling({"MKCOL"})
         /\ Answers(IF authsock THEN {"OK_CREATED", "ERR_FORBIDDEN", "ERR_CONFLICT",
                                  "ERR_SERVICE_UNAVAILABLE", "ERR_NOT_ALLOWED",
                                  "ERR_INSUFFICIENT_STORAGE"}
                    ELSE {"ERR_FORBIDDEN"})

CopyMove == /\ Handling({"COPY", "MOVE"})
            /\ Answers({"OK_CREATED", "OK_NOCONTENT", "ERR_NOTHTTP", "ERR_FORBIDDEN",
                        "ERR_PRECONDITION_FAILED", "ERR_FILENOTFOUND", "ERR_NOMEM",
                        "ERR_BRKPIPE"})

Options == Handling({"OPTIONS"}) /\ SendHeaderOnly("200", None)

(* propfind: the result of an early return, a redirect, or the listing.    *)
PropfindRefused ==
  /\ Handling({"PROPFIND"})
  /\ \E r \in IF authsock THEN {"ERR_FILENOTFOUND", "ERR_NODATA"} ELSE {"ERR_FORBIDDEN"} :
        Result(r)
  /\ UNCHANGED <<client, req, keep_alive, left, owned, response>>

PropfindRedirect == Handling({"PROPFIND"}) /\ authsock /\ SendHeaderOnly("301", None)

PropfindLists == /\ Handling({"PROPFIND"}) /\ authsock
                 /\ SendUnsized("207", "0")
                 /\ content' = FILE
-----------------------------------------------------------------------------
(* The close at the end of send_page closes what strfile_fd still names.   *)
ClosesFd == req.method \in {"GET", "POST"} /\ strfile_fd # "none"

(* The results of requests that close a descriptor they did not open.      *)
ClosedWrongly == badclose \cup (IF ClosesFd /\ strfile_fd # "open" THEN {retval} ELSE {})

(* An escape that keeps the buffer of the body.                            *)
CleanUpNoFree == /\ post' = FALSE
                 /\ lost' = lost \cup (IF post THEN {"escape"} ELSE {})
                 /\ strfile_fd' = IF ClosesFd THEN "stale" ELSE strfile_fd
                 /\ badclose' = ClosedWrongly
                 /\ UNCHANGED unread

(* An escape that leaves the file open.                                    *)
CleanUpLeavesOpen == /\ post' = FALSE
                     /\ UNCHANGED <<lost, strfile_fd, badclose, unread>>

(* escape: free the body, close the file.                                  *)
CleanUp == /\ post' = FALSE
           /\ strfile_fd' = IF ClosesFd THEN "stale" ELSE strfile_fd
           /\ badclose' = ClosedWrongly
           /\ UNCHANGED <<lost, unread>>

(* ... and send_error_header: nothing for 0, a header for 201 and 204, a   *)
(* page for the rest.                                                      *)
Status == [OK_CREATED |-> "201", OK_NOCONTENT |-> "204"]

Escape == /\ pc = "escape"
          /\ CleanUp
          /\ \/ retval = "0" /\ UNCHANGED response
             \/ /\ retval \in DOMAIN Status
                /\ HeaderSent(Status[retval], None, keep_alive)
                /\ UNCHANGED <<content, hit>>
             \/ retval \notin {"0"} \cup DOMAIN Status /\ SendPage(FILE)
          /\ Go("done")
          /\ UNCHANGED <<client, req, keep_alive, left, retval>>

(* The answer cannot be written or made: send_page returns less than 0.    *)
EscapeFails == /\ pc = "escape" /\ retval # "0"
               /\ CleanUp
               /\ \/ PageNotSent
                  \/ gone /\ UNCHANGED response
               /\ Go("closed")
               /\ UNCHANGED <<client, req, keep_alive, left, retval>>

(* The next pipelined request, or the end of the connection.               *)
Done == /\ pc = "done"
        /\ Go(IF keep_alive THEN "read" ELSE "closed")
        /\ heads' = 0 /\ declared' = None /\ connection' = None /\ content' = 0
        /\ told' = "none" /\ hit' = {}
        /\ retval' = "0"
        /\ UNCHANGED <<client, req, keep_alive, left, owned>>

Server == \/ ReadRequest \/ ReadBadRequest \/ BadRequest \/ ReadEnds
          \/ Authorized \/ Refused \/ Discarded
          \/ StartPost \/ NoPost \/ ReadBody \/ PostRead
          \/ Get \/ Put \/ DeleteFile \/ MkCol \/ CopyMove \/ Options
          \/ PropfindRefused \/ PropfindRedirect \/ PropfindLists
          \/ Escape \/ EscapeFails \/ Done

Closed == pc = "closed" /\ UNCHANGED vars

Next == Client \/ Server \/ Closed

Spec == Init /\ [][Next]_vars

(* The next step of the worker writes to the client, and may wait for it:  *)
(* the content, or what send_error_header has to say.                      *)
Writing == \/ pc = "handle" /\ (strfile_fd = "open" \/ req.method \in {"OPTIONS", "PROPFIND"})
           \/ pc = "escape" /\ retval # "0"

Blocked == Writing /\ deaf /\ ~gone

(* The worker runs; its reads end by READ_TIMEOUT, its writes end if the   *)
(* client reads or is gone (they may end otherwise, when what is left fits *)
(* the socket's buffer).  The client does not stop in the middle of a body *)
(* without being gone.                                                     *)
FairSpec == Spec /\ WF_vars(Server /\ ~Blocked) /\ WF_vars(ClientSendsBody)
-----------------------------------------------------------------------------
(* Types of the fields of connection_t and of the response.                *)
HttpTypeOK ==
  /\ \A k \in DOMAIN wire : wire[k] = Body \/ wire[k] \in Requests
  /\ pc \in {"read", "bad_request", "auth", "dispatch", "discard", "post", "handle",
             "put", "escape", "done", "closed"}
  /\ req \in Requests /\ keep_alive \in BOOLEAN
  /\ left >= 0 /\ (left > 0 => pc \in {"post", "discard", "put"})
  /\ strfile_fd \in {"garbage", "none", "open", "stale"}
  /\ strfile_fd = "open" => pc \in {"handle", "escape"} /\ req.method \in {"GET", "POST"}
  /\ post => ReadsPost /\ pc \in {"post", "handle", "escape"}
  /\ declared \in {None, Wrapped, 0, FILE} /\ content \in 0 .. 2 * FILE
  /\ told \in {"none", "200", "201", "204", "207", "301", "303", "304", "page"}
  /\ hit \subseteq {"short", "nomem", "list", "dropped"}
  /\ lost \subseteq {"auth", "escape"} /\ {unread, deaf} \subseteq BOOLEAN

(* Requests stay in step with the stream: handle_requests never takes      *)
(* bytes of a body for the beginning of a request ("Consume request        *)
(* body").  The exceptions are a PUT that read_file gives up and a body    *)
(* for which read_post_data finds no memory: what was not read of them     *)
(* stays in the stream.                                                    *)
BodyNeverParsed == pc = "read" /\ wire # <<>> /\ Head(wire) = Body => unread

(* A head that must tell a length and does not: the 200 of OPTIONS, every  *)
(* 201 and the redirect of PROPFIND.                                       *)
LengthForgotten == \/ told = "201"
                   \/ told = "200" /\ req.method = "OPTIONS"
                   \/ told = "301" /\ req.method = "PROPFIND"

(* A connection goes on only after one complete response: one head, and    *)
(* exactly the content it declared, or neither length nor content where    *)
(* the status allows none (204, 304) and in the three answers that forget  *)
(* the length.  It goes on out of step when something befell the response: *)
(* the file was shorter than fstat said; there was no memory for the head  *)
(* (the content follows without one), for a page or for fd_copy; list_dir  *)
(* failed; or the refusal of a cached listing was dropped.                 *)
FramedWhenKept ==
  pc = "done" /\ keep_alive /\ hit = {} =>
     /\ heads = 1
     /\ content = IF declared = None THEN 0 ELSE declared
     /\ declared = None => told \in {"204", "304"} \/ LengthForgotten

(* Client and server agree on whether the connection goes on: what the     *)
(* client must conclude from its request and from the Connection header is *)
(* what handle_requests does, whenever a head went out and memory was      *)
(* there.  Only an HTTP/1.0 client that asked to go on and got a page of   *)
(* send_err, which names no Connection, is left waiting.                   *)
ClientExpectsMore == /\ WantsKeepAlive(req)
                     /\ connection # "close"
                     /\ req.version # "1.1" => connection = "keep-alive"

ConnectionAgreed ==
  /\ pc = "done" /\ heads > 0 /\ "nomem" \notin hit
  /\ req.version = "1.1" \/ told # "page"
  => (keep_alive <=> ClientExpectsMore)

(* Both: a connection that goes on does so for both sides, from the end of *)
(* a whole response.                                                       *)
InStep == FramedWhenKept /\ ConnectionAgreed

(* Whatever happens to a request send_page is called for, a client that is *)
(* there gets an answer: the handlers that return 0 have sent theirs,      *)
(* send_error_header sends "an appropriate error" for every other result.  *)
(* It gets none when there was no memory for it, and when write_dir lost   *)
(* the refusal of a cached listing.  (Bytes that are no request never get  *)
(* one: BadRequest.)                                                       *)
EndsRequest == pc = "escape" /\ pc' \in {"done", "closed"}

RequestAnswered ==
  [][EndsRequest /\ ~gone => heads' > 0 \/ hit' \cap {"nomem", "dropped"} # {}]_vars

(* send_page closes the file it opened, and no other descriptor.  Only a   *)
(* GET or POST that is refused closes what an earlier request left in      *)
(* strfile_fd.                                                             *)
ClosesOwnFile == badclose \subseteq {"ERR_NOAUTH"}

(* Every buffer read_post_data allocates is freed, but the one a refused   *)
(* request's body is read into.                                            *)
PostFreed == lost \subseteq {"auth"}

(* Both: send_page gives back what it took, and nothing else.              *)
ReleasesOwn == ClosesOwnFile /\ PostFreed

(* A request that is being handled comes to its end, also when the client  *)
(* sends nothing more or is gone.  Two things hold it for ever: the loop   *)
(* of read_file, which does not end when the rest of the body never comes, *)
(* and a client that stays without reading what the worker writes.         *)
PutAbandoned == pc = "put" /\ gone

RequestEnds ==
  pc \notin {"read", "closed"} ~> (pc \in {"read", "closed"} \/ PutAbandoned \/ Blocked)
=============================================================================

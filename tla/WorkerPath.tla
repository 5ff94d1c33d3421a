----------------------------- MODULE WorkerPath -----------------------------
(***************************************************************************)
(* One worker from the command line to its answers: the configuration the  *)
(* options leave (Startup) decides what the worker does with the heads it  *)
(* finds on its connections (HeadScan), with their URLs (UrlPath), with    *)
(* the credentials in them (AuthDialogue) and with what the URL names:     *)
(* a file (RangeRequest), a script (CgiEnv), a directory (Listing), or its *)
(* properties (PropFind).  The order is that of handle_requests, send_page *)
(* and get_or_post (instance.c); the worker's buffer and the configuration *)
(* outlive the connections.                                                *)
(***************************************************************************)
EXTENDS Startup, UrlPath, AuthDialogue, RangeRequest, Listing, CgiEnv, PropFind

CONSTANTS Cases,        \* how the server is started: argv, world, and a topic
          Texts(_, _),  \* what the k-th client of a topic may send: text, stall
          Asks(_),      \* what the requests of a topic may ask for, see NoAsk
          Names,        \* names of files
          FNAMELEN,     \* ESCAPED_FNAME_LEN
          MaxConns,     \* bound: connections
          MaxAsked      \* bound: requests

VARIABLES plan,         \* the case being played
          conns, served,        \* connections and requests so far
          answer,       \* where send_page is
          ask,          \* the rest of the request: see the cases
          basedir,      \* connection_prop->basedir
          executor,     \* what runs the script, or Unset
          status        \* the answer given: a code, ByScript, ByTar or 0

ByScript == 1
ByTar == 2

pathVars == <<plan, conns, served, answer, ask, basedir, executor, status>>
answerVars == <<rangeVars, listVars, cgiVars, propVars>>
vars == <<bootVars, headVars, urlVars, authVars, answerVars, pathVars>>

(* ask.who: the credentials; ask.host: the Host field or Unset;            *)
(* ask.what: "missing", "file" or "directory", with ask.want (see          *)
(* RangeRequest), or ask.entries, ask.found (the index files there) and    *)
(* ask.readable, or "properties" with ask.query (see PropFind); ask.lines: *)
(* the header fields.                                                      *)
NoAsk == [lines |-> << <<>> >>, query |-> NoQuery, who |-> Anonymous, host |-> Unset, what |-> "missing", want |-> NoFile,
          entries |-> <<>>, found |-> {}, memory |-> TRUE, readable |-> TRUE, keep |-> FALSE]

(* Any bytes may come on a connection and in the credentials; files, bodies*)
(* and directories are of their kinds.                                     *)
AskType(a) ==
  /\ WantType(a.want) /\ DOMAIN a.want = DOMAIN NoFile /\ (a.who = Anonymous \/ a.who \in Claims)
  /\ QueryType(a.query) /\ DOMAIN a.query = DOMAIN NoQuery
  /\ a.lines \in Seq(Seq(0 .. 255)) /\ a.lines # <<>> /\ (a.host = Unset \/ a.host \in Seq(0 .. 255))
  /\ a.entries \in Seq(Entries) /\ a.memory \in BOOLEAN /\ a.readable \in BOOLEAN
Topics == {c.topic : c \in Cases}
ASSUME CasesTyped == \A c \in Cases : CommandLine(c.argv) /\ WorldType(c.world)
ASSUME AsksTyped == \A topic \in Topics : \A a \in Asks(topic) : AskType(a)
ASSUME TextsTyped == \A topic \in Topics, k \in 1 .. MaxConns : \A t \in Texts(topic, k) :
                       t.text \in Seq(0 .. 255) /\ t.stall \in BOOLEAN
ASSUME MaxConnsNat == MaxConns \in Nat
ASSUME MaxAskedNat == MaxAsked \in Nat

(* Names are strings without a slash, as a directory has them, and as      *)
(* ESCAPED_FNAME_LEN expects not longer than a third of it.                *)
ASSUME NamesFit ==
  FNAMELEN \in Nat /\ \A n \in Names : n \in Seq((1 .. 255) \ {SLASH}) /\ 3 * Len(n) < FNAMELEN

PathTypeOK ==
  /\ BootTypeOK /\ ScanTypeOK /\ UrlTypeOK /\ AuthTypeOK /\ RangeTypeOK /\ ListTypeOK
  /\ EnvTypeOK /\ PropTypeOK
  /\ answer \in {"idle", "dispatch", "file", "list", "script", "properties", "done"}
  /\ status \in {0, ByScript, ByTar, 200, 206, 207, 301, 303, 304, 400, 401, 403, 404, 416, 503}
  /\ conns \in 0 .. MaxConns /\ served \in 0 .. MaxAsked

Init ==
  /\ plan \in Cases
  /\ BootInit(plan.argv, plan.world)
  /\ ScanInit /\ UrlInit /\ AuthInit /\ RangeInit /\ ListInit /\ CgiInit /\ PropInit
  /\ conns = 0 /\ served = 0 /\ answer = "idle" /\ ask = NoAsk
  /\ basedir = Unset /\ executor = Unset /\ status = 0

Boot == BootStep /\ UNCHANGED <<headVars, urlVars, authVars, answerVars, pathVars>>

(* A connection for the worker, with whatever its client sends.            *)
NewConnection ==
  /\ conns < MaxConns /\ served < MaxAsked
  /\ \E t \in Texts(plan.topic, conns + 1) : Accept(t.text, t.stall)
  /\ conns' = conns + 1
  /\ UNCHANGED <<bootVars, urlVars, authVars, answerVars, plan, served, answer,
                 ask, basedir, executor, status>>

(* q_get gives it one after the other; inetd() serves only one, and then   *)
(* exits.                                                                  *)
Connect == boot = "serving" /\ NewConnection
Inetd == boot = "inetd" /\ conns = 0 /\ NewConnection

Scan == ScanStep /\ UNCHANGED <<bootVars, urlVars, authVars, answerVars, pathVars>>
Url == UrlStep /\ UNCHANGED <<bootVars, authVars, answerVars, pathVars>>

(* get_basedir: the directory of the host, when virtual hosts are in use   *)
(* and the environment has one; getenv finds nothing for an empty name.    *)
GetBasedir(host) ==
  LET dirs == {p[2] : p \in {q \in env : q[1] = host}}
  IN  IF ~conf.V \/ host \in {Unset, <<>>} \/ dirs = {} THEN conf.b ELSE CHOOSE d \in dirs : TRUE

(* The URL is ready: the base directory is found and the request checked.  *)
Authenticate ==
  /\ url = "done" /\ answer = "idle"
  /\ \E a \in Asks(plan.topic) :
       /\ ask' = a /\ basedir' = GetBasedir(a.host)
       /\ AuthCheck(conf.a # Unset, a.who, CText(buf, page), CText(buf, 0))
  /\ answer' = "dispatch"
  /\ UNCHANGED <<bootVars, headVars, urlVars, answerVars, plan, conns, served,
                 executor, status>>

Auth == AuthStep /\ UNCHANGED <<bootVars, headVars, urlVars, answerVars, pathVars>>

(* The part of send_page and get_or_post that decides what the answer is.  *)
Decided == answer = "dispatch" /\ auth = "done"
Granted == Decided /\ result = "granted"
Strfile == basedir \o CText(buf, page)
Answer(code_) == answer' = "done" /\ status' = code_
Stay == UNCHANGED <<bootVars, headVars, urlVars, authVars, plan, conns, served, ask, basedir>>

Refused == /\ Decided /\ result # "granted" /\ Answer(401)
           /\ Stay /\ UNCHANGED <<answerVars, executor>>
Missing == /\ Granted /\ ask.what = "missing" /\ Answer(404)
           /\ Stay /\ UNCHANGED <<answerVars, executor>>

(* endsWith at page + page_len - f_len for every extension in turn; where  *)
(* that is before the buffer, whatever lies there is too short to match,   *)
(* as there is a NUL behind the method.  The mutant takes the pairs of the *)
(* list the other way round.                                               *)
Extensions == {k \in DOMAIN conf.c : k % 2 = 1}
Matches(k) == LET at == page + page_len - Len(conf.c[k])
              IN  at >= 0 /\ EndsWith(buf, at, conf.c[k])
Hits == {k \in Extensions : Matches(k)}
FirstHit == CHOOSE k \in Hits : \A j \in Hits : k <= j
ProgramBefore(k) == conf.c[k]
Program(k) == conf.c[k + 1]

Script ==
  /\ Granted /\ ask.what = "file" /\ conf.Y /\ Hits # {}
  /\ executor' = Program(FirstHit) /\ CgiStart(ask.lines) /\ answer' = "script"
  /\ Stay /\ UNCHANGED <<rangeVars, listVars, propVars, status>>
File ==
  /\ Granted /\ ask.what = "file" /\ (conf.Y => Hits = {})
  /\ WriteFile([ask.want EXCEPT !.mime = conf.m, !.threaded = (boot # "inetd")])
  /\ answer' = "file"
  /\ Stay /\ UNCHANGED <<listVars, cgiVars, propVars, executor, status>>

(* A directory: sent as a tar file, redirected to the same page with a     *)
(* slash or to the first index file that is there, or listed unless the    *)
(* client has this version of it.                                          *)
Slashed == Strfile[Len(Strfile)] = SLASH
Index == \E k \in DOMAIN conf.I : conf.I[k] \in ask.found
Directory ==
  /\ Granted /\ ask.what = "directory" /\ Stay /\ UNCHANGED <<rangeVars, cgiVars, propVars, executor>>
  /\ \/ conf.t /\ Answer(ByTar) /\ UNCHANGED listVars
     \/ ~conf.t /\ ~Slashed /\ Answer(301) /\ UNCHANGED listVars
     \/ ~conf.t /\ Slashed /\ Index /\ Answer(303) /\ UNCHANGED listVars
     \/ /\ ~conf.t /\ Slashed /\ ~Index /\ NotChanged(ask.want)
        /\ Answer(304) /\ UNCHANGED listVars
     \/ /\ ~conf.t /\ Slashed /\ ~Index /\ ~NotChanged(ask.want)
        /\ ScanDir(ask.entries, StrLen(buf, page) > 1, ask.memory, ask.readable)
        /\ answer' = "list" /\ UNCHANGED status

(* PROPFIND.                                                               *)
Properties ==
  /\ Granted /\ ask.what = "properties"
  /\ Propfind([ask.query EXCEPT !.threaded = (boot # "inetd")], conf.a # Unset, Strfile)
  /\ answer' = "properties"
  /\ Stay /\ UNCHANGED <<rangeVars, listVars, cgiVars, executor, status>>
PropertiesStep ==
  /\ PropStep
  /\ UNCHANGED <<bootVars, headVars, urlVars, authVars, rangeVars, listVars, cgiVars, pathVars>>
PropertiesSent ==
  /\ answer = "properties" /\ pf = "done" /\ Answer(dav_code)
  /\ Stay /\ UNCHANGED <<answerVars, executor>>

Cgi == /\ answer = "script" /\ CgiStep(executor, Strfile, basedir)
       /\ UNCHANGED <<bootVars, headVars, urlVars, authVars, rangeVars, listVars, propVars, pathVars>>
ScriptRun ==
  /\ answer = "script" /\ cgi = "done" /\ Answer(ByScript)
  /\ Stay /\ UNCHANGED <<answerVars, executor>>

Copy == /\ RangeStep
        /\ UNCHANGED <<bootVars, headVars, urlVars, authVars, listVars, cgiVars, propVars, pathVars>>
FileSent ==
  /\ answer = "file" /\ rng = "done" /\ Answer(http_code)
  /\ Stay /\ UNCHANGED <<answerVars, executor>>

List == /\ ListStep
        /\ UNCHANGED <<bootVars, headVars, urlVars, authVars, rangeVars, cgiVars, propVars, pathVars>>
ListSent ==
  /\ answer = "list" /\ lst = "done" /\ Answer(IF refused THEN 503 ELSE 200)
  /\ Stay /\ UNCHANGED <<answerVars, executor>>

(* The connection is kept or closed.  A failed write ends it.              *)
Again ==
  /\ answer = "done" /\ served < MaxAsked
  /\ NextRequest(ask.keep /\ ~cut /\ status \notin {ByScript, ByTar, 207})
  /\ UrlReset /\ AuthReset /\ RangeReset /\ ListReset /\ CgiReset /\ PropReset
  /\ served' = served + 1 /\ answer' = "idle" /\ ask' = NoAsk
  /\ basedir' = Unset /\ executor' = Unset /\ status' = 0
  /\ UNCHANGED <<bootVars, plan, conns>>

Next == Boot \/ Connect \/ Inetd \/ Scan \/ Url \/ Authenticate \/ Auth \/ Refused \/ Missing
        \/ Script \/ Cgi \/ ScriptRun \/ File \/ Copy \/ FileSent \/ Directory \/ List \/ ListSent
        \/ Properties \/ PropertiesStep \/ PropertiesSent \/ Again
Spec == Init /\ [][Next]_vars
-----------------------------------------------------------------------------
(* The page ends in the text ext.                                          *)
PageEnds(ext) == LET text == CText(buf, page)
                 IN  Len(ext) <= Len(text)
                     /\ SubSeq(text, Len(text) - Len(ext) + 1, Len(text)) = ext

(* A file is run exactly when scripts are enabled and its page ends in one *)
(* of the extensions, and by the program given with the first of them,     *)
(* through the list the option was cut into and a length that was noted    *)
(* before the page was decoded.  Excepted: a page whose length changed     *)
(* when it was decoded (page_len is stale then) is compared at the wrong   *)
(* place, and an extension that starts with a blank may match one before   *)
(* the page.                                                               *)
ScriptRecognized ==
  (answer \in {"file", "script", "done"} /\ ask.what = "file" /\ auth = "done" /\ result = "granted"
     /\ ~PageLenStale /\ \A k \in Extensions : conf.c[k][1] # SP) =>
    LET ends == {k \in Extensions : PageEnds(conf.c[k])}
    IN  IF conf.Y /\ ends # {}
        THEN executor = conf.c[(CHOOSE k \in ends : \A j \in ends : k <= j) + 1]
        ELSE executor = Unset

(* A script is run where it lies and by what it was configured for: its    *)
(* interpreter is given the name of the script in the working directory,   *)
(* or the script itself is the program.  Excepted: a script without an     *)
(* interpreter below a relative base directory, whose path no longer leads *)
(* to it once the working directory was changed, and one whose path has no *)
(* slash at all.                                                           *)
Seen(dir, path) == IF path[1] = SLASH THEN path ELSE dir \o <<SLASH>> \o path
ScriptRuns ==
  (cgi = "done" /\ HasSlash(Strfile)) =>
    IF executor # <<>>
    THEN exec.program = executor /\ exec.dir \o <<SLASH>> \o exec.file = Strfile
    ELSE Strfile[1] = SLASH => Seen(exec.dir, exec.program) = Strfile

(* The link list_dir writes for a name leads to that name, through the     *)
(* request a client makes of it, the head, the split at the question mark  *)
(* and the decoding; for a directory, whose link has a slash, too.  And    *)
(* what the encoders write fits, with its NUL, in the buffer they got.     *)
(* Excepted: a directory whose name ends in "..", as its link has "../".   *)
Links == [n \in Names |-> UriEncode(n, FNAMELEN)]
Shows == [n \in Names |-> HtmlEncode(n, FNAMELEN)]
LinksLeadBack ==
  (url = "done" /\ answer = "idle") => \A n \in Names :
    LET link == Links[n]
    IN  /\ Len(link) < FNAMELEN /\ Len(Shows[n]) < FNAMELEN
        /\ RawUrl = <<SLASH>> \o link => CText(buf, page) = <<SLASH>> \o n
        /\ RawUrl = <<SLASH>> \o link \o <<SLASH>> =>
             \/ CText(buf, page) = <<SLASH>> \o n \o <<SLASH>>
             \/ Before(n \o <<SLASH>>, ParentDir) # n \o <<SLASH>>

(* What a host is given on the command line: the text behind the last      *)
(* "host=" that starts an item, in the last option that has one.           *)
Starts(list, host) ==
  {i \in 1 .. Len(list) - Len(host) : /\ i = 1 \/ list[i - 1] = COMMA
                                     /\ SubSeq(list, i, i + Len(host)) = host \o <<EQUALS>>}
Naming(host) == {k \in Uses("V") : Starts(cmdline[k][2], host) # {}}
DirIn(list, host) ==
  Before(SubSeq(list, Latest(Starts(list, host)) + Len(host) + 1, Len(list)), <<COMMA>>)
GivenDir(host) == DirIn(cmdline[Latest(Naming(host))][2], host)

(* A list of hosts with their directories, and what may be a host in it.   *)
Keyed(list) ==
  /\ NoEmpty(list)
  /\ \A i \in DOMAIN list : i = 1 \/ list[i - 1] = COMMA =>
       \E j \in i .. Len(list) : list[j] = EQUALS /\ \A m \in i .. j : list[m] # COMMA
PlainHost(host) == \A i \in DOMAIN host : host[i] \notin {COMMA, EQUALS}

(* Every request is served from the directory given last for its host on   *)
(* the command line, and from the base directory when none was given or    *)
(* virtual hosts are not in use.  Excepted: with virtual hosts in use, a   *)
(* variable of that name in the environment the server was started with    *)
(* counts as a host.  Stated for lists without empty items, where every    *)
(* item has an equals sign (putenv of a name alone removes it).            *)
HostServed ==
  answer # "idle" =>
    IF ~Given("V") \/ ask.host \in {Unset, <<>>} THEN basedir = conf.b
    ELSE (PlainHost(ask.host) /\ \A k \in Uses("V") : Keyed(cmdline[k][2])) =>
      IF Naming(ask.host) # {} THEN basedir = GivenDir(ask.host)
      ELSE basedir = conf.b \/ <<ask.host, basedir>> \in world.env

(* Both: what serves a request, directory and interpreter, is what the     *)
(* command line gives for its host and its name.                           *)
ServedAsConfigured == HostServed /\ ScriptRecognized

(* All three: a script is started where, by what and with what it was      *)
(* meant to be.                                                            *)
ScriptRight == ScriptRuns /\ ScriptEnvExact /\ RequestUriWhole

(* Both: a client that follows a link of a listing or an href of a         *)
(* PROPFIND answer gets what the link was written for.                     *)
NamesLeadBack == LinksLeadBack /\ HrefsLeadBack
=============================================================================

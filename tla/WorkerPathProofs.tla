-------------------------- MODULE WorkerPathProofs --------------------------
(***************************************************************************)
(* Proofs about a worker's path from the options of weborf to the answer   *)
(* of a request, for every configuration, every client and every size of   *)
(* the buffers.  The worker's steps are steps of the parts, so that what   *)
(* RequestProofs shows of them holds of the worker; the other sections are *)
(* about what only the whole has: the answers to PROPFIND, the start-up,   *)
(* scripts, what serves a request, and where the links of an answer lead.  *)
(***************************************************************************)
EXTENDS WorkerPath, RequestProofs

(* The worker.  Its steps are steps of the parts, since the requests, the  *)
(* streams and the configuration that drive them are of the kinds the      *)
(* parts expect.                                                           *)
Driven == /\ plan \in Cases /\ conns \in Nat /\ AskType(ask)
          /\ "m" \in DOMAIN conf /\ conf["m"] \in BOOLEAN

LEMMA NoAskTyped == AskType(NoAsk)
  <1>1. /\ NoAsk.want = NoFile /\ NoAsk.who = Anonymous /\ NoAsk.entries = <<>> /\ NoAsk.query = NoQuery
        /\ NoAsk.lines = << <<>> >> /\ NoAsk.memory = TRUE /\ NoAsk.readable = TRUE /\ NoAsk.host = Unset
    BY DEF NoAsk
  <1>2. WantType(NoFile)
    BY HalfPositive DEF NoFile, WantType
  <1>3. QueryType(NoQuery)
    <2>1. NoQuery.body.items = <<>> /\ NoQuery.kids = <<>>
      BY DEF NoQuery, NoBody
    <2> QED
      BY <2>1 DEF QueryType
  <1>4. /\ DOMAIN NoAsk.want = DOMAIN NoFile /\ WantType(NoAsk.want)
        /\ DOMAIN NoAsk.query = DOMAIN NoQuery /\ QueryType(NoAsk.query)
    BY <1>1, <1>2, <1>3
  <1>5. NoAsk.entries \in Seq(Entries) /\ NoAsk.lines \in Seq(Seq(0 .. 255)) /\ NoAsk.lines # <<>>
    BY <1>1
  <1>6. NoAsk.memory \in BOOLEAN /\ NoAsk.readable \in BOOLEAN
    BY <1>1
  <1> HIDE DEF NoAsk
  <1> QED
    BY <1>1, <1>4, <1>5, <1>6, Zenon DEF AskType

LEMMA DrivenInit == Init => Driven
  <1> SUFFICES ASSUME Init PROVE Driven
    OBVIOUS
  <1>1. plan \in Cases /\ conns \in Nat /\ ask = NoAsk
    BY DEF Init
  <1>2. conf = DefaultConf
    BY DEF Init, BootInit
  <1>3. "m" \in Flags
    BY DEF Flags
  <1>4. "m" \in DOMAIN DefaultConf /\ DefaultConf["m"] = FALSE
    <2>1. "m" # "p" /\ "m" \notin {"u", "g"} /\ "m" # "b" /\ "m" # "c" /\ "m" # "I"
      OBVIOUS
    <2> QED
      BY <1>3, <2>1 DEF DefaultConf
  <1>5. AskType(NoAsk)
    BY NoAskTyped
  <1> QED
    BY <1>1, <1>2, <1>4, <1>5 DEF Driven

LEMMA BootMime ==
  ASSUME "m" \in DOMAIN conf, conf["m"] \in BOOLEAN, BootStep
  PROVE  "m" \in DOMAIN conf' /\ conf'["m"] \in BOOLEAN
  <1>1. ASSUME NEW o, NEW v, Set(o, v), o # "m" PROVE "m" \in DOMAIN conf' /\ conf'["m"] \in BOOLEAN
    BY <1>1 DEF Set
  <1>2. ASSUME NEW o, Set(o, TRUE) PROVE "m" \in DOMAIN conf' /\ conf'["m"] \in BOOLEAN
    BY <1>2 DEF Set
  <1>3. ASSUME UNCHANGED conf PROVE "m" \in DOMAIN conf' /\ conf'["m"] \in BOOLEAN
    BY <1>3
  <1>4. CASE OptFlag \/ OptVirtual
    BY <1>2, <1>4 DEF OptFlag, OptVirtual
  <1>5. CASE OptValue
    <2>1. Opt # "m" /\ Set(Opt, Arg)
      BY <1>5 DEF OptValue, Reads, Values
    <2> QED
      BY <1>1, <2>1
  <1>6. CASE OptBasedir \/ OptCache \/ OptAuth \/ OptCgi \/ OptIndex
    <2>1. "b" # "m" /\ "C" # "m" /\ "a" # "m" /\ "c" # "m" /\ "I" # "m"
      OBVIOUS
    <2>2. CASE OptBasedir
      BY <1>1, <1>3, <2>1, <2>2 DEF OptBasedir
    <2>3. CASE OptCache
      BY <1>1, <2>1, <2>3 DEF OptCache
    <2>4. CASE OptAuth
      BY <1>1, <1>3, <2>1, <2>4 DEF OptAuth
    <2>5. CASE OptCgi
      BY <1>1, <1>3, <2>1, <2>5 DEF OptCgi
    <2>6. CASE OptIndex
      BY <1>1, <1>3, <2>1, <2>6 DEF OptIndex
    <2> QED
      BY <1>6, <2>2, <2>3, <2>4, <2>5, <2>6
  <1>7. CASE OptInforms \/ OptUnknown
    BY <1>3, <1>7 DEF OptInforms, OptUnknown
  <1>8. CASE OptionsDone \/ BindAndListen \/ SetNewGid \/ SetNewUid \/ Daemonize \/ QInit
    BY <1>3, <1>8 DEF OptionsDone, BindAndListen, SetNewGid, SetNewUid, Daemonize, QInit
  <1> QED
    BY <1>4, <1>5, <1>6, <1>7, <1>8 DEF BootStep, ReadOption

(* Which parts a step leaves alone.                                        *)
HeadStill == UNCHANGED <<headVars, urlVars>>
AnswersStill == UNCHANGED rangeVars /\ UNCHANGED listVars
Kept == plan' = plan /\ conf' = conf /\ conns' = conns
LEMMA Stays ==
  ASSUME Stay
  PROVE  HeadStill /\ UNCHANGED authVars /\ Kept /\ ask' = ask
  BY DEF Stay, HeadStill, Kept, headVars, urlVars, authVars, bootVars

Answering == \/ Refused \/ Missing \/ Script \/ Cgi \/ ScriptRun \/ File \/ Copy \/ FileSent \/ Directory
             \/ List \/ ListSent \/ Properties \/ PropertiesStep \/ PropertiesSent
LEMMA AnsweringStays ==
  ASSUME Answering
  PROVE  HeadStill /\ UNCHANGED authVars /\ Kept /\ ask' = ask
  <1>1. CASE \/ Refused \/ Missing \/ Script \/ ScriptRun \/ File \/ FileSent \/ Directory
             \/ ListSent \/ Properties \/ PropertiesSent
    <2>1. Stay
      BY <1>1 DEF Refused, Missing, Script, ScriptRun, File, FileSent, Directory, ListSent, Properties,
                  PropertiesSent
    <2> QED
      BY <2>1, Stays
  <1>2. CASE Cgi \/ Copy \/ List \/ PropertiesStep
    <2>1. UNCHANGED <<bootVars, headVars, urlVars, authVars, pathVars>>
      BY <1>2 DEF Cgi, Copy, List, PropertiesStep
    <2> QED
      BY <2>1 DEF HeadStill, Kept, bootVars, pathVars
  <1> QED
    BY <1>1, <1>2 DEF Answering

LEMMA WantTyped ==
  ASSUME Driven
  PROVE  WantType([ask.want EXCEPT !.mime = conf.m, !.threaded = (boot # "inetd")])
  <1> DEFINE w == ask.want
  <1> DEFINE v == [w EXCEPT !.mime = conf.m, !.threaded = (boot # "inetd")]
  <1>1. WantType(w) /\ DOMAIN w = DOMAIN NoFile /\ conf["m"] \in BOOLEAN
    BY DEF Driven, AskType
  <1>2. DOMAIN w = {"size", "mtime", "mime", "threaded", "fields"}
    BY <1>1 DEF NoFile
  <1>3. v.size = w.size /\ v.mtime = w.mtime /\ v.fields = w.fields /\ v.mime = conf["m"]
        /\ v.threaded = (boot # "inetd")
    BY <1>2
  <1> HIDE DEF v, w
  <1>4. WantType(v)
    BY <1>1, <1>3 DEF WantType
  <1> QED
    BY <1>4 DEF v, w

LEMMA FileTyped ==
  ASSUME Driven, File
  PROVE  RangeNext /\ UNCHANGED listVars
  <1>1. /\ WriteFile([ask.want EXCEPT !.mime = conf.m, !.threaded = (boot # "inetd")])
        /\ UNCHANGED listVars
    BY DEF File
  <1> QED
    BY <1>1, WantTyped DEF RangeNext

LEMMA DirectoryTyped ==
  ASSUME Driven, Directory
  PROVE  UNCHANGED rangeVars /\ (UNCHANGED listVars \/ ListNext)
  <1>1. UNCHANGED rangeVars
    BY DEF Directory
  <1>2. CASE ScanDir(ask.entries, StrLen(buf, page) > 1, ask.memory, ask.readable)
    <2>1. ask.entries \in Seq(Entries) /\ ask.memory \in BOOLEAN /\ ask.readable \in BOOLEAN
          /\ (StrLen(buf, page) > 1) \in BOOLEAN
      BY DEF Driven, AskType
    <2> QED
      BY <1>1, <1>2, <2>1 DEF ListNext
  <1>3. CASE UNCHANGED listVars
    BY <1>1, <1>3
  <1> QED
    BY <1>2, <1>3 DEF Directory

LEMMA AnsweringParts ==
  ASSUME Driven, Answering
  PROVE  [RangeNext]_rangeVars /\ [ListNext]_listVars
  <1>1. CASE Refused \/ Missing \/ ScriptRun \/ FileSent \/ ListSent \/ PropertiesSent
    <2>1. UNCHANGED answerVars
      BY <1>1 DEF Refused, Missing, ScriptRun, FileSent, ListSent, PropertiesSent
    <2> QED
      BY <2>1 DEF answerVars
  <1>2. CASE Script \/ Cgi \/ Properties \/ PropertiesStep
    BY <1>2 DEF Script, Cgi, Properties, PropertiesStep
  <1>3. CASE File
    BY <1>3, FileTyped
  <1>4. CASE Copy
    BY <1>4 DEF Copy, RangeNext
  <1>5. CASE Directory
    BY <1>5, DirectoryTyped
  <1>6. CASE List
    BY <1>6 DEF List, ListNext
  <1> QED
    BY <1>1, <1>2, <1>3, <1>4, <1>5, <1>6 DEF Answering

(* A step of the worker is a step of every part, or leaves it alone.       *)
Parts == /\ [HeadNext]_<<headVars, urlVars>> /\ [AuthNext]_authVars
         /\ [RangeNext]_rangeVars /\ [ListNext]_listVars

LEMMA ConnectsTyped ==
  ASSUME Driven, NewConnection
  PROVE  Driven' /\ Parts
  <1>1. PICK t \in Texts(plan.topic, conns + 1) : Accept(t.text, t.stall)
    BY DEF NewConnection
  <1>2. /\ conns < MaxConns /\ conns' = conns + 1 /\ plan' = plan /\ ask' = ask
        /\ UNCHANGED bootVars /\ UNCHANGED urlVars /\ UNCHANGED authVars /\ UNCHANGED answerVars
    BY DEF NewConnection
  <1>3. plan.topic \in Topics /\ conns + 1 \in 1 .. MaxConns
    BY <1>2, MaxConnsNat DEF Driven, Topics
  <1>4. t.text \in Seq(0 .. 255) /\ t.stall \in BOOLEAN
    BY <1>1, <1>3, TextsTyped
  <1>5. HeadNext
    BY <1>1, <1>2, <1>4 DEF HeadNext
  <1>6. UNCHANGED rangeVars /\ UNCHANGED listVars
    BY <1>2 DEF answerVars
  <1>7. Driven'
    <2>1. conf' = conf /\ conns' \in Nat
      BY <1>2 DEF bootVars, Driven
    <2> QED
      BY <1>2, <2>1 DEF Driven
  <1> QED
    BY <1>2, <1>5, <1>6, <1>7 DEF Parts

(* What the provider is told of a request, its page and its method, are    *)
(* strings of the buffer: both end in it.                                  *)
LEMMA SubjectTyped ==
  ASSUME HeadInv, url # "idle"
  PROVE  CText(buf, page) \in Seq(0 .. 255) /\ CText(buf, 0) \in Seq(0 .. 255)
  <1>1. /\ INBUFFER \in Nat /\ page \in Nat /\ PageEnd \in Nat /\ UrlEnd \in Nat
        /\ page <= PageEnd /\ PageEnd <= UrlEnd /\ UrlEnd + 1 <= INBUFFER /\ buf \in Memory
        /\ buf[PageEnd] = NUL
    BY UrlBounds DEF HeadInv
  <1>2. ASSUME NEW p \in 0 .. PageEnd
        PROVE  CText(buf, p) \in Seq(0 .. 255)
    <2>1. p \in 0 .. INBUFFER /\ PageEnd \in p .. INBUFFER
      BY <1>1
    <2>2. StrEnd(buf, p) \in p .. PageEnd
      BY <1>1, <2>1, StrEndFacts
    <2>3. StrEnd(buf, p) \in p .. INBUFFER
      BY <1>1, <2>2
    <2> QED
      BY <1>1, <2>1, <2>3, CTextFacts
  <1> QED
    BY <1>1, <1>2

LEMMA AuthenticateTyped ==
  ASSUME HeadInv, Driven, Authenticate
  PROVE  Driven' /\ Parts
  <1>1. PICK a \in Asks(plan.topic) :
          ask' = a /\ AuthCheck(conf.a # Unset, a.who, CText(buf, page), CText(buf, 0))
    BY DEF Authenticate
  <1>2. /\ conns' = conns /\ plan' = plan /\ UNCHANGED bootVars
        /\ UNCHANGED headVars /\ UNCHANGED urlVars /\ UNCHANGED answerVars
    BY DEF Authenticate
  <1>3. plan.topic \in Topics
    BY DEF Driven, Topics
  <1>4. AskType(a)
    BY <1>1, <1>3, AsksTyped
  <1>5. a.who \in {Anonymous} \cup Claims /\ (conf.a # Unset) \in BOOLEAN
    BY <1>4 DEF AskType
  <1>6. AuthNext
    <2>1. CText(buf, page) \in Seq(0 .. 255) /\ CText(buf, 0) \in Seq(0 .. 255)
      BY SubjectTyped DEF Authenticate
    <2> QED
      BY <1>1, <1>5, <2>1, Zenon DEF AuthNext
  <1>7. UNCHANGED rangeVars /\ UNCHANGED listVars /\ UNCHANGED <<headVars, urlVars>>
    BY <1>2 DEF answerVars
  <1>8. Driven'
    <2>1. conf' = conf
      BY <1>2 DEF bootVars
    <2> QED
      BY <1>1, <1>2, <1>4, <2>1 DEF Driven
  <1> QED
    BY <1>6, <1>7, <1>8 DEF Parts

LEMMA AgainTyped ==
  ASSUME Driven, Again
  PROVE  Driven' /\ Parts
  <1>1. /\ conns' = conns /\ plan' = plan /\ UNCHANGED bootVars /\ ask' = NoAsk
        /\ UrlReset /\ AuthReset /\ RangeReset /\ ListReset
        /\ NextRequest(ask.keep /\ ~cut /\ status \notin {ByScript, ByTar, 207})
    BY DEF Again
  <1> DEFINE keep == ask.keep /\ ~cut /\ status \notin {ByScript, ByTar, 207}
  <1>2. keep \in BOOLEAN
    OBVIOUS
  <1>3. HeadNext
    <2> HIDE DEF keep
    <2>1. NextRequest(keep)
      BY <1>1 DEF keep
    <2> QED
      BY <1>1, <1>2, <2>1 DEF HeadNext
  <1>4. AuthNext /\ RangeNext /\ ListNext
    BY <1>1 DEF AuthNext, RangeNext, ListNext
  <1>5. Driven'
    <2>1. conf' = conf
      BY <1>1 DEF bootVars
    <2> QED
      BY <1>1, <2>1, NoAskTyped DEF Driven
  <1> QED
    BY <1>3, <1>4, <1>5 DEF Parts

LEMMA WorkerSteps == HeadInv /\ Driven /\ [Next]_vars => Driven' /\ Parts
  <1> SUFFICES ASSUME HeadInv, Driven, [Next]_vars PROVE Driven' /\ Parts
    OBVIOUS
  <1>1. CASE Boot
    <2>1. /\ BootStep /\ UNCHANGED headVars /\ UNCHANGED urlVars /\ UNCHANGED authVars
          /\ UNCHANGED answerVars /\ UNCHANGED pathVars
      BY <1>1 DEF Boot
    <2>2. Parts
      BY <2>1 DEF Parts, answerVars
    <2>3. "m" \in DOMAIN conf' /\ conf'["m"] \in BOOLEAN
      BY <2>1, BootMime DEF Driven
    <2>4. plan' = plan /\ conns' = conns /\ ask' = ask
      BY <2>1 DEF pathVars
    <2> QED
      BY <2>2, <2>3, <2>4 DEF Driven
  <1>2. CASE Connect \/ Inetd
    BY <1>2, ConnectsTyped DEF Connect, Inetd
  <1>3. CASE Scan \/ Url \/ Auth
    <2>1. conf' = conf /\ plan' = plan /\ conns' = conns /\ ask' = ask /\ UNCHANGED answerVars
      BY <1>3 DEF Scan, Url, Auth, bootVars, pathVars
    <2>2. [HeadNext]_<<headVars, urlVars>> /\ [AuthNext]_authVars
      <3>1. CASE Scan
        BY <3>1 DEF Scan, HeadNext
      <3>2. CASE Url
        BY <3>2 DEF Url, HeadNext
      <3>3. CASE Auth
        BY <3>3 DEF Auth, AuthNext
      <3> QED
        BY <1>3, <3>1, <3>2, <3>3
    <2> QED
      BY <2>1, <2>2 DEF Driven, Parts, answerVars
  <1>4. CASE Authenticate
    BY <1>4, AuthenticateTyped
  <1>5. CASE Answering
    <2>1. HeadStill /\ UNCHANGED authVars /\ Kept /\ ask' = ask
      BY <1>5, AnsweringStays
    <2>2. [RangeNext]_rangeVars /\ [ListNext]_listVars
      BY <1>5, AnsweringParts
    <2> QED
      BY <2>1, <2>2 DEF HeadStill, Kept, Driven, Parts
  <1>6. CASE Again
    BY <1>6, AgainTyped
  <1>7. CASE UNCHANGED vars
    <2>1. conf' = conf /\ plan' = plan /\ conns' = conns /\ ask' = ask
          /\ UNCHANGED headVars /\ UNCHANGED urlVars /\ UNCHANGED authVars /\ UNCHANGED answerVars
      BY <1>7 DEF vars, bootVars, pathVars
    <2> QED
      BY <2>1 DEF Driven, Parts, answerVars
  <1> QED
    BY <1>1, <1>2, <1>3, <1>4, <1>5, <1>6, <1>7 DEF Next, Answering

(* A worker that is configured by any command line and serves any number   *)
(* of clients cuts their requests out of the streams where they end, gives *)
(* their URLs the meaning they have, lets in whom the provider let in,     *)
(* sends of a file what its head says, and lists directories as they are.  *)
THEOREM WorkerCorrect ==
  Spec => [](HeadsCutRight /\ UrlRight /\ AuthRight /\ RangeRight /\ ListingRight)
  <1>1. Init => ScanInit /\ UrlInit /\ AuthInit /\ RangeInit /\ ListInit
    BY DEF Init
  <1>2. Spec => HeadSpec /\ AuthSpec /\ RangeSpec /\ ListSpec
    <2>1. HeadInv /\ Driven /\ [Next]_vars =>
            /\ [HeadNext]_<<headVars, urlVars>> /\ [AuthNext]_authVars
            /\ [RangeNext]_rangeVars /\ [ListNext]_listVars
      BY WorkerSteps DEF Parts
    <2>2. Init => HeadInv /\ Driven
      BY <1>1, ScanInitInv, UrlInitInv, DrivenInit DEF HeadInv
    <2>3. HeadInv /\ Driven /\ [Next]_vars => HeadInv' /\ Driven'
      BY <2>1, WorkerSteps, HeadInvNext
    <2> QED
      BY <1>1, <2>1, <2>2, <2>3, PTL DEF Spec, HeadSpec, AuthSpec, RangeSpec, ListSpec
  <1> QED
    BY <1>2, HeadsCorrect, UrlCorrect, AuthCorrect, RangeCorrect, ListingCorrect, PTL
-----------------------------------------------------------------------------
(* PROPFIND.                                                               *)

(* What get_props has found in the body so far: every string holds names   *)
(* that were asked for, and when no element is written as a pair there is  *)
(* one string for each element passed.                                     *)
PropNames == Known \cup {"other"}
Single == \A k \in DOMAIN Elements : ~Elements[k].pair
Passed == /\ \A i \in DOMAIN sprops : sprops[i] \subseteq Asked
          /\ Single => /\ item = Len(sprops)
                       /\ \A i \in 1 .. item : sprops[i] = {Elements[i].name}

PropTyped == /\ PropTypeOK /\ QueryType(pq) /\ sprops \in Seq(SUBSET PropNames)
             /\ \E R : xml \in Seq(R)
Unsaid == xml = <<>> /\ child = 0 /\ dav_code = 0
PropStage ==
  /\ pf \in {"idle", "depth"} => item = 0 /\ sprops = <<>> /\ Unsaid
  /\ pf = "split" => ~pq.body.empty /\ Passed /\ Unsaid
  /\ pf = "self" => Unsaid
  /\ pf = "kids" => deep /\ pq.is = "dir" /\ pq.listable /\ Covers(child) /\ dav_code = 207
  /\ pf = "end" => ~deep /\ Covers(0) /\ dav_code = 207
PropInv == PropTyped /\ PropStage /\ PropsAsAsked /\ AnswerLists

LEMMA LowestIs ==
  ASSUME NEW A, A \subseteq Nat, A # {}
  PROVE  Lowest(A) \in A /\ \A j \in A : Lowest(A) <= j
  BY LeastExists DEF Lowest

LEMMA ElementsTyped ==
  ASSUME QueryType(pq)
  PROVE  /\ Elements \in Seq(ElementType) /\ Len(Elements) \in Nat /\ DOMAIN Elements = 1 .. Len(Elements)
         /\ \A k \in 1 .. Len(Elements) : Elements[k].name \in PropNames /\ Elements[k].pair \in BOOLEAN
         /\ Asked \subseteq PropNames
         /\ pq.kids \in Seq(KidType) /\ Len(pq.kids) \in Nat
  <1>1. /\ Elements \in Seq(ElementType) /\ Len(Elements) \in Nat /\ DOMAIN Elements = 1 .. Len(Elements)
        /\ pq.kids \in Seq(KidType) /\ Len(pq.kids) \in Nat
    BY DEF QueryType, Elements
  <1>2. ASSUME NEW k \in 1 .. Len(Elements)
        PROVE  Elements[k].name \in PropNames /\ Elements[k].pair \in BOOLEAN
    <2>1. Elements[k] \in ElementType
      BY <1>1
    <2> QED
      BY <2>1 DEF ElementType, PropNames
  <1>3. Asked \subseteq PropNames
    BY <1>1, <1>2 DEF Asked
  <1> QED
    BY <1>1, <1>2, <1>3

LEMMA EmptyAnswer ==
  ASSUME QueryType(pq)
  PROVE  Visible(0) = {} /\ Cardinality(Visible(0)) = 0
  <1>1. Visible(0) = {}
    BY DEF Visible
  <1> QED
    BY <1>1, FS_EmptySet

LEMMA VisibleGrows ==
  ASSUME QueryType(pq), NEW n \in 0 .. Len(pq.kids) - 1
  PROVE  /\ IsFiniteSet(Visible(n)) /\ Cardinality(Visible(n)) \in Nat
         /\ LET kid == pq.kids[n + 1]
            IN  IF Hidden(kid.name) \/ ~kid.open
                THEN Visible(n + 1) = Visible(n)
                ELSE /\ Visible(n + 1) = Visible(n) \cup {n + 1}
                     /\ Cardinality(Visible(n + 1)) = Cardinality(Visible(n)) + 1
         /\ \A k \in Visible(n) : k \in 1 .. n /\ Cardinality(Visible(k)) \in Nat
                                  /\ Cardinality(Visible(k)) >= 1
                                  /\ Cardinality(Visible(k)) <= Cardinality(Visible(n))
  <1>0. Len(pq.kids) \in Nat /\ n \in Nat
    BY ElementsTyped
  <1>1. ASSUME NEW k \in Nat PROVE IsFiniteSet(Visible(k)) /\ Cardinality(Visible(k)) \in Nat
    <2>1. IsFiniteSet(1 .. k)
      BY FS_Interval
    <2>2. Visible(k) \in SUBSET (1 .. k)
      BY DEF Visible
    <2>3. IsFiniteSet(Visible(k))
      BY <2>1, <2>2, FS_Subset
    <2> QED
      BY <2>3, FS_CardinalityType
  <1>2. n + 1 \notin Visible(n)
    BY <1>0 DEF Visible
  <1>3. ASSUME Hidden(pq.kids[n + 1].name) \/ ~pq.kids[n + 1].open
        PROVE  Visible(n + 1) = Visible(n)
    BY <1>0, <1>3 DEF Visible, Hidden
  <1>4. ASSUME ~(Hidden(pq.kids[n + 1].name) \/ ~pq.kids[n + 1].open)
        PROVE  Visible(n + 1) = Visible(n) \cup {n + 1}
    BY <1>0, <1>4 DEF Visible, Hidden
  <1>5. ASSUME ~(Hidden(pq.kids[n + 1].name) \/ ~pq.kids[n + 1].open)
        PROVE  Cardinality(Visible(n + 1)) = Cardinality(Visible(n)) + 1
    BY <1>0, <1>1, <1>2, <1>4, <1>5, FS_AddElement
  <1>6. ASSUME NEW k \in Visible(n)
        PROVE  k \in 1 .. n /\ Cardinality(Visible(k)) \in Nat
               /\ Cardinality(Visible(k)) >= 1
               /\ Cardinality(Visible(k)) <= Cardinality(Visible(n))
    <2>1. k \in 1 .. n /\ k \in Visible(k) /\ Visible(k) \in SUBSET Visible(n)
      BY <1>0 DEF Visible
    <2>2. Cardinality(Visible(k)) # 0
      BY <1>1, <2>1, FS_EmptySet
    <2>3. Cardinality(Visible(k)) <= Cardinality(Visible(n))
      BY <1>0, <1>1, <2>1, FS_Subset
    <2> QED
      BY <1>1, <2>1, <2>2, <2>3
  <1> QED
    BY <1>0, <1>1, <1>3, <1>4, <1>5, <1>6

LEMMA PropInitInv == PropInit => PropInv
  <1> SUFFICES ASSUME PropInit PROVE PropInv
    OBVIOUS
  <1>1. /\ pf = "idle" /\ pq = NoQuery /\ item = 0 /\ sprops = <<>> /\ props = {} /\ deep = FALSE
        /\ xml = <<>> /\ child = 0 /\ dav_code = 0
    BY DEF PropInit
  <1>2. pq.body.items = <<>> /\ pq.kids = <<>>
    BY <1>1 DEF NoQuery, NoBody
  <1>3. QueryType(pq)
    BY <1>2 DEF QueryType
  <1>4. PropTypeOK
    <2>1. Len(sprops) = 0 /\ DOMAIN sprops = {} /\ Len(pq.body.items) = 0 /\ Len(pq.kids) = 0
      BY <1>1, <1>2
    <2>2. Len(sprops) < MAXPROPCOUNT
      BY <2>1, PropCountPositive
    <2>3. item \in 0 .. Len(pq.body.items) /\ child \in 0 .. Len(pq.kids)
      BY <1>1, <2>1
    <2> QED
      BY <1>1, <2>1, <2>2, <2>3, Zenon DEF PropTypeOK
  <1>5. sprops \in Seq(SUBSET PropNames) /\ xml \in Seq({})
    BY <1>1
  <1> QED
    BY <1>1, <1>3, <1>4, <1>5 DEF PropInv, PropTyped, PropStage, Unsaid, PropsAsAsked, AnswerLists

LEMMA PropfindInv ==
  ASSUME PropInv, NEW q, QueryType(q), NEW sock, NEW file, Propfind(q, sock, file)
  PROVE  PropInv'
  <1>1. /\ pf = "idle" /\ pq' = q /\ dav_code' \in {0, 301, 403, 404}
        /\ pf' = IF dav_code' = 0 THEN "depth" ELSE "done"
        /\ item' = item /\ sprops' = sprops /\ props' = props /\ deep' = deep /\ xml' = xml /\ child' = child
    BY DEF Propfind
  <1>2. item = 0 /\ sprops = <<>> /\ xml = <<>> /\ child = 0
    BY <1>1 DEF PropInv, PropStage, Unsaid
  <1>3. QueryType(q)
    OBVIOUS
  <1>4. Len(q.body.items) \in Nat /\ Len(q.kids) \in Nat
    BY <1>3 DEF QueryType
  <1>5. PropTypeOK'
    BY <1>1, <1>2, <1>4 DEF PropInv, PropTyped, PropTypeOK
  <1>6. PropTyped'
    BY <1>1, <1>3, <1>5 DEF PropInv, PropTyped
  <1>7. PropStage' /\ PropsAsAsked' /\ AnswerLists'
    BY <1>1, <1>2 DEF PropStage, PropsAsAsked, AnswerLists, Unsaid
  <1> QED
    BY <1>6, <1>7 DEF PropInv

LEMMA PropResetInv == PropReset => PropInv'
  <1> SUFFICES ASSUME PropReset PROVE PropInv'
    OBVIOUS
  <1>1. /\ pf' = "idle" /\ pq' = NoQuery /\ item' = 0 /\ sprops' = <<>> /\ props' = {} /\ deep' = FALSE
        /\ xml' = <<>> /\ child' = 0 /\ dav_code' = 0
    BY DEF PropReset
  <1>2. pq'.body.items = <<>> /\ pq'.kids = <<>>
    BY <1>1 DEF NoQuery, NoBody
  <1>3. QueryType(pq')
    BY <1>2 DEF QueryType
  <1>4. PropTypeOK'
    <2>1. Len(sprops') = 0 /\ DOMAIN sprops' = {} /\ Len(pq'.body.items) = 0 /\ Len(pq'.kids) = 0
      BY <1>1, <1>2
    <2>2. Len(sprops') < MAXPROPCOUNT
      BY <2>1, PropCountPositive
    <2>3. item' \in 0 .. Len(pq'.body.items) /\ child' \in 0 .. Len(pq'.kids)
      BY <1>1, <2>1
    <2> QED
      BY <1>1, <2>1, <2>2, <2>3, Zenon DEF PropTypeOK
  <1>5. sprops' \in Seq(SUBSET PropNames) /\ xml' \in Seq({})
    BY <1>1
  <1> QED
    BY <1>1, <1>3, <1>4, <1>5 DEF PropInv, PropTyped, PropStage, Unsaid, PropsAsAsked, AnswerLists

LEMMA DepthInv ==
  ASSUME PropInv, Depth
  PROVE  PropInv'
  <1>1. /\ pf = "depth" /\ pq' = pq /\ item' = item /\ sprops' = sprops /\ xml' = xml /\ child' = child
        /\ deep' \in BOOLEAN
        /\ \/ pq.body.empty /\ props' = Default /\ pf' = "self" /\ dav_code' = dav_code
           \/ ~pq.body.empty /\ pf' = "split" /\ props' = props /\ dav_code' = dav_code
           \/ pf' = "done" /\ dav_code' = 400 /\ props' = props
    BY DEF Depth
  <1>2. item = 0 /\ sprops = <<>> /\ xml = <<>> /\ child = 0 /\ dav_code = 0
    BY <1>1 DEF PropInv, PropStage, Unsaid
  <1>3. PropTyped'
    BY <1>1 DEF PropInv, PropTyped, PropTypeOK, Default
  <1>4. PropStage'
    BY <1>1, <1>2 DEF PropStage, Unsaid, Passed
  <1>5. PropsAsAsked' /\ AnswerLists'
    BY <1>1, <1>2 DEF PropsAsAsked, AnswerLists
  <1> QED
    BY <1>3, <1>4, <1>5 DEF PropInv

LEMMA SplitPropInv ==
  ASSUME PropInv, SplitProp
  PROVE  PropInv'
  <1> DEFINE f == item + 1
             last == Lowest(Closed(f))
             blanks == {j \in f .. last : Elements[j].blank}
             upto == IF blanks = {} THEN last ELSE Lowest(blanks)
             names == {Elements[j].name : j \in f .. upto}
  <1>1. /\ pf = "split" /\ item < Len(Elements) /\ ~Limit /\ Closed(f) # {}
        /\ sprops' = Append(sprops, names) /\ item' = last
        /\ pf' = pf /\ pq' = pq /\ props' = props /\ deep' = deep /\ xml' = xml /\ child' = child
        /\ dav_code' = dav_code
    BY DEF SplitProp
  <1>2. /\ QueryType(pq) /\ Passed /\ Unsaid /\ ~pq.body.empty /\ PropTypeOK
        /\ sprops \in Seq(SUBSET PropNames)
    BY <1>1 DEF PropInv, PropTyped, PropStage
  <1>3. /\ Len(Elements) \in Nat /\ DOMAIN Elements = 1 .. Len(Elements)
        /\ \A k \in 1 .. Len(Elements) : Elements[k].name \in PropNames /\ Elements[k].pair \in BOOLEAN
    BY <1>2, ElementsTyped
  <1>4. item \in Nat /\ f \in 1 .. Len(Elements)
    BY <1>1, <1>2, <1>3 DEF PropTypeOK, Elements
  <1>5. last \in Closed(f) /\ \A j \in Closed(f) : last <= j
    <2>1. Closed(f) \subseteq Nat
      BY <1>3, <1>4 DEF Closed
    <2> HIDE DEF f
    <2> QED
      BY <1>1, <2>1, LowestIs
  <1>6. last \in f .. Len(Elements)
    BY <1>5 DEF Closed
  <1>7. upto \in f .. last
    <2>1. CASE blanks = {}
      BY <1>4, <1>6, <2>1
    <2>2. CASE blanks # {}
      <3>1. blanks \subseteq Nat
        BY <1>4, <1>6
      <3>2. Lowest(blanks) \in blanks
        <4> HIDE DEF blanks
        <4> QED
          BY <2>2, <3>1, LowestIs
      <3> QED
        BY <2>2, <3>2
    <2> QED
      BY <2>1, <2>2
  <1>8. names \subseteq Asked /\ names \in SUBSET PropNames
    <2> HIDE DEF upto, last
    <2>1. ASSUME NEW j \in f .. upto PROVE j \in 1 .. Len(Elements)
      BY <1>4, <1>6, <1>7
    <2> QED
      BY <1>3, <2>1 DEF Asked
  <1> HIDE DEF names, upto, blanks
  <1>9. /\ sprops' \in Seq(SUBSET PropNames) /\ Len(sprops') = Len(sprops) + 1 /\ Len(sprops) \in Nat
        /\ \A i \in 1 .. Len(sprops) : sprops'[i] = sprops[i]
        /\ sprops'[Len(sprops) + 1] = names
    BY <1>1, <1>2, <1>8
  <1>10. Len(sprops') < MAXPROPCOUNT
    BY <1>1, <1>2, <1>9, PropCountPositive DEF Limit, PropTypeOK
  <1>11. ASSUME NEW i \in DOMAIN sprops' PROVE sprops'[i] \subseteq Asked /\ sprops'[i] \subseteq PropNames
    <2>1. i \in 1 .. Len(sprops) + 1
      BY <1>9
    <2>2. CASE i = Len(sprops) + 1
      BY <1>8, <1>9, <2>2
    <2>3. CASE i \in 1 .. Len(sprops)
      BY <1>2, <1>9, <2>3 DEF Passed
    <2> QED
      BY <1>9, <2>1, <2>2, <2>3
  <1>12. ASSUME Single
         PROVE  last = Len(sprops') /\ \A i \in 1 .. last : sprops'[i] = {Elements[i].name}
    <2>1. item = Len(sprops) /\ \A i \in 1 .. item : sprops[i] = {Elements[i].name}
      BY <1>2, <1>12 DEF Passed
    <2>2. f \in Closed(f)
      BY <1>3, <1>4, <1>12 DEF Closed, Single
    <2>3. last = f
      BY <1>4, <1>5, <1>6, <2>2
    <2>4. upto = f
      BY <1>4, <1>7, <2>3
    <2>5. names = {Elements[f].name}
      <3>1. f .. upto = {f}
        BY <1>4, <2>4
      <3> QED
        BY <3>1 DEF names
    <2> QED
      BY <1>4, <1>9, <2>1, <2>3, <2>5
  <1>13. Passed'
    <2>1. Elements' = Elements /\ Asked' = Asked /\ Single' = Single
      BY <1>1 DEF Elements, Asked, Single
    <2> QED
      BY <1>1, <1>11, <1>12, <2>1 DEF Passed
  <1>14. PropTypeOK'
    <2>1. item' \in 0 .. Len(pq'.body.items)
      BY <1>1, <1>4, <1>6 DEF Elements
    <2> QED
      BY <1>1, <1>2, <1>10, <1>11, <2>1 DEF PropTypeOK, PropNames
  <1>15. PropTyped'
    BY <1>1, <1>2, <1>9, <1>14 DEF PropInv, PropTyped
  <1>16. PropStage' /\ PropsAsAsked' /\ AnswerLists'
    BY <1>1, <1>2, <1>13 DEF PropStage, PropsAsAsked, AnswerLists, Unsaid
  <1> QED
    BY <1>15, <1>16 DEF PropInv

LEMMA SplitFailsInv ==
  ASSUME PropInv, SplitFails
  PROVE  PropInv'
  <1>1. /\ pf = "split" /\ pf' = "done" /\ dav_code' = 400 /\ pq' = pq /\ item' = item /\ sprops' = sprops
        /\ props' = props /\ deep' = deep /\ xml' = xml /\ child' = child
    BY DEF SplitFails
  <1>2. PropTyped'
    BY <1>1 DEF PropInv, PropTyped, PropTypeOK
  <1> QED
    BY <1>1, <1>2 DEF PropInv, PropStage, PropsAsAsked, AnswerLists

LEMMA ChainIs ==
  /\ DOMAIN Chain = 1 .. 5 /\ Known = {Chain[1], Chain[2], Chain[3], Chain[4], Chain[5]}
  /\ \A i, j \in 1 .. 5 : Chain[i] = Chain[j] => i = j
  /\ "other" \notin Known
  <1>1. /\ Len(Chain) = 5 /\ DOMAIN Chain = 1 .. 5
        /\ Chain[1] = "getetag" /\ Chain[2] = "getcontentlength" /\ Chain[3] = "resourcetype"
        /\ Chain[4] = "getlastmodified" /\ Chain[5] = "getcontenttype"
    BY DEF Chain
  <1> HIDE DEF Chain
  <1>2. Known = {Chain[1], Chain[2], Chain[3], Chain[4], Chain[5]}
    BY <1>1 DEF Known
  <1>3. ASSUME NEW i \in 1 .. 5, NEW j \in 1 .. 5, Chain[i] = Chain[j] PROVE i = j
    BY <1>1, <1>3
  <1> QED
    BY <1>1, <1>2, <1>3

LEMMA SplitDoneInv ==
  ASSUME PropInv, SplitDone
  PROVE  PropInv'
  <1> DEFINE used == {k \in DOMAIN sprops : Named(sprops[k]) # {}}
             found == {Chain[Lowest(Named(sprops[i]))] : i \in used}
  <1>1. /\ pf = "split" /\ (item = Len(Elements) \/ Limit) /\ pf' = "self" /\ props' = found
        /\ pq' = pq /\ item' = item /\ sprops' = sprops /\ deep' = deep /\ xml' = xml /\ child' = child
        /\ dav_code' = dav_code
    BY DEF SplitDone
  <1>2. /\ QueryType(pq) /\ Passed /\ Unsaid /\ ~pq.body.empty /\ PropTypeOK
        /\ sprops \in Seq(SUBSET PropNames)
    BY <1>1 DEF PropInv, PropTyped, PropStage
  <1>3. /\ Len(Elements) \in Nat /\ DOMAIN Elements = 1 .. Len(Elements)
        /\ \A k \in 1 .. Len(Elements) : Elements[k].name \in PropNames
    BY <1>2, ElementsTyped
  <1>4. ASSUME NEW i \in used
        PROVE  /\ Lowest(Named(sprops[i])) \in 1 .. 5
               /\ Chain[Lowest(Named(sprops[i]))] \in sprops[i]
    <2>1. Named(sprops[i]) \subseteq 1 .. 5 /\ Named(sprops[i]) # {}
      BY <1>4, ChainIs DEF Named
    <2>2. Lowest(Named(sprops[i])) \in Named(sprops[i])
      BY <2>1, LowestIs
    <2> QED
      BY <2>1, <2>2 DEF Named
  <1>5. found \subseteq Known /\ found \subseteq Asked
    BY <1>2, <1>4, ChainIs DEF Passed, Known
  <1>6. ASSUME Len(Elements) < MAXPROPCOUNT, Single PROVE found = Asked \cap Known
    <2>1. item = Len(sprops) /\ \A i \in 1 .. item : sprops[i] = {Elements[i].name}
      BY <1>2, <1>6 DEF Passed
    <2>2. item = Len(Elements) /\ DOMAIN sprops = 1 .. Len(Elements)
      <3>1. item \in 0 .. Len(Elements)
        BY <1>2 DEF PropTypeOK, Elements
      <3>2. item = Len(Elements)
        BY <1>1, <1>3, <1>6, <2>1, <3>1, PropCountPositive DEF Limit
      <3>3. DOMAIN sprops = 1 .. Len(sprops)
        BY <1>2
      <3> QED
        BY <2>1, <3>2, <3>3
    <2>3. ASSUME NEW k \in 1 .. Len(Elements), Elements[k].name \in Known PROVE Elements[k].name \in found
      <3>1. PICK c \in 1 .. 5 : Chain[c] = Elements[k].name
        BY <2>3, ChainIs DEF Known
      <3>2. Named(sprops[k]) = {c}
        BY <2>1, <2>2, <3>1, ChainIs DEF Named
      <3>3. k \in used /\ Lowest(Named(sprops[k])) = c
        <4>1. Lowest({c}) = c
          BY LowestIs
        <4> QED
          BY <2>2, <3>2, <4>1
      <3> QED
        BY <3>1, <3>3
    <2> HIDE DEF found
    <2> QED
      BY <1>3, <1>5, <2>3 DEF Asked
  <1> HIDE DEF found
  <1>7. PropTyped'
    BY <1>1, <1>2, <1>5 DEF PropInv, PropTyped, PropTypeOK
  <1>8. PropStage'
    BY <1>1, <1>2 DEF PropStage, Unsaid
  <1>9. PropsAsAsked' /\ AnswerLists'
    <2>1. Elements' = Elements /\ Asked' = Asked /\ Single' = Single
      BY <1>1 DEF Elements, Asked, Single
    <2> QED
      BY <1>1, <1>2, <1>5, <1>6, <2>1 DEF PropsAsAsked, AnswerLists, Single
  <1> QED
    BY <1>7, <1>8, <1>9 DEF PropInv

LEMMA AppendAny ==
  ASSUME NEW s, \E R : s \in Seq(R), NEW x
  PROVE  /\ \E R : Append(s, x) \in Seq(R)
         /\ Len(s) \in Nat /\ Len(Append(s, x)) = Len(s) + 1
         /\ \A i \in 1 .. Len(s) : Append(s, x)[i] = s[i]
         /\ Append(s, x)[Len(s) + 1] = x
  <1>1. PICK R : s \in Seq(R)
    OBVIOUS
  <1>2. s \in Seq(R \cup {x}) /\ x \in R \cup {x}
    <2>1. s \in [1 .. Len(s) -> R] /\ Len(s) \in Nat
      BY <1>1
    <2> QED
      BY <2>1
  <1>3. Append(s, x) \in Seq(R \cup {x})
    BY <1>2
  <1> QED
    BY <1>2, <1>3

LEMMA PrintSelfInv ==
  ASSUME PropInv, PrintSelf, UNCHANGED <<buf, page>>
  PROVE  PropInv'
  <1>1. /\ pf = "self" /\ dav_code' = 207 /\ pq' = pq /\ item' = item /\ sprops' = sprops /\ props' = props
        /\ deep' = deep /\ child' = child
        /\ \/ pf' = "crash" /\ xml' = xml
           \/ /\ IF pq.open THEN \E href \in EscapedPage : xml' = Append(xml, Response(href, Text))
                            ELSE xml' = xml
              /\ pf' = IF ~deep THEN "end" ELSE IF pq.is = "dir" /\ pq.listable THEN "kids" ELSE "done"
    BY DEF PrintSelf
  <1>2. xml = <<>> /\ child = 0 /\ QueryType(pq) /\ deep \in BOOLEAN /\ PropTyped /\ dav_code = 0
    BY <1>1 DEF PropInv, PropStage, Unsaid, PropTyped, PropTypeOK
  <1>3. CASE pf' = "crash" /\ xml' = xml
    <2>1. PropTyped'
      BY <1>1, <1>2, <1>3 DEF PropTyped, PropTypeOK
    <2> QED
      BY <1>1, <1>3, <2>1 DEF PropInv, PropStage, PropsAsAsked, AnswerLists
  <1>4. CASE /\ IF pq.open THEN \E href \in EscapedPage : xml' = Append(xml, Response(href, Text))
                           ELSE xml' = xml
             /\ pf' = IF ~deep THEN "end" ELSE IF pq.is = "dir" /\ pq.listable THEN "kids" ELSE "done"
    <2>1. xml \in Seq({}) /\ Len(xml) = 0
      BY <1>2
    <2>2. /\ \E R : xml' \in Seq(R)
          /\ Len(xml') = Own /\ (pq.open => xml'[1].path = Text)
      <3>1. CASE ~pq.open
        <4>1. xml' = xml
          BY <1>4, <3>1
        <4> QED
          BY <2>1, <3>1, <4>1 DEF Own
      <3>2. CASE pq.open
        <4>1. PICK href : xml' = Append(xml, Response(href, Text))
          BY <1>4, <3>2
        <4> DEFINE r == Response(href, Text)
        <4>2. r.path = Text
          BY DEF Response
        <4>3. xml' = Append(xml, r)
          BY <4>1
        <4> HIDE DEF r
        <4>4. \E R : xml \in Seq(R)
          BY <2>1
        <4>5. /\ \E R : Append(xml, r) \in Seq(R)
              /\ Len(Append(xml, r)) = Len(xml) + 1 /\ Append(xml, r)[Len(xml) + 1] = r
          BY <4>4, AppendAny
        <4>6. xml'[1] = r /\ Len(xml') = 1
          BY <2>1, <4>3, <4>5
        <4> QED
          BY <3>2, <4>2, <4>3, <4>5, <4>6 DEF Own
      <3> QED
        BY <3>1, <3>2
    <2>3. Own' = Own /\ Own \in Nat /\ pq'.open = pq.open
      BY <1>1 DEF Own
    <2>4. PropTyped'
      <3>1. pf' \in {"kids", "end", "done"}
        BY <1>4
      <3>2. PropTypeOK'
        BY <1>1, <1>2, <3>1 DEF PropTyped, PropTypeOK
      <3> QED
        BY <1>1, <1>2, <2>2, <3>2 DEF PropTyped
    <2>5. Text' = Text /\ Visible(0)' = {} /\ Cardinality(Visible(0)') = 0
      BY <1>1, <1>2, EmptyAnswer DEF Text, Visible
    <2>6. Covers(0)'
      BY <1>1, <2>2, <2>3, <2>5 DEF Covers
    <2>7. Covers(child)'
      BY <1>1, <1>2, <2>6
    <2>8. PropStage'
      BY <1>1, <1>2, <1>4, <2>6, <2>7 DEF PropStage
    <2>9. PropsAsAsked'
      <3>1. PropsAsAsked
        BY DEF PropInv
      <3>2. Elements' = Elements /\ Asked' = Asked
        BY <1>1 DEF Elements, Asked
      <3> QED
        BY <1>1, <1>2, <3>1, <3>2 DEF PropsAsAsked
    <2>10. AnswerLists'
      BY <1>1, <1>4, <2>6 DEF AnswerLists, Covers, Listed
    <2> QED
      BY <2>4, <2>8, <2>9, <2>10 DEF PropInv
  <1> QED
    BY <1>1, <1>3, <1>4

LEMMA PrintChildInv ==
  ASSUME PropInv, PrintChild, UNCHANGED <<buf, page>>
  PROVE  PropInv'
  <1> DEFINE kid == pq.kids[child + 1]
             gone == Hidden(kid.name) \/ ~kid.open
             n == Cardinality(Visible(child))
  <1>1. /\ pf = "kids" /\ child < Len(pq.kids) /\ child' = child + 1
        /\ pq' = pq /\ item' = item /\ sprops' = sprops /\ props' = props /\ deep' = deep
        /\ dav_code' = dav_code
        /\ \/ pf' = "crash" /\ xml' = xml
           \/ /\ pf' = pf
              /\ IF gone THEN xml' = xml
                 ELSE \E href \in EscapedPage :
                        xml' = Append(xml, Response(href \o EscapeUri(kid.name, URILEN), Text \o kid.name))
    BY DEF PrintChild
  <1>2. /\ deep /\ pq.is = "dir" /\ pq.listable /\ Covers(child) /\ dav_code = 207 /\ PropTyped
        /\ QueryType(pq) /\ child \in 0 .. Len(pq.kids) - 1 /\ child \in Nat /\ Len(pq.kids) \in Nat
    <2>1. QueryType(pq) /\ child \in 0 .. Len(pq.kids)
      BY DEF PropInv, PropTyped, PropTypeOK
    <2>2. Len(pq.kids) \in Nat
      BY <2>1, ElementsTyped
    <2> QED
      BY <1>1, <2>1, <2>2 DEF PropInv, PropStage
  <1>3. /\ n \in Nat
        /\ gone => Visible(child + 1) = Visible(child)
        /\ ~gone => Visible(child + 1) = Visible(child) \cup {child + 1}
                    /\ Cardinality(Visible(child + 1)) = n + 1
        /\ \A k \in Visible(child) : /\ Cardinality(Visible(k)) \in Nat /\ Cardinality(Visible(k)) >= 1
                                     /\ Cardinality(Visible(k)) <= n
    BY <1>2, VisibleGrows
  <1>4. Text' = Text /\ \A k : Visible(k)' = Visible(k)
    BY <1>1 DEF Text, Visible
  <1>5. /\ \E R : xml \in Seq(R)
        /\ Len(xml) = Own + n /\ (pq.open => xml[1].path = Text)
        /\ \A k \in Visible(child) : xml[Own + Cardinality(Visible(k))].path = Text \o pq.kids[k].name
    BY <1>2 DEF PropTyped, Covers
  <1>5a. Own \in Nat /\ (pq.open => Own = 1) /\ Own' = Own
    BY <1>1 DEF Own
  <1>5b. PropTyped'
    <2>1. child' \in 0 .. Len(pq'.kids)
      BY <1>1, <1>2
    <2>2. PropTypeOK'
      BY <1>1, <1>2, <2>1 DEF PropTyped, PropTypeOK
    <2>3. \E R : xml' \in Seq(R)
      <3>1. CASE xml' = xml
        BY <1>5, <3>1
      <3>2. CASE \E r : xml' = Append(xml, r)
        <4>1. PICK r : xml' = Append(xml, r)
          BY <3>2
        <4>2. \E R : Append(xml, r) \in Seq(R)
          BY <1>5, AppendAny
        <4> QED
          BY <4>1, <4>2
      <3> QED
        BY <1>1, <3>1, <3>2
    <2> QED
      BY <1>1, <1>2, <2>2, <2>3 DEF PropTyped
  <1>5c. CASE pf' = "crash"
    BY <1>1, <1>5b, <1>5c DEF PropInv, PropStage, PropsAsAsked, AnswerLists
  <1>5d. ASSUME pf' # "crash" PROVE pf' = pf
    BY <1>1, <1>5d
  <1> HIDE DEF n
  <1>6. ASSUME pf' # "crash"
        PROVE  /\ Len(xml') = Own + Cardinality(Visible(child + 1)) /\ (pq.open => xml'[1].path = Text)
               /\ \A k \in Visible(child + 1) : xml'[Own + Cardinality(Visible(k))].path = Text \o pq.kids[k].name
    <2>1. CASE gone
      BY <1>1, <1>3, <1>5, <1>6, <2>1 DEF n
    <2>2. CASE ~gone
      <3>1. PICK href : xml' = Append(xml, Response(href \o EscapeUri(kid.name, URILEN), Text \o kid.name))
        BY <1>1, <1>6, <2>2
      <3> DEFINE r == Response(href \o EscapeUri(kid.name, URILEN), Text \o kid.name)
      <3>2. r.path = Text \o kid.name
        BY DEF Response
      <3> HIDE DEF r
      <3>3. /\ Len(Append(xml, r)) = Len(xml) + 1 /\ Append(xml, r)[Len(xml) + 1] = r
            /\ \A i \in 1 .. Len(xml) : Append(xml, r)[i] = xml[i]
        BY <1>5, AppendAny
      <3>4. xml' = Append(xml, r)
        BY <3>1 DEF r
      <3>5. /\ Len(xml') = Own + n + 1 /\ xml'[Own + n + 1] = r
            /\ \A i \in 1 .. Own + n : xml'[i] = xml[i]
        BY <1>3, <1>5, <1>5a, <3>3, <3>4
      <3>6. pq.open => xml'[1].path = Text
        BY <1>3, <1>5, <1>5a, <3>5
      <3>7. ASSUME NEW k \in Visible(child + 1)
            PROVE  xml'[Own + Cardinality(Visible(k))].path = Text \o pq.kids[k].name
        <4>1. CASE k = child + 1
          <5>1. Own + Cardinality(Visible(k)) = Own + n + 1
            BY <1>3, <1>5a, <2>2, <4>1
          <5> QED
            BY <3>2, <3>5, <4>1, <5>1
        <4>2. CASE k \in Visible(child)
          <5>1. Own + Cardinality(Visible(k)) \in 1 .. Own + n
            BY <1>3, <1>5a, <4>2
          <5> QED
            BY <1>5, <3>5, <4>2, <5>1
        <4> QED
          BY <1>3, <2>2, <4>1, <4>2
      <3>8. Len(xml') = Own + Cardinality(Visible(child + 1))
        BY <1>3, <1>5a, <2>2, <3>5
      <3> QED
        BY <3>6, <3>7, <3>8
    <2> QED
      BY <2>1, <2>2
  <1>7. ASSUME pf' # "crash" PROVE Covers(child)'
    BY <1>1, <1>4, <1>5a, <1>6, <1>7 DEF Covers
  <1>8. ASSUME pf' # "crash" PROVE PropStage' /\ AnswerLists'
    BY <1>1, <1>2, <1>5d, <1>7, <1>8 DEF PropStage, AnswerLists
  <1>9. PropsAsAsked'
    <2>1. PropsAsAsked
      BY DEF PropInv
    <2>2. Elements' = Elements /\ Asked' = Asked
      BY <1>1 DEF Elements, Asked
    <2> QED
      BY <1>1, <1>2, <2>1, <2>2 DEF PropsAsAsked
  <1> QED
    BY <1>5b, <1>5c, <1>8, <1>9 DEF PropInv

LEMMA PrintEndInv ==
  ASSUME PropInv, PrintEnd, UNCHANGED <<buf, page>>
  PROVE  PropInv'
  <1>1. /\ pf = "end" \/ (pf = "kids" /\ child = Len(pq.kids))
        /\ pf' = "done" /\ pq' = pq /\ item' = item /\ sprops' = sprops /\ props' = props /\ deep' = deep
        /\ xml' = xml /\ child' = child /\ dav_code' = dav_code
    BY DEF PrintEnd
  <1>2. PropTyped'
    BY <1>1 DEF PropInv, PropTyped, PropTypeOK
  <1>3. PropsAsAsked'
    <2>1. PropsAsAsked
      BY DEF PropInv
    <2>2. Elements' = Elements /\ Asked' = Asked
      BY <1>1 DEF Elements, Asked
    <2> QED
      BY <1>1, <2>1, <2>2 DEF PropsAsAsked
  <1>4. Text' = Text /\ \A k : Visible(k)' = Visible(k)
    BY <1>1 DEF Text, Visible
  <1>5. AnswerLists'
    <2>1. Covers(Listed)
      <3>1. CASE pf = "end"
        <4>1. ~deep /\ Covers(0)
          BY <3>1 DEF PropInv, PropStage
        <4> QED
          BY <4>1 DEF Listed
      <3>2. CASE pf = "kids" /\ child = Len(pq.kids)
        <4>1. deep /\ pq.is = "dir" /\ pq.listable /\ Covers(child)
          BY <3>2 DEF PropInv, PropStage
        <4> QED
          BY <3>2, <4>1 DEF Listed
      <3> QED
        BY <1>1, <3>1, <3>2
    <2>2. Listed' = Listed
      BY <1>1 DEF Listed
    <2>3. \A n : Covers(n) => Covers(n)'
      <3>1. Own' = Own
        BY <1>1 DEF Own
      <3> QED
        BY <1>1, <1>4, <3>1, Zenon DEF Covers
    <2> QED
      BY <2>1, <2>2, <2>3, Zenon DEF AnswerLists
  <1> QED
    BY <1>1, <1>2, <1>3, <1>5 DEF PropInv, PropStage

LEMMA PropStepInv ==
  ASSUME PropInv, PropStep, UNCHANGED <<buf, page>>
  PROVE  PropInv'
  BY DepthInv, SplitPropInv, SplitFailsInv, SplitDoneInv, PrintSelfInv, PrintChildInv, PrintEndInv
     DEF PropStep

LEMMA PropStill ==
  ASSUME PropInv, UNCHANGED propVars, pf = "idle" \/ (buf' = buf /\ page' = page)
  PROVE  PropInv'
  <1>1. /\ pf' = pf /\ pq' = pq /\ item' = item /\ sprops' = sprops /\ props' = props /\ deep' = deep
        /\ xml' = xml /\ child' = child /\ dav_code' = dav_code
    BY DEF propVars
  <1>2. PropTyped'
    BY <1>1 DEF PropInv, PropTyped, PropTypeOK
  <1>3. PropsAsAsked'
    <2>1. PropsAsAsked
      BY DEF PropInv
    <2>2. Elements' = Elements /\ Asked' = Asked
      BY <1>1 DEF Elements, Asked
    <2> QED
      BY <1>1, <2>1, <2>2 DEF PropsAsAsked
  <1>4. CASE pf = "idle"
    BY <1>1, <1>2, <1>3, <1>4 DEF PropInv, PropStage, AnswerLists, Unsaid
  <1>5. CASE buf' = buf /\ page' = page
    <2>1. Text' = Text /\ \A k : Visible(k)' = Visible(k)
      BY <1>1, <1>5 DEF Text, Visible
    <2>2. \A n : Covers(n) => Covers(n)'
      <3>1. Own' = Own
        BY <1>1 DEF Own
      <3> QED
        BY <1>1, <2>1, <3>1, Zenon DEF Covers
    <2>3. Listed' = Listed /\ (Passed => Passed') /\ (Unsaid => Unsaid')
      <3>1. Elements' = Elements /\ Asked' = Asked /\ (Single <=> Single')
        BY <1>1 DEF Elements, Asked, Single
      <3> QED
        BY <1>1, <3>1 DEF Listed, Passed, Unsaid
    <2>4. AnswerLists'
      BY <1>1, <2>2, <2>3, Zenon DEF PropInv, AnswerLists
    <2>5. Covers(0) => Covers(0)'
      BY <2>2, Zenon
    <2>6. Covers(child) => Covers(child)'
      BY <1>1, <2>2, Zenon
    <2>7. PropStage'
      BY <1>1, <2>3, <2>5, <2>6 DEF PropInv, PropStage
    <2> QED
      BY <1>2, <1>3, <2>4, <2>7 DEF PropInv
  <1> QED
    BY <1>4, <1>5

(* The order of the parts: the head is parsed before the URL is taken      *)
(* apart, the URL is ready before the answer is begun, and the parts that  *)
(* answer run only then.                                                   *)
Flow == /\ url # "idle" => scan = "parsed"
        /\ answer # "idle" => url = "done"
        /\ pf # "idle" => answer \in {"properties", "done"}
        /\ cgi # "idle" => answer \in {"script", "done"}

(* While an answer is made, the head and the URL stay as they are.         *)
LEMMA HeadMoves ==
  ASSUME Flow, [Next]_vars
  PROVE  answer = "idle" \/ Again \/ HeadStill
  <1>1. CASE Boot \/ Authenticate \/ Auth
    BY <1>1 DEF Boot, Authenticate, Auth, HeadStill
  <1>2. CASE Connect \/ Inetd
    <2>1. scan # "parsed"
      BY <1>2 DEF Connect, Inetd, NewConnection, Accept
    <2> QED
      BY <2>1 DEF Flow
  <1>3. CASE Scan
    <2>1. scan # "parsed"
      BY <1>3 DEF Scan, ScanStep, ScanStart, ScanRead, ScanEnd, Tokenize
    <2> QED
      BY <2>1 DEF Flow
  <1>4. CASE Url
    <2>1. url # "done"
      BY <1>4 DEF Url, UrlStep, SplitGetParams, Escape, CutParent, ParamsDone
    <2> QED
      BY <2>1 DEF Flow
  <1>5. CASE Answering
    BY <1>5, AnsweringStays
  <1>6. CASE UNCHANGED vars
    BY <1>6 DEF vars, HeadStill
  <1> QED
    BY <1>1, <1>2, <1>3, <1>4, <1>5, <1>6 DEF Next, Answering

LEMMA FlowInit == Init => Flow
  BY DEF Init, Flow, UrlInit, PropInit, CgiInit

LEMMA AnsweringFlow ==
  ASSUME Flow, Answering
  PROVE  Flow'
  <1>1. url' = url /\ scan' = scan
    BY AnsweringStays DEF HeadStill, headVars, urlVars
  <1>2. answer # "idle" => url = "done"
    BY DEF Flow
  <1>3. CASE Refused \/ Missing \/ ScriptRun \/ FileSent \/ ListSent \/ PropertiesSent
    <2>1. answer \in {"dispatch", "script", "file", "list", "properties"} /\ answer' = "done"
          /\ pf' = pf /\ cgi' = cgi
      BY <1>3 DEF Refused, Missing, ScriptRun, FileSent, ListSent, PropertiesSent, Decided, Granted, Answer,
                  answerVars, propVars, cgiVars
    <2> QED
      BY <1>1, <2>1 DEF Flow
  <1>4. CASE File \/ Directory
    <2>1. answer = "dispatch" /\ answer' \in {"done", "file", "list"} /\ pf' = pf /\ cgi' = cgi
      BY <1>4 DEF File, Directory, Granted, Decided, Answer, propVars, cgiVars
    <2> QED
      BY <1>1, <2>1 DEF Flow
  <1>5. CASE Script
    <2>1. answer = "dispatch" /\ answer' = "script" /\ pf' = pf
      BY <1>5 DEF Script, Granted, Decided, propVars
    <2> QED
      BY <1>1, <2>1 DEF Flow
  <1>6. CASE Properties
    <2>1. answer = "dispatch" /\ answer' = "properties" /\ cgi' = cgi
      BY <1>6 DEF Properties, Granted, Decided, cgiVars
    <2> QED
      BY <1>1, <2>1 DEF Flow
  <1>7. CASE Cgi
    <2>1. answer = "script" /\ answer' = answer /\ pf' = pf
      BY <1>7 DEF Cgi, pathVars, propVars
    <2> QED
      BY <1>1, <2>1 DEF Flow
  <1>8. CASE Copy \/ List
    <2>1. answer' = answer /\ pf' = pf /\ cgi' = cgi
      BY <1>8 DEF Copy, List, pathVars, propVars, cgiVars
    <2> QED
      BY <1>1, <2>1 DEF Flow
  <1>9. CASE PropertiesStep
    <2>1. answer' = answer /\ cgi' = cgi
      BY <1>9 DEF PropertiesStep, pathVars, cgiVars
    <2>2. pf # "idle"
      BY <1>9 DEF PropertiesStep, PropStep, Depth, SplitProp, SplitFails, SplitDone, PrintSelf, PrintChild,
                  PrintEnd
    <2> QED
      BY <1>1, <2>1, <2>2 DEF Flow
  <1> QED
    BY <1>3, <1>4, <1>5, <1>6, <1>7, <1>8, <1>9 DEF Answering

LEMMA FlowNext == Flow /\ [Next]_vars => Flow'
  <1> SUFFICES ASSUME Flow, [Next]_vars PROVE Flow'
    OBVIOUS
  <1>1. CASE Boot \/ Auth \/ UNCHANGED vars
    <2>1. url' = url /\ scan' = scan /\ answer' = answer /\ pf' = pf /\ cgi' = cgi
      BY <1>1 DEF Boot, Auth, vars, headVars, urlVars, answerVars, propVars, cgiVars, pathVars
    <2> QED
      BY <2>1 DEF Flow
  <1>2. CASE Connect \/ Inetd
    <2>1. url' = url /\ answer' = answer /\ pf' = pf /\ cgi' = cgi /\ scan # "parsed"
      BY <1>2 DEF Connect, Inetd, NewConnection, Accept, urlVars, answerVars, propVars, cgiVars
    <2> QED
      BY <2>1 DEF Flow
  <1>3. CASE Scan
    <2>1. url' = url /\ answer' = answer /\ pf' = pf /\ cgi' = cgi
      BY <1>3 DEF Scan, urlVars, answerVars, propVars, cgiVars, pathVars
    <2>2. scan # "parsed"
      BY <1>3 DEF Scan, ScanStep, ScanStart, ScanRead, ScanEnd, Tokenize
    <2> QED
      BY <2>1, <2>2 DEF Flow
  <1>4. CASE Url
    <2>1. answer' = answer /\ pf' = pf /\ cgi' = cgi
      BY <1>4 DEF Url, answerVars, propVars, cgiVars, pathVars
    <2>2. url # "done" /\ scan' = scan /\ (url = "idle" => scan = "parsed")
      BY <1>4 DEF Url, UrlStep, SplitGetParams, Escape, CutParent, ParamsDone
    <2> QED
      BY <2>1, <2>2 DEF Flow
  <1>5. CASE Authenticate
    <2>1. url = "done" /\ url' = url /\ scan' = scan /\ answer = "idle" /\ pf' = pf /\ cgi' = cgi
      BY <1>5 DEF Authenticate, headVars, urlVars, answerVars, propVars, cgiVars
    <2> QED
      BY <2>1 DEF Flow
  <1>6. CASE Answering
    BY <1>6, AnsweringFlow
  <1>7. CASE Again
    BY <1>7 DEF Again, UrlReset, PropReset, CgiReset, Flow
  <1> QED
    BY <1>1, <1>2, <1>3, <1>4, <1>5, <1>6, <1>7 DEF Next, Answering

LEMMA QueryTyped ==
  ASSUME Driven
  PROVE  QueryType([ask.query EXCEPT !.threaded = (boot # "inetd")])
  <1> DEFINE q == ask.query
  <1> DEFINE r == [q EXCEPT !.threaded = (boot # "inetd")]
  <1>1. QueryType(q) /\ DOMAIN q = DOMAIN NoQuery
    BY DEF Driven, AskType
  <1>2. DOMAIN q = {"depth", "body", "is", "open", "kids", "listable", "threaded"}
    BY <1>1 DEF NoQuery
  <1>3. r.body = q.body /\ r.kids = q.kids
    BY <1>2
  <1> HIDE DEF q, r
  <1>4. QueryType(r)
    BY <1>1, <1>3 DEF QueryType
  <1> QED
    BY <1>4 DEF q, r

LEMMA PropMoves ==
  ASSUME [Next]_vars
  PROVE  UNCHANGED propVars \/ Properties \/ PropertiesStep \/ Again
  <1>1. CASE UNCHANGED answerVars
    BY <1>1 DEF answerVars
  <1>2. CASE Script \/ Cgi \/ File \/ Copy \/ Directory \/ List
    BY <1>2 DEF Script, Cgi, File, Copy, Directory, List
  <1>3. CASE Boot \/ Connect \/ Inetd \/ Scan \/ Url \/ Authenticate \/ Auth \/ Refused \/ Missing
             \/ ScriptRun \/ FileSent \/ ListSent \/ PropertiesSent \/ UNCHANGED vars
    <2>1. UNCHANGED answerVars
      BY <1>3 DEF Boot, Connect, Inetd, NewConnection, Scan, Url, Authenticate, Auth, Refused, Missing,
                  ScriptRun, FileSent, ListSent, PropertiesSent, vars
    <2> QED
      BY <1>1, <2>1
  <1> QED
    BY <1>2, <1>3 DEF Next

LEMMA PropInvNext == PropInv /\ Flow /\ Driven /\ [Next]_vars => PropInv'
  <1> SUFFICES ASSUME PropInv, Flow, Driven, [Next]_vars PROVE PropInv'
    OBVIOUS
  <1>1. CASE Properties
    BY <1>1, QueryTyped, PropfindInv DEF Properties
  <1>2. CASE PropertiesStep
    <2>1. PropStep /\ buf' = buf /\ page' = page
      BY <1>2 DEF PropertiesStep, headVars
    <2> QED
      BY <2>1, PropStepInv
  <1>3. CASE Again
    BY <1>3, PropResetInv DEF Again
  <1>4. CASE UNCHANGED propVars /\ ~Again
    <2>1. pf # "idle" => answer # "idle"
      BY DEF Flow
    <2>2. pf = "idle" \/ HeadStill
      BY <1>4, <2>1, HeadMoves
    <2> QED
      BY <1>4, <2>2, PropStill DEF HeadStill, headVars
  <1> QED
    BY <1>1, <1>2, <1>3, <1>4, PropMoves

(* PROPFIND tells what the body asked for and about every entry there is,  *)
(* for every body, every directory and every limit of properties           *)
(* (propfind, get_props and printprops in a worker that serves any number  *)
(* of other requests before and after).                                    *)
THEOREM AnswersCorrect == Spec => []AnswerRight
  <1>1. Init => PropInv /\ HeadInv
    BY PropInitInv, ScanInitInv, UrlInitInv DEF Init, HeadInv
  <1>2. PropInv => AnswerRight
    BY DEF PropInv, AnswerRight
  <1>3. HeadInv /\ Driven /\ [Next]_vars => HeadInv'
    BY WorkerSteps, HeadInvNext DEF Parts
  <1> QED
    BY <1>1, <1>2, <1>3, DrivenInit, WorkerSteps, FlowInit, FlowNext, PropInvNext, PTL DEF Spec
-----------------------------------------------------------------------------
(* The start of the server.                                                *)

(* The numbers of a set below one of them, and the n-th number of the set. *)
Below(set, i) == {j \in set : j < i}

LEMMA BelowFinite ==
  ASSUME NEW S \in SUBSET Nat, IsFiniteSet(S), NEW x
  PROVE  IsFiniteSet(Below(S, x)) /\ Cardinality(Below(S, x)) \in Nat
  <1>1. Below(S, x) \in SUBSET S
    BY DEF Below
  <1>2. IsFiniteSet(Below(S, x))
    BY <1>1, FS_Subset
  <1> QED
    BY <1>2, FS_CardinalityType

LEMMA BelowGrows ==
  ASSUME NEW S \in SUBSET Nat, IsFiniteSet(S), NEW x \in S, NEW y \in S, x < y
  PROVE  Cardinality(Below(S, x)) < Cardinality(Below(S, y))
  <1>0. x \in Nat /\ y \in Nat /\ \A s \in S : s \in Nat
    OBVIOUS
  <1>1. Below(S, x) \in SUBSET Below(S, y) /\ x \in Below(S, y) /\ x \notin Below(S, x)
    <2>1. \A s \in S : s < x => s < y
      BY <1>0
    <2>2. x < y /\ ~(x < x)
      BY <1>0
    <2> QED
      BY <2>1, <2>2 DEF Below
  <1>2. Cardinality(Below(S, x)) <= Cardinality(Below(S, y)) /\ Cardinality(Below(S, x)) # Cardinality(Below(S, y))
    BY <1>1, BelowFinite, FS_Subset
  <1> QED
    BY <1>2, BelowFinite

LEMMA NthExists ==
  ASSUME NEW S \in SUBSET Nat, IsFiniteSet(S), NEW n \in Nat, n < Cardinality(S)
  PROVE  \E i \in S : Cardinality(Below(S, i)) = n
  <1> DEFINE Has(k) == \E i \in S : Cardinality(Below(S, i)) = k
  <1> DEFINE Lacks == {k \in Nat : k < Cardinality(S) /\ ~Has(k)}
  <1> SUFFICES ASSUME Lacks # {} PROVE FALSE
    OBVIOUS
  <1>0. Cardinality(S) \in Nat /\ \A s \in S : s \in Nat
    BY FS_CardinalityType
  <1>1. PICK k \in Lacks : \A j \in Lacks : k <= j
    <2>1. Lacks \subseteq Nat
      OBVIOUS
    <2> HIDE DEF Lacks
    <2> QED
      BY <2>1, LeastExists
  <1>2. S # {}
    BY <1>0, <1>1, FS_EmptySet
  <1>3. CASE k = 0
    <2>1. PICK x \in S : \A y \in S : x <= y
      BY <1>2, LeastExists
    <2>2. Below(S, x) = {}
      <3>1. \A y \in S : ~(y < x)
        BY <1>0, <2>1
      <3> QED
        BY <3>1 DEF Below
    <2> QED
      BY <1>1, <1>3, <2>2, FS_EmptySet
  <1>4. CASE k # 0
    <2>1. k - 1 \in Nat /\ k - 1 \notin Lacks
      BY <1>1, <1>4
    <2>2. PICK x \in S : Cardinality(Below(S, x)) = k - 1
      BY <1>0, <1>1, <2>1
    <2>3. IsFiniteSet(Below(S, x) \cup {x}) /\ Cardinality(Below(S, x) \cup {x}) = k
      <3>1. x \notin Below(S, x)
        BY DEF Below
      <3> QED
        BY <1>1, <2>2, <3>1, BelowFinite, FS_AddElement
    <2> DEFINE T == {j \in S : j > x}
    <2>4. T # {}
      <3> SUFFICES ASSUME T = {} PROVE FALSE
        OBVIOUS
      <3>1. \A s \in S : s \in Nat /\ ~(s > x)
        BY <1>0
      <3>2. \A s \in S : s < x \/ s = x
        BY <1>0, <3>1
      <3>3. S = Below(S, x) \cup {x}
        BY <3>2 DEF Below
      <3> QED
        BY <1>0, <1>1, <2>3, <3>3
    <2>5. PICK y \in T : \A j \in T : y <= j
      <3>1. T \subseteq Nat
        OBVIOUS
      <3> HIDE DEF T
      <3> QED
        BY <2>4, <3>1, LeastExists
    <2>6. Below(S, y) = Below(S, x) \cup {x}
      <3>1. x \in Nat /\ y \in Nat /\ y \in S /\ x < y
        BY <1>0, <2>5
      <3>2. \A s \in S : s < y <=> s < x \/ s = x
        BY <1>0, <2>5, <3>1
      <3> QED
        BY <3>2 DEF Below
    <2> QED
      BY <1>1, <2>3, <2>5, <2>6
  <1> QED
    BY <1>3, <1>4

LEMMA NthIs ==
  ASSUME NEW S \in SUBSET Nat, IsFiniteSet(S), NEW n \in Nat, n < Cardinality(S)
  PROVE  Nth(S, n) \in S /\ Cardinality(Below(S, Nth(S, n))) = n
  <1>1. Nth(S, n) = CHOOSE i \in S : Cardinality(Below(S, i)) = n
    BY DEF Nth, Below
  <1>2. \E i \in S : Cardinality(Below(S, i)) = n
    BY NthExists
  <1> QED
    BY <1>1, <1>2, Zenon

(* The first number of a set is its 0th, and a number and the next one in  *)
(* the set have successive places.                                         *)
LEMMA NthAscends ==
  ASSUME NEW S \in SUBSET Nat, IsFiniteSet(S), NEW n \in Nat, NEW m \in Nat, n < m, m < Cardinality(S)
  PROVE  Nth(S, n) < Nth(S, m)
  <1>0. Cardinality(S) \in Nat /\ \A s \in S : s \in Nat
    BY FS_CardinalityType
  <1>1. /\ Nth(S, n) \in S /\ Cardinality(Below(S, Nth(S, n))) = n
        /\ Nth(S, m) \in S /\ Cardinality(Below(S, Nth(S, m))) = m
    BY <1>0, NthIs
  <1> DEFINE a == Nth(S, n)
  <1> DEFINE b == Nth(S, m)
  <1>2. a \in Nat /\ b \in Nat /\ a \in S /\ b \in S /\ a # b
    <2>1. a \in S /\ b \in S /\ Cardinality(Below(S, a)) # Cardinality(Below(S, b))
      BY <1>1
    <2> QED
      BY <1>0, <2>1
  <1>3. ~(b < a)
    <2> SUFFICES ASSUME b < a PROVE FALSE
      OBVIOUS
    <2>1. Cardinality(Below(S, b)) < Cardinality(Below(S, a))
      BY <1>2, BelowGrows
    <2> QED
      BY <1>1, <2>1
  <1> HIDE DEF a, b
  <1>4. a < b
    BY <1>2, <1>3
  <1> QED
    BY <1>4 DEF a, b

LEMMA NthUnique ==
  ASSUME NEW S \in SUBSET Nat, IsFiniteSet(S), NEW x \in S
  PROVE  Cardinality(Below(S, x)) < Cardinality(S) /\ Nth(S, Cardinality(Below(S, x))) = x
  <1> DEFINE n == Cardinality(Below(S, x))
  <1>0. Cardinality(S) \in Nat /\ n \in Nat /\ \A s \in S : s \in Nat
    BY FS_CardinalityType, BelowFinite
  <1>1. n < Cardinality(S)
    <2>1. Below(S, x) \in SUBSET S /\ Below(S, x) # S
      BY DEF Below
    <2> QED
      BY <1>0, <2>1, FS_Subset
  <1>2. Nth(S, n) \in S /\ Cardinality(Below(S, Nth(S, n))) = n
    BY <1>0, <1>1, NthIs
  <1> DEFINE a == Nth(S, n)
  <1>3. a \in Nat /\ x \in Nat
    BY <1>0, <1>2
  <1>4. ASSUME a < x PROVE FALSE
    <2>1. Cardinality(Below(S, a)) < Cardinality(Below(S, x))
      BY <1>2, <1>4, BelowGrows
    <2> QED
      BY <1>0, <1>2, <2>1
  <1>5. ASSUME x < a PROVE FALSE
    <2>1. Cardinality(Below(S, x)) < Cardinality(Below(S, a))
      BY <1>2, <1>5, BelowGrows
    <2> QED
      BY <1>0, <1>2, <2>1
  <1>6. a = x
    <2> HIDE DEF a
    <2> QED
      BY <1>3, <1>4, <1>5
  <1> QED
    BY <1>1, <1>6

LEMMA NthBetween ==
  ASSUME NEW S \in SUBSET Nat, IsFiniteSet(S), NEW n \in Nat, n + 1 < Cardinality(S)
  PROVE  \A j \in S : ~(Nth(S, n) < j /\ j < Nth(S, n + 1))
  <1> SUFFICES ASSUME NEW j \in S, Nth(S, n) < j, j < Nth(S, n + 1) PROVE FALSE
    OBVIOUS
  <1>0. Cardinality(S) \in Nat /\ \A s \in S : s \in Nat
    BY FS_CardinalityType
  <1>1. /\ Nth(S, n) \in S /\ Cardinality(Below(S, Nth(S, n))) = n
        /\ Nth(S, n + 1) \in S /\ Cardinality(Below(S, Nth(S, n + 1))) = n + 1
    BY <1>0, NthIs
  <1>2. n < Cardinality(Below(S, j)) /\ Cardinality(Below(S, j)) < n + 1
    BY <1>0, <1>1, BelowGrows
  <1> QED
    BY <1>2, BelowFinite

(* Where the items of a list end.                                          *)
Ends(list, cuts) == cuts \cup {0, Len(list) + 1}
Edge(list, cuts, k) == Nth(Ends(list, cuts), k)
ListPiece(list, cuts, k) == SubSeq(list, Edge(list, cuts, k - 1) + 1, Edge(list, cuts, k) - 1)

LEMMA EndsAre ==
  ASSUME NEW R, NEW list \in Seq(R), NEW cuts, cuts \subseteq 1 .. Len(list)
  PROVE  /\ Len(list) \in Nat /\ IsFiniteSet(cuts) /\ Cardinality(cuts) \in Nat
         /\ IsFiniteSet(Ends(list, cuts)) /\ Ends(list, cuts) \subseteq Nat
         /\ Cardinality(Ends(list, cuts)) = Cardinality(cuts) + 2
         /\ Edge(list, cuts, 0) = 0 /\ Edge(list, cuts, Cardinality(cuts) + 1) = Len(list) + 1
         /\ \A k \in 0 .. Cardinality(cuts) + 1 : Edge(list, cuts, k) \in Ends(list, cuts)
         /\ \A k \in 1 .. Cardinality(cuts) : Edge(list, cuts, k) \in cuts
         /\ \A k \in 0 .. Cardinality(cuts) :
              /\ Edge(list, cuts, k) < Edge(list, cuts, k + 1)
              /\ \A j \in cuts : ~(Edge(list, cuts, k) < j /\ j < Edge(list, cuts, k + 1))
  <1> DEFINE n == Len(list)
  <1> DEFINE c == Cardinality(cuts)
  <1> DEFINE E == Ends(list, cuts)
  <1>1. n \in Nat
    OBVIOUS
  <1>2. IsFiniteSet(cuts) /\ c \in Nat
    <2>1. cuts \in SUBSET (1 .. n) /\ IsFiniteSet(1 .. n)
      BY <1>1, FS_Interval
    <2>2. IsFiniteSet(cuts)
      BY <2>1, FS_Subset
    <2> QED
      BY <2>2, FS_CardinalityType
  <1>3. IsFiniteSet(E) /\ Cardinality(E) = c + 2 /\ E \subseteq Nat
    <2>1. 0 \notin cuts /\ n + 1 \notin cuts \cup {0} /\ E = (cuts \cup {0}) \cup {n + 1} /\ cuts \subseteq Nat
      BY <1>1 DEF Ends
    <2>2. IsFiniteSet(cuts \cup {0}) /\ Cardinality(cuts \cup {0}) = c + 1
      BY <1>2, <2>1, FS_AddElement
    <2>3. IsFiniteSet((cuts \cup {0}) \cup {n + 1}) /\ Cardinality((cuts \cup {0}) \cup {n + 1}) = c + 2
      <3> DEFINE T == cuts \cup {0}
      <3>1. n + 1 \notin T /\ IsFiniteSet(T) /\ Cardinality(T) = c + 1
        BY <2>1, <2>2
      <3> HIDE DEF T
      <3>2. IsFiniteSet(T \cup {n + 1}) /\ Cardinality(T \cup {n + 1}) = c + 1 + 1
        BY <3>1, FS_AddElement
      <3> QED
        BY <1>2, <3>2 DEF T
    <2>4. \A j \in E : j \in Nat
      <3>1. n + 1 \in Nat /\ \A j \in cuts : j \in Nat
        BY <1>1
      <3> QED
        BY <3>1 DEF Ends
    <2> QED
      BY <2>1, <2>3, <2>4
  <1>4. 0 \in E /\ n + 1 \in E /\ \A j \in E : j >= 0 /\ j <= n + 1
    BY <1>1 DEF Ends
  <1>5. ASSUME NEW k \in 0 .. c + 1 PROVE Edge(list, cuts, k) \in E
    BY <1>2, <1>3, NthIs DEF Edge
  <1>6. ASSUME NEW k \in 0 .. c
        PROVE  /\ Edge(list, cuts, k) < Edge(list, cuts, k + 1)
               /\ \A j \in E : ~(Edge(list, cuts, k) < j /\ j < Edge(list, cuts, k + 1))
    BY <1>2, <1>3, NthAscends, NthBetween DEF Edge
  <1>7. Edge(list, cuts, 0) = 0
    <2>1. Below(E, 0) = {}
      <3>1. \A j \in E : ~(j < 0)
        BY <1>3
      <3> QED
        BY <3>1 DEF Below
    <2>2. Cardinality(Below(E, 0)) = 0
      BY <2>1, FS_EmptySet
    <2> QED
      BY <1>3, <1>4, <2>2, NthUnique DEF Edge
  <1>8. Edge(list, cuts, c + 1) = n + 1
    <2> DEFINE top == n + 1
    <2>1. \A j \in E : j < top <=> j # top
      BY <1>1, <1>3, <1>4
    <2>2. top \in E /\ Cardinality(E) = c + 2 /\ c \in Nat /\ IsFiniteSet(E) /\ E \in SUBSET Nat
      BY <1>2, <1>3, <1>4
    <2> HIDE DEF top, E, c
    <2>3. Below(E, top) = E \ {top}
      BY <2>1 DEF Below
    <2>4. Cardinality(E \ {top}) = c + 2 - 1
      <3>1. Cardinality(E \ {top}) = Cardinality(E) - 1
        BY <2>2, FS_RemoveElement, Zenon
      <3> QED
        BY <2>2, <3>1
    <2>5. Nth(E, c + 1) = top
      <3>1. Cardinality(Below(E, top)) = c + 1
        BY <2>2, <2>3, <2>4
      <3> QED
        BY <2>2, <3>1, NthUnique
    <2> QED
      BY <2>5 DEF Edge, E, c, top
  <1>9. ASSUME NEW k \in 1 .. c PROVE Edge(list, cuts, k) \in cuts
    <2>1. Edge(list, cuts, 0) < Edge(list, cuts, k) /\ Edge(list, cuts, k) < Edge(list, cuts, c + 1)
      BY <1>2, <1>3, NthAscends DEF Edge
    <2>2. Edge(list, cuts, k) \in E
      BY <1>2, <1>5
    <2> QED
      BY <1>1, <1>7, <1>8, <2>1, <2>2 DEF Ends
  <1>10. cuts \subseteq E
    BY DEF Ends
  <1> HIDE DEF E, c, n
  <1> QED
    BY <1>1, <1>2, <1>3, <1>5, <1>6, <1>7, <1>8, <1>9, <1>10 DEF E, c, n

LEMMA ItemsAre ==
  ASSUME NEW R, NEW list \in Seq(R), NEW cuts, cuts \subseteq 1 .. Len(list)
  PROVE  /\ Items(list, cuts) \in Seq(Seq(R)) /\ Len(Items(list, cuts)) = Cardinality(cuts) + 1
         /\ \A k \in 1 .. Cardinality(cuts) + 1 :
              /\ Items(list, cuts)[k] = ListPiece(list, cuts, k)
              /\ Edge(list, cuts, k - 1) \in 0 .. Len(list) /\ Edge(list, cuts, k) \in 1 .. Len(list) + 1
              /\ Edge(list, cuts, k - 1) < Edge(list, cuts, k)
              /\ Len(Items(list, cuts)[k]) = Edge(list, cuts, k) - Edge(list, cuts, k - 1) - 1
  <1> DEFINE n == Cardinality(cuts) + 1
  <1> DEFINE e(k) == Edge(list, cuts, k)
  <1>1. /\ n \in Nat /\ Len(list) \in Nat
        /\ \A k \in 0 .. n - 1 : e(k) < e(k + 1)
        /\ \A k \in 0 .. n : e(k) \in Ends(list, cuts)
        /\ Ends(list, cuts) \subseteq Nat
    <2>1. /\ Cardinality(cuts) \in Nat /\ Len(list) \in Nat /\ Ends(list, cuts) \subseteq Nat
          /\ \A k \in 0 .. Cardinality(cuts) + 1 : e(k) \in Ends(list, cuts)
          /\ \A k \in 0 .. Cardinality(cuts) : e(k) < e(k + 1)
      BY EndsAre
    <2>2. n - 1 = Cardinality(cuts) /\ n \in Nat
      BY <2>1
    <2> QED
      BY <2>1, <2>2
  <1>2. Items(list, cuts) = [k \in 1 .. n |-> SubSeq(list, e(k - 1) + 1, e(k) - 1)]
    BY DEF Items, Edge, Ends
  <1>3. ASSUME NEW k \in 1 .. n
        PROVE  /\ SubSeq(list, e(k - 1) + 1, e(k) - 1) \in Seq(R)
               /\ Len(SubSeq(list, e(k - 1) + 1, e(k) - 1)) = e(k) - e(k - 1) - 1
               /\ e(k - 1) \in 0 .. Len(list) /\ e(k) \in 1 .. Len(list) + 1 /\ e(k - 1) < e(k)
    <2> DEFINE a == e(k - 1)
    <2> DEFINE b == e(k)
    <2>1. k - 1 \in 0 .. n - 1 /\ k - 1 + 1 = k /\ k \in 0 .. n /\ k - 1 \in 0 .. n
      BY <1>1
    <2>2. a < b /\ a \in Ends(list, cuts) /\ b \in Ends(list, cuts)
      BY <1>1, <2>1
    <2>3. a \in 0 .. Len(list) + 1 /\ b \in 0 .. Len(list) + 1
      BY <1>1, <2>2 DEF Ends
    <2> HIDE DEF a, b
    <2>4. a \in 0 .. Len(list) /\ b \in 1 .. Len(list) + 1
      BY <1>1, <2>2, <2>3
    <2>5. a + 1 \in 1 .. Len(list) + 1 /\ b - 1 \in 0 .. Len(list) /\ a + 1 <= b - 1 + 1
      BY <1>1, <2>2, <2>4
    <2>6. SubSeq(list, a + 1, b - 1) \in Seq(R) /\ Len(SubSeq(list, a + 1, b - 1)) = b - 1 - (a + 1) + 1
      <3> DEFINE m == a + 1
      <3> DEFINE q == b - 1
      <3>1. /\ m \in Int /\ q \in Int /\ (IF m <= q THEN q - m + 1 ELSE 0) = q - m + 1
            /\ \A i \in m .. q : i \in 1 .. Len(list)
        BY <1>1, <2>5
      <3> HIDE DEF m, q
      <3>2. \A i \in m .. q : list[i] \in R
        BY <3>1, ElementOfSeq
      <3>3. SubSeq(list, m, q) \in Seq(R) /\ Len(SubSeq(list, m, q)) = q - m + 1
        BY <3>1, <3>2, SubSeqProperties
      <3> QED
        BY <3>3 DEF m, q
    <2>7. b - 1 - (a + 1) + 1 = b - a - 1
      BY <1>1, <2>4
    <2> QED
      BY <2>2, <2>4, <2>6, <2>7 DEF a, b
  <1> HIDE DEF e, n
  <1>4. Items(list, cuts) \in [1 .. n -> Seq(R)]
    BY <1>2, <1>3
  <1>5. Items(list, cuts) \in Seq(Seq(R)) /\ Len(Items(list, cuts)) = n
    BY <1>1, <1>4
  <1>6. \A k \in 1 .. n : Items(list, cuts)[k] = SubSeq(list, e(k - 1) + 1, e(k) - 1)
    BY <1>2
  <1> QED
    BY <1>3, <1>5, <1>6 DEF e, n, ListPiece

(* A list without empty items is cut at all its commas by both loops.      *)
CommasOf(list) == {i \in DOMAIN list : list[i] = COMMA}

LEMMA CgiCutsAre ==
  ASSUME NEW list \in Seq(0 .. 255)
  PROVE  /\ CgiCuts(list) \subseteq 1 .. Len(list) /\ ListCuts(list) \subseteq 1 .. Len(list)
         /\ NoEmpty(list) => CgiCuts(list) = CommasOf(list)
  <1>1. Len(list) \in Nat /\ DOMAIN list = 1 .. Len(list)
    OBVIOUS
  <1>2. CgiCuts(list) \subseteq 1 .. Len(list) /\ ListCuts(list) \subseteq 1 .. Len(list)
    BY <1>1 DEF CgiCuts, ListCuts
  <1>3. ASSUME NoEmpty(list) PROVE CgiCuts(list) = CommasOf(list)
    <2>1. list[1] # COMMA
      BY <1>3 DEF NoEmpty
    <2> QED
      BY <1>1, <2>1 DEF CgiCuts, CommasOf
  <1> QED
    BY <1>2, <1>3

LEMMA ListCutsAre ==
  ASSUME NEW list \in Seq(0 .. 255), NoEmpty(list)
  PROVE  ListCuts(list) = CommasOf(list)
  <1> DEFINE N == Len(list)
  <1> DEFINE F(f) == [i \in 1 .. N |-> i > 1 /\ list[i] = COMMA /\ ~f[i - 1]]
  <1> DEFINE w == [i \in 1 .. N |-> i > 1 /\ list[i] = COMMA]
  <1> DEFINE mark == CHOOSE f : f = F(f)
  <1>1. N \in Nat /\ DOMAIN list = 1 .. N
    OBVIOUS
  <1>2. list[1] # COMMA /\ \A i \in 1 .. N - 1 : ~(list[i] = COMMA /\ list[i + 1] = COMMA)
    BY DEF NoEmpty
  <1>3. w = F(w)
    <2>1. ASSUME NEW i \in 1 .. N
          PROVE  (i > 1 /\ list[i] = COMMA) <=> (i > 1 /\ list[i] = COMMA /\ ~w[i - 1])
      <3>1. CASE i > 1 /\ list[i] = COMMA
        <4>1. i - 1 \in 1 .. N - 1 /\ i - 1 + 1 = i
          BY <1>1, <3>1
        <4>2. list[i - 1] # COMMA
          BY <1>2, <3>1, <4>1
        <4>3. ~w[i - 1]
          <5>1. i - 1 \in 1 .. N
            BY <1>1, <4>1
          <5> QED
            BY <4>2, <5>1
        <4> QED
          BY <3>1, <4>3
      <3>2. CASE ~(i > 1 /\ list[i] = COMMA)
        BY <3>2
      <3> QED
        BY <3>1, <3>2
    <2> QED
      BY <2>1
  <1>4. mark = F(mark)
    <2> HIDE DEF w, F
    <2>1. \E f : f = F(f)
      BY <1>3
    <2> QED
      BY <2>1, Zenon
  <1>5. ListCuts(list) = {i \in 1 .. N : mark[i]}
    BY DEF ListCuts
  <1> HIDE DEF mark
  <1>6. ASSUME NEW i \in 1 .. N PROVE mark[i] <=> list[i] = COMMA
    <2>1. mark[i] <=> (i > 1 /\ list[i] = COMMA /\ ~mark[i - 1])
      BY <1>4
    <2>2. CASE i = 1
      BY <1>2, <2>1, <2>2
    <2>3. CASE i > 1 /\ list[i] = COMMA
      <3>1. i - 1 \in 1 .. N - 1 /\ i - 1 + 1 = i
        BY <1>1, <2>3
      <3>2. list[i - 1] # COMMA
        BY <1>2, <2>3, <3>1
      <3>3. mark[i - 1] => list[i - 1] = COMMA
        <4>1. i - 1 \in 1 .. N
          BY <1>1, <3>1
        <4> QED
          BY <1>4, <4>1
      <3> QED
        BY <2>1, <2>3, <3>2, <3>3
    <2>4. CASE list[i] # COMMA
      BY <2>1, <2>4
    <2> QED
      BY <1>1, <2>2, <2>3, <2>4
  <1> QED
    BY <1>1, <1>5, <1>6 DEF CommasOf

(* The items of such a list: as many as there are commas and one more,     *)
(* none of them empty, and joined they are the list.                       *)
LEMMA GoodItems ==
  ASSUME NEW list \in Seq(0 .. 255), NoEmpty(list)
  PROVE  LET items == Items(list, CommasOf(list))
         IN  /\ Len(items) = Commas(list) + 1 /\ Commas(list) \in Nat
             /\ \A k \in DOMAIN items : items[k] # <<>>
  <1> DEFINE cuts == CommasOf(list)
  <1> DEFINE items == Items(list, cuts)
  <1> DEFINE e(k) == Edge(list, cuts, k)
  <1> DEFINE n == Cardinality(cuts) + 1
  <1>1. Len(list) \in Nat /\ DOMAIN list = 1 .. Len(list) /\ cuts \subseteq 1 .. Len(list)
    BY DEF CommasOf
  <1>2. Commas(list) = Cardinality(cuts)
    BY DEF Commas, CommasOf
  <1>3. /\ items \in Seq(Seq(0 .. 255)) /\ Len(items) = n
        /\ \A k \in 1 .. n : /\ e(k - 1) \in 0 .. Len(list) /\ e(k) \in 1 .. Len(list) + 1
                             /\ e(k - 1) < e(k) /\ Len(items[k]) = e(k) - e(k - 1) - 1
    BY <1>1, ItemsAre
  <1>4. /\ Cardinality(cuts) \in Nat /\ e(0) = 0 /\ e(n) = Len(list) + 1
        /\ \A k \in 1 .. n - 1 : e(k) \in cuts
    BY <1>1, EndsAre
  <1>5. /\ list # <<>> /\ list[1] # COMMA /\ list[Len(list)] # COMMA
        /\ \A i \in 1 .. Len(list) - 1 : ~(list[i] = COMMA /\ list[i + 1] = COMMA)
    BY DEF NoEmpty
  <1>6. Len(list) > 0
    BY <1>1, <1>5
  <1>7. \A i \in cuts : i \in 1 .. Len(list) /\ list[i] = COMMA
    BY <1>1 DEF CommasOf
  <1> HIDE DEF items, cuts, e, n
  <1>8. ASSUME NEW k \in 1 .. n PROVE e(k) # e(k - 1) + 1
    <2>1. n \in Nat
      BY <1>4 DEF n
    <2> SUFFICES ASSUME e(k) = e(k - 1) + 1 PROVE FALSE
      OBVIOUS
    <2>2. CASE k = 1
      <3>1. e(1) = 1
        BY <1>4, <2>2
      <3>2. n # 1
        BY <1>4, <1>6, <3>1
      <3>3. e(1) \in cuts
        BY <1>4, <2>1, <3>2
      <3> QED
        BY <1>5, <1>7, <3>1, <3>3
    <2>3. CASE k = n /\ k # 1
      <3>1. n - 1 \in 1 .. n - 1
        BY <2>1, <2>3
      <3>2. e(n - 1) \in cuts /\ e(n - 1) + 1 = Len(list) + 1
        BY <1>4, <2>3, <3>1
      <3> DEFINE a == e(n - 1)
      <3>3. a \in 1 .. Len(list) /\ list[a] = COMMA /\ a + 1 = Len(list) + 1
        BY <1>7, <3>2
      <3> HIDE DEF a
      <3>4. a = Len(list)
        <4> DEFINE l == Len(list)
        <4>1. a \in Nat /\ l \in Nat /\ a + 1 = l + 1
          BY <1>1, <3>3
        <4> HIDE DEF l
        <4>2. a = l
          BY <4>1
        <4> QED
          BY <4>2 DEF l
      <3> QED
        BY <1>5, <3>3, <3>4
    <2>4. CASE k # 1 /\ k # n
      <3>1. k \in 1 .. n - 1 /\ k - 1 \in 1 .. n - 1
        BY <2>1, <2>4
      <3> DEFINE a == e(k - 1)
      <3>2. a \in cuts /\ a + 1 \in cuts
        BY <1>4, <3>1
      <3> HIDE DEF a
      <3>3. a \in 1 .. Len(list) - 1 /\ list[a] = COMMA /\ list[a + 1] = COMMA
        BY <1>1, <1>7, <3>2
      <3> QED
        BY <1>5, <3>3
    <2> QED
      BY <2>2, <2>3, <2>4
  <1>9. ASSUME NEW k \in 1 .. n PROVE items[k] # <<>>
    <2> DEFINE a == e(k - 1)
    <2> DEFINE b == e(k)
    <2>1. a \in 0 .. Len(list) /\ b \in 1 .. Len(list) + 1 /\ a < b /\ Len(items[k]) = b - a - 1 /\ b # a + 1
      BY <1>3, <1>8
    <2> HIDE DEF a, b
    <2>2. Len(items[k]) # 0
      BY <1>1, <2>1
    <2> QED
      BY <2>2
  <1>10. DOMAIN items = 1 .. n
    BY <1>3
  <1> QED
    BY <1>2, <1>3, <1>4, <1>9, <1>10 DEF items, cuts, n

LEMMA SubSeqJoin ==
  ASSUME NEW R, NEW s \in Seq(R), NEW a \in 1 .. Len(s), NEW b \in a + 1 .. Len(s) + 1
  PROVE  SubSeq(s, 1, a - 1) \o <<s[a]>> \o SubSeq(s, a + 1, b - 1) = SubSeq(s, 1, b - 1)
  <1> DEFINE x == SubSeq(s, 1, a - 1)
  <1> DEFINE y == SubSeq(s, a + 1, b - 1)
  <1> DEFINE z == SubSeq(s, 1, b - 1)
  <1>1. Len(s) \in Nat /\ a \in Nat /\ b \in Nat /\ a < b /\ s[a] \in R
    OBVIOUS
  <1>2. x \in Seq(R) /\ Len(x) = a - 1 /\ \A i \in 1 .. a - 1 : x[i] = s[i]
    <2>1. a - 1 \in 0 .. Len(s) /\ 1 \in 1 .. Len(s) + 1
      BY <1>1
    <2> QED
      BY <1>1, <2>1, SubSeqProperties
  <1>3. y \in Seq(R) /\ Len(y) = b - a - 1 /\ \A i \in 1 .. b - a - 1 : y[i] = s[a + i]
    <2>1. a + 1 \in 1 .. Len(s) + 1 /\ b - 1 \in 0 .. Len(s) /\ a + 1 <= b - 1 + 1
      BY <1>1
    <2>2. /\ y \in Seq(R) /\ Len(y) = b - 1 - (a + 1) + 1
          /\ \A i \in 1 .. b - 1 - (a + 1) + 1 : y[i] = s[a + 1 + i - 1]
      BY <1>1, <2>1, SubSeqProperties
    <2>3. b - 1 - (a + 1) + 1 = b - a - 1 /\ \A i \in 1 .. b - a - 1 : a + 1 + i - 1 = a + i
      BY <1>1
    <2> QED
      BY <2>2, <2>3
  <1>4. z \in Seq(R) /\ Len(z) = b - 1 /\ \A i \in 1 .. b - 1 : z[i] = s[i]
    <2>1. b - 1 \in 0 .. Len(s) /\ 1 \in 1 .. Len(s) + 1
      BY <1>1
    <2> QED
      BY <1>1, <2>1, SubSeqProperties
  <1> DEFINE c == s[a]
  <1> HIDE DEF x, y, z, c
  <1>5. c \in R /\ c = s[a]
    BY <1>1 DEF c
  <1> DEFINE u == x \o <<c>>
  <1>6. u \in Seq(R) /\ Len(u) = a /\ \A i \in 1 .. a : u[i] = s[i]
    <2>1. u \in Seq(R) /\ Len(u) = Len(x) + 1
          /\ \A i \in 1 .. Len(x) + 1 : u[i] = IF i <= Len(x) THEN x[i] ELSE <<c>>[i - Len(x)]
      <3>1. <<c>> \in Seq(R) /\ Len(<<c>>) = 1
        BY <1>5
      <3> QED
        BY <1>2, <3>1, ConcatProperties
    <2>2. ASSUME NEW i \in 1 .. a PROVE u[i] = s[i]
      <3>1. CASE i = a
        BY <1>1, <1>2, <1>5, <2>1, <3>1
      <3>2. CASE i < a
        BY <1>1, <1>2, <2>1, <3>2
      <3>3. i = a \/ i < a
        <4>1. i \in Nat /\ a \in Nat /\ i <= a
          BY <1>1
        <4> QED
          BY <4>1
      <3> QED
        BY <3>1, <3>2, <3>3
    <2> QED
      BY <1>1, <1>2, <2>1, <2>2
  <1> HIDE DEF u
  <1> DEFINE v == u \o y
  <1>7. /\ v \in Seq(R) /\ Len(v) = b - 1
        /\ \A i \in 1 .. b - 1 : v[i] = IF i <= a THEN u[i] ELSE y[i - a]
    <2>1. v \in Seq(R) /\ Len(v) = Len(u) + Len(y)
          /\ \A i \in 1 .. Len(u) + Len(y) : v[i] = IF i <= Len(u) THEN u[i] ELSE y[i - Len(u)]
      BY <1>3, <1>6, ConcatProperties
    <2>2. Len(u) + Len(y) = b - 1
      BY <1>1, <1>3, <1>6
    <2> QED
      BY <1>6, <2>1, <2>2
  <1> HIDE DEF v
  <1>8. ASSUME NEW i \in 1 .. b - 1 PROVE v[i] = z[i]
    <2>1. CASE i <= a
      BY <1>1, <1>4, <1>6, <1>7, <2>1
    <2>2. CASE i > a
      <3>1. i - a \in 1 .. b - a - 1 /\ a + (i - a) = i
        BY <1>1, <2>2
      <3>2. y[i - a] = s[a + (i - a)]
        BY <1>3, <3>1
      <3> QED
        BY <1>1, <1>4, <1>7, <2>2, <3>1, <3>2
    <2> QED
      BY <1>1, <2>1, <2>2
  <1>9. v = z
    BY <1>4, <1>7, <1>8
  <1> QED
    BY <1>9 DEF v, u, x, y, z, c

LEMMA ItemsJoined ==
  ASSUME NEW list \in Seq(0 .. 255)
  PROVE  Joined(Items(list, CommasOf(list))) = list
  <1> DEFINE cuts == CommasOf(list)
  <1> DEFINE items == Items(list, cuts)
  <1> DEFINE n == Cardinality(cuts) + 1
  <1> DEFINE e(k) == Edge(list, cuts, k)
  <1> DEFINE part(k) == SubSeq(list, 1, e(k) - 1)
  <1> DEFINE F(f) == [k \in 1 .. n |-> IF k = 1 THEN items[1] ELSE f[k - 1] \o <<COMMA>> \o items[k]]
  <1> DEFINE upto == CHOOSE f : f = F(f)
  <1>1. Len(list) \in Nat /\ DOMAIN list = 1 .. Len(list) /\ cuts \subseteq 1 .. Len(list)
    BY DEF CommasOf
  <1>2. /\ items \in Seq(Seq(0 .. 255)) /\ Len(items) = n
        /\ \A k \in 1 .. n : /\ items[k] = SubSeq(list, e(k - 1) + 1, e(k) - 1)
                             /\ e(k - 1) \in 0 .. Len(list) /\ e(k) \in 1 .. Len(list) + 1 /\ e(k - 1) < e(k)
    <2> HIDE DEF cuts
    <2>1. items \in Seq(Seq(0 .. 255)) /\ Len(items) = n
      BY <1>1, ItemsAre, ZenonT(60)
    <2>2. ASSUME NEW k \in 1 .. n
          PROVE  /\ items[k] = ListPiece(list, cuts, k)
                 /\ e(k - 1) \in 0 .. Len(list) /\ e(k) \in 1 .. Len(list) + 1 /\ e(k - 1) < e(k)
      <3>1. items[k] = ListPiece(list, cuts, k)
        BY DEF Items, ListPiece, Edge, Ends
      <3>2. e(k - 1) \in 0 .. Len(list) /\ e(k) \in 1 .. Len(list) + 1
        BY <1>1, ItemsAre
      <3>3. e(k - 1) < e(k)
        BY <1>1, ItemsAre
      <3> QED
        BY <3>1, <3>2, <3>3
    <2>3. \A k \in 1 .. n : ListPiece(list, cuts, k) = SubSeq(list, e(k - 1) + 1, e(k) - 1)
      BY DEF ListPiece
    <2> HIDE DEF items, n, e
    <2> QED
      BY <2>1, <2>2, <2>3
  <1>3. /\ n \in Nat /\ n >= 1 /\ e(0) = 0 /\ e(n) = Len(list) + 1
        /\ \A k \in 1 .. n - 1 : e(k) \in cuts
    <2>1. /\ Cardinality(cuts) \in Nat /\ e(0) = 0 /\ e(Cardinality(cuts) + 1) = Len(list) + 1
          /\ \A k \in 1 .. Cardinality(cuts) : e(k) \in cuts
      BY <1>1, EndsAre
    <2>2. n - 1 = Cardinality(cuts) /\ n \in Nat /\ n >= 1
      BY <2>1
    <2> QED
      BY <2>1, <2>2
  <1>4. \A i \in cuts : i \in 1 .. Len(list) /\ list[i] = COMMA
    BY <1>1 DEF CommasOf
  <1>5. Joined(items) = upto[n]
    BY <1>2 DEF Joined
  <1> HIDE DEF cuts, items, n, e
  <1>6. part(1) = items[1]
    <2>1. 1 \in 1 .. n /\ 1 - 1 = 0 /\ 0 + 1 = 1
      BY <1>3
    <2> QED
      BY <1>2, <1>3, <2>1
  <1>7. ASSUME NEW k \in 1 .. n, k # 1 PROVE part(k) = part(k - 1) \o <<COMMA>> \o items[k]
    <2> DEFINE a == e(k - 1)
    <2> DEFINE b == e(k)
    <2>1. k - 1 \in 1 .. n - 1
      BY <1>3, <1>7
    <2>2. a \in cuts /\ items[k] = SubSeq(list, a + 1, b - 1) /\ b \in 1 .. Len(list) + 1 /\ a < b
      BY <1>2, <1>3, <2>1
    <2>3. a \in 1 .. Len(list) /\ list[a] = COMMA
      BY <1>4, <2>2
    <2> HIDE DEF a, b
    <2>4. b \in a + 1 .. Len(list) + 1
      BY <1>1, <2>2, <2>3
    <2>5. SubSeq(list, 1, a - 1) \o <<list[a]>> \o SubSeq(list, a + 1, b - 1) = SubSeq(list, 1, b - 1)
      BY <2>3, <2>4, SubSeqJoin
    <2> QED
      BY <2>2, <2>3, <2>5 DEF a, b
  <1> HIDE DEF part
  <1> DEFINE w == [k \in 1 .. n |-> part(k)]
  <1>8. w = F(w)
    <2>1. ASSUME NEW k \in 1 .. n
          PROVE  part(k) = IF k = 1 THEN items[1] ELSE w[k - 1] \o <<COMMA>> \o items[k]
      <3>1. CASE k = 1
        BY <1>6, <3>1
      <3>2. CASE k # 1
        <4>1. k - 1 \in 1 .. n
          BY <1>3, <3>2
        <4>2. w[k - 1] = part(k - 1)
          BY <4>1
        <4> QED
          BY <1>7, <3>2, <4>2
      <3> QED
        BY <3>1, <3>2
    <2> QED
      BY <2>1
  <1>9. upto = F(upto)
    <2> HIDE DEF w, F
    <2>1. \E f : f = F(f)
      BY <1>8
    <2> QED
      BY <2>1, Zenon
  <1> HIDE DEF upto
  <1>10. upto[n] = part(n)
    <2> DEFINE bad == {k \in 1 .. n : upto[k] # part(k)}
    <2> SUFFICES ASSUME bad # {} PROVE FALSE
      BY <1>3
    <2>1. bad \subseteq Nat
      BY <1>3
    <2>2. PICK k \in bad : \A j \in bad : k <= j
      <3> HIDE DEF bad
      <3> QED
        BY <2>1, LeastExists
    <2>3. CASE k = 1
      BY <1>6, <1>9, <2>2, <2>3
    <2>4. CASE k # 1
      <3>1. k \in 1 .. n /\ k - 1 \in 1 .. n /\ k - 1 < k
        BY <1>3, <2>2, <2>4
      <3>2. k - 1 \notin bad
        BY <1>3, <2>2, <3>1
      <3>3. upto[k - 1] = part(k - 1)
        BY <3>1, <3>2
      <3>4. upto[k] = upto[k - 1] \o <<COMMA>> \o items[k]
        BY <1>9, <2>4, <3>1
      <3> QED
        BY <1>7, <2>2, <2>4, <3>1, <3>3, <3>4
    <2> QED
      BY <2>3, <2>4
  <1>11. part(n) = list
    <2>1. part(n) = SubSeq(list, 1, Len(list) + 1 - 1)
      BY <1>3 DEF part
    <2>2. Len(list) + 1 - 1 = Len(list)
      BY <1>1
    <2> QED
      BY <1>1, <2>1, <2>2
  <1> QED
    BY <1>5, <1>10, <1>11 DEF items, cuts

(* What the options read so far make of the configuration.                 *)
Keys == Flags \cup Values \cup {"b", "C", "a", "V", "c", "I"}
Bytes == 0 .. 255
Texted == Seq(Bytes)
CgiList(list) == IF list = <<>> THEN <<>> ELSE Items(list, CgiCuts(list))
Value(o, arg) == IF o \in Flags \cup {"V"} THEN TRUE
                 ELSE IF o = "b" THEN arg.path
                 ELSE IF o = "c" THEN CgiList(arg)
                 ELSE IF o = "I" THEN Items(arg, ListCuts(arg))
                 ELSE arg
ReadTo(o) == {k \in Uses(o) : k <= argi}
ConfOf(o) == IF ReadTo(o) = {} THEN DefaultConf[o] ELSE Value(o, cmdline[Latest(ReadTo(o))][2])
Configured == \A o \in Keys : conf[o] = ConfOf(o)

(* An option that does not end the server.                                 *)
CgiTaken(list) ==
  LET items == Items(list, CgiCuts(list))
  IN  list = <<>> \/ (/\ Len(items) < MAXINDEXCOUNT /\ Len(items) % 2 # 1
                      /\ \A k \in DOMAIN items : k % 2 = 1 => items[k] # <<>>)
Accepted(o) ==
  /\ o[1] \notin Informs \cup {"unknown"}
  /\ o[1] = "b" => o[2].is \in {"dir", "missing"}
  /\ o[1] = "C" => o[2] = "dir"
  /\ o[1] = "a" => o[2] = "socket"
  /\ o[1] = "c" => CgiTaken(o[2])
  /\ o[1] = "I" => Len(Items(o[2], ListCuts(o[2]))) < MAXINDEXCOUNT

ConfTyped ==
  /\ DOMAIN conf = Keys
  /\ conf["b"] \in Texted /\ conf["c"] \in Seq(Texted) /\ conf["I"] \in Seq(Texted)
  /\ conf["p"] \in Nat /\ conf["u"] \in Nat /\ conf["g"] \in Nat
BootTyped == BootTypeOK /\ CommandLine(cmdline) /\ ConfTyped /\ env \subseteq Texted \X Texted

LEMMA ListItems ==
  ASSUME NEW list \in Texted
  PROVE  Items(list, ListCuts(list)) \in Seq(Texted) /\ CgiList(list) \in Seq(Texted)
  <1>1. CgiCuts(list) \subseteq 1 .. Len(list) /\ ListCuts(list) \subseteq 1 .. Len(list)
    BY CgiCutsAre DEF Texted, Bytes
  <1>2. Items(list, ListCuts(list)) \in Seq(Seq(Bytes)) /\ Items(list, CgiCuts(list)) \in Seq(Seq(Bytes))
    BY <1>1, ItemsAre DEF Texted
  <1>3. <<>> \in Seq(Texted)
    OBVIOUS
  <1> QED
    BY <1>2, <1>3, Zenon DEF Texted, CgiList

LEMMA DefaultsAre ==
  /\ DOMAIN DefaultConf = Keys
  /\ \A o \in Flags \cup {"V"} : DefaultConf[o] = FALSE
  /\ DefaultConf["b"] = BASEDIR /\ DefaultConf["c"] = CGIS /\ DefaultConf["I"] = <<INDEX>>
  /\ DefaultConf["p"] = PORT /\ DefaultConf["u"] = 0 /\ DefaultConf["g"] = 0
  /\ \A o \in {"i", "S", "K", "C", "a"} : DefaultConf[o] = Unset
  <1>1. DOMAIN DefaultConf = Keys
    BY DEF DefaultConf, Keys
  <1>2. ASSUME NEW o \in Keys
        PROVE  DefaultConf[o] = CASE o \in Flags \cup {"V"} -> FALSE
                                  [] o = "p"                -> PORT
                                  [] o \in {"u", "g"}       -> 0
                                  [] o = "b"                -> BASEDIR
                                  [] o = "c"                -> CGIS
                                  [] o = "I"                -> <<INDEX>>
                                  [] OTHER                  -> Unset
    BY DEF DefaultConf, Keys
  <1>3. /\ Flags = {"t", "T", "Y", "d", "m"}
        /\ Keys = {"t", "T", "Y", "d", "m", "p", "i", "u", "g", "S", "K", "b", "C", "a", "V", "c", "I"}
    BY DEF Flags, Keys, Values
  <1> HIDE DEF DefaultConf, Flags, Keys
  <1>4. \A o \in Flags \cup {"V"} : DefaultConf[o] = FALSE
    BY <1>2, <1>3
  <1>5. DefaultConf["b"] = BASEDIR /\ DefaultConf["c"] = CGIS /\ DefaultConf["I"] = <<INDEX>>
    BY <1>2, <1>3
  <1>6. DefaultConf["p"] = PORT /\ DefaultConf["u"] = 0 /\ DefaultConf["g"] = 0
    BY <1>2, <1>3
  <1>7. \A o \in {"i", "S", "K", "C", "a"} : DefaultConf[o] = Unset
    BY <1>2, <1>3
  <1> QED
    BY <1>1, <1>4, <1>5, <1>6, <1>7

LEMMA DefaultsMatch ==
  /\ DefaultConf["b"] \in Texted /\ DefaultConf["c"] \in Seq(Texted) /\ DefaultConf["I"] \in Seq(Texted)
  /\ DefaultConf["p"] \in Nat /\ DefaultConf["u"] \in Nat /\ DefaultConf["g"] \in Nat
  <1>1. BASEDIR \in Texted /\ CGIS \in Seq(Texted) /\ <<INDEX>> \in Seq(Texted) /\ PORT \in Nat
    BY DefaultsTyped, PortsOrdered DEF Texted, Bytes
  <1> QED
    BY <1>1, DefaultsAre

(* One option more.                                                        *)
LEMMA ReadsFacts ==
  ASSUME BootTyped, NEW options, Reads(options)
  PROVE  /\ cmdline' = cmdline /\ world' = world /\ cred' = cred /\ bound' = bound
         /\ boot = "options" /\ argi' = argi + 1 /\ argi + 1 \in 1 .. Len(cmdline) /\ argi \in Nat
         /\ Opt \in options /\ Opt = cmdline[argi + 1][1] /\ Arg = cmdline[argi + 1][2]
         /\ OptionType(cmdline[argi + 1])
         /\ \A o : o # Opt => ReadTo(o)' = ReadTo(o)
         /\ \A o : o = Opt => ReadTo(o)' # {} /\ Latest(ReadTo(o)') = argi + 1
  <1>1. /\ cmdline' = cmdline /\ world' = world /\ cred' = cred /\ bound' = bound
        /\ boot = "options" /\ argi' = argi + 1 /\ argi < Len(cmdline) /\ Opt \in options
    BY DEF Reads
  <1>2. argi \in Nat /\ Len(cmdline) \in Nat /\ DOMAIN cmdline = 1 .. Len(cmdline)
    BY DEF BootTyped, BootTypeOK, CommandLine
  <1>3. argi + 1 \in 1 .. Len(cmdline)
    BY <1>1, <1>2
  <1>4. OptionType(cmdline[argi + 1])
    BY <1>2, <1>3 DEF BootTyped, CommandLine
  <1>5. ASSUME NEW o, o # Opt PROVE ReadTo(o)' = ReadTo(o)
    <2>1. \A k \in 1 .. Len(cmdline) : cmdline[k][1] = o => (k <= argi + 1 <=> k <= argi)
      BY <1>2, <1>5 DEF Opt
    <2> QED
      BY <1>1, <1>2, <2>1 DEF ReadTo, Uses
  <1>6. ASSUME NEW o, o = Opt PROVE ReadTo(o)' # {} /\ Latest(ReadTo(o)') = argi + 1
    <2> DEFINE R == ReadTo(o)'
    <2>1. argi + 1 \in R /\ \A j \in R : j \in Nat /\ j <= argi + 1
      BY <1>1, <1>2, <1>3, <1>6 DEF ReadTo, Uses, Opt
    <2> HIDE DEF R
    <2>2. \A k \in R : (\A j \in R : j <= k) => k = argi + 1
      BY <1>2, <2>1
    <2>3. Latest(R) = argi + 1
      BY <1>2, <2>1, <2>2 DEF Latest
    <2> QED
      BY <2>1, <2>3 DEF R
  <1> QED
    BY <1>1, <1>2, <1>3, <1>4, <1>5, <1>6 DEF Arg, Opt

OptTaken ==
  /\ boot' = "options" /\ code' = code /\ Accepted(cmdline[argi + 1]) /\ Opt \in Keys
  /\ conf' = [conf EXCEPT ![Opt] = Value(Opt, Arg)]
  /\ IF Opt = "V" THEN env' = PutEnv(env, Items(Arg, ListCuts(Arg))) ELSE env' = env
OptEnds ==
  /\ boot' = "exited" /\ code' \in {0, 1, 5, 6, 10, 19} /\ env' = env
  /\ code' = 0 => Opt \in Informs
  /\ ~Accepted(cmdline[argi + 1]) \/ (Opt = "b" /\ Arg.is = "missing")
  /\ conf' = conf \/ conf' = [conf EXCEPT !["C"] = Arg]

LEMMA OptionStep ==
  ASSUME BootTyped, ReadOption
  PROVE  (\E options : Reads(options)) /\ (OptTaken \/ OptEnds)
  <1>0. /\ Flags = {"t", "T", "Y", "d", "m"} /\ Informs = {"k", "v", "h", "M"}
        /\ Values = {"p", "i", "u", "g", "S", "K"}
    BY DEF Flags, Informs, Values
  <1>1. Keys = {"t", "T", "Y", "d", "m", "p", "i", "u", "g", "S", "K", "b", "C", "a", "V", "c", "I"}
    BY <1>0 DEF Keys
  <1> DEFINE x == cmdline[argi + 1]
  <1>2. x[1] = Opt /\ x[2] = Arg
    BY DEF Opt, Arg
  <1>3. Accepted(x) <=> /\ Opt \notin Informs \cup {"unknown"}
                        /\ Opt = "b" => Arg.is \in {"dir", "missing"}
                        /\ Opt = "C" => Arg = "dir"
                        /\ Opt = "a" => Arg = "socket"
                        /\ Opt = "c" => CgiTaken(Arg)
                        /\ Opt = "I" => Len(Items(Arg, ListCuts(Arg))) < MAXINDEXCOUNT
    BY <1>2 DEF Accepted
  <1> HIDE DEF x
  <1>4. CASE OptInforms
    <2>1. Reads(Informs) /\ boot' = "exited" /\ code' = 0 /\ conf' = conf /\ env' = env /\ Opt \in Informs
      BY <1>4 DEF OptInforms, Exit, Reads
    <2> QED
      BY <1>3, <2>1 DEF OptEnds, x
  <1>5. CASE OptFlag
    <2>1. /\ Reads(Flags) /\ boot' = boot /\ boot = "options" /\ code' = code /\ env' = env /\ Opt \in Flags
          /\ conf' = [conf EXCEPT ![Opt] = TRUE]
      BY <1>5 DEF OptFlag, Continue, Reads, Set
    <2>2. Value(Opt, Arg) = TRUE /\ Opt # "V"
      BY <1>0, <2>1 DEF Value
    <2>3. Accepted(x) /\ Opt \in Keys
      BY <1>0, <1>1, <1>3, <2>1
    <2> QED
      BY <2>1, <2>2, <2>3 DEF OptTaken, x
  <1>6. CASE OptValue
    <2>1. /\ Reads(Values) /\ boot' = boot /\ boot = "options" /\ code' = code /\ env' = env /\ Opt \in Values
          /\ conf' = [conf EXCEPT ![Opt] = Arg]
      BY <1>6 DEF OptValue, Continue, Reads, Set
    <2>2. Value(Opt, Arg) = Arg /\ Opt # "V"
      BY <1>0, <2>1 DEF Value
    <2>3. Accepted(x) /\ Opt \in Keys
      BY <1>0, <1>1, <1>3, <2>1
    <2> QED
      BY <2>1, <2>2, <2>3 DEF OptTaken, x
  <1>7. CASE OptUnknown
    <2>1. Reads({"unknown"}) /\ boot' = "exited" /\ code' = 19 /\ conf' = conf /\ env' = env /\ Opt = "unknown"
      BY <1>7 DEF OptUnknown, Exit, Reads
    <2> QED
      BY <1>3, <2>1 DEF OptEnds, x
  <1>8. CASE OptBasedir
    <2>1. Reads({"b"}) /\ boot = "options" /\ env' = env /\ Opt = "b"
      BY <1>8 DEF OptBasedir, Reads
    <2>2. Value(Opt, Arg) = Arg.path
      BY <1>0, <2>1 DEF Value
    <2>3. CASE Arg.is \in {"dir", "missing"} /\ Set("b", Arg.path) /\ Continue
      <3>1. boot' = "options" /\ code' = code /\ conf' = [conf EXCEPT ![Opt] = Value(Opt, Arg)]
        BY <2>1, <2>2, <2>3 DEF Set, Continue
      <3>2. Accepted(x) /\ Opt \in Keys /\ Opt # "V"
        BY <1>0, <1>1, <1>3, <2>1, <2>3
      <3> QED
        BY <2>1, <3>1, <3>2 DEF OptTaken, x
    <2>4. CASE Arg.is # "dir" /\ Exit(1) /\ UNCHANGED conf
      <3>1. boot' = "exited" /\ code' = 1 /\ conf' = conf
        BY <2>4 DEF Exit
      <3>2. ~Accepted(x) \/ Arg.is = "missing"
        BY <1>3, <2>1, <2>4
      <3> QED
        BY <2>1, <3>1, <3>2 DEF OptEnds, x
    <2> QED
      BY <1>8, <2>3, <2>4 DEF OptBasedir
  <1>9. CASE OptCache
    <2>1. /\ Reads({"C"}) /\ boot = "options" /\ env' = env /\ Opt = "C" /\ conf' = [conf EXCEPT !["C"] = Arg]
          /\ IF Arg = "dir" THEN boot' = boot /\ code' = code ELSE boot' = "exited" /\ code' = 10
      BY <1>9 DEF OptCache, Reads, Set, Continue, Exit
    <2>2. Value(Opt, Arg) = Arg /\ Opt \in Keys /\ Opt # "V"
      BY <1>0, <1>1, <2>1 DEF Value
    <2>3. Accepted(x) <=> Arg = "dir"
      BY <1>0, <1>3, <2>1
    <2>4. CASE Arg = "dir"
      BY <2>1, <2>2, <2>3, <2>4 DEF OptTaken, x
    <2>5. CASE Arg # "dir"
      <3>1. ~Accepted(cmdline[argi + 1]) /\ boot' = "exited" /\ code' = 10
        BY <2>1, <2>3, <2>5 DEF x
      <3> QED
        BY <2>1, <3>1 DEF OptEnds
    <2> QED
      BY <2>1, <2>4, <2>5
  <1>10. CASE OptAuth
    <2>1. /\ Reads({"a"}) /\ boot = "options" /\ env' = env /\ Opt = "a"
          /\ IF Arg = "socket" THEN conf' = [conf EXCEPT !["a"] = Arg] /\ boot' = boot /\ code' = code
                               ELSE boot' = "exited" /\ code' = 5 /\ conf' = conf
      BY <1>10 DEF OptAuth, Reads, Set, Continue, Exit
    <2>2. Value(Opt, Arg) = Arg /\ Opt \in Keys /\ Opt # "V"
      BY <1>0, <1>1, <2>1 DEF Value
    <2>3. Accepted(x) <=> Arg = "socket"
      BY <1>0, <1>3, <2>1
    <2> QED
      BY <2>1, <2>2, <2>3 DEF OptTaken, OptEnds, x
  <1>11. CASE OptCgi
    <2> DEFINE items == Items(Arg, CgiCuts(Arg))
    <2> DEFINE bad == \/ Len(items) >= MAXINDEXCOUNT \/ Len(items) % 2 = 1
                      \/ \E k \in DOMAIN items : k % 2 = 1 /\ items[k] = <<>>
    <2>1. /\ Reads({"c"}) /\ boot = "options" /\ env' = env /\ Opt = "c"
          /\ IF Arg = <<>> THEN conf' = [conf EXCEPT !["c"] = <<>>] /\ boot' = boot /\ code' = code
             ELSE IF bad THEN boot' = "exited" /\ code' = 6 /\ conf' = conf
             ELSE conf' = [conf EXCEPT !["c"] = items] /\ boot' = boot /\ code' = code
      BY <1>11 DEF OptCgi, Reads, Set, Continue, Exit
    <2>2. Value(Opt, Arg) = CgiList(Arg) /\ Opt \in Keys /\ Opt # "V"
      BY <1>0, <1>1, <2>1 DEF Value
    <2>3. Accepted(x) <=> CgiTaken(Arg)
      BY <1>0, <1>3, <2>1
    <2>4. Arg # <<>> => Len(items) \in Nat
      <3>1. OptionType(x) /\ Arg \in Seq(0 .. 255)
        BY <2>1, <1>2, ReadsFacts DEF OptionType, x
      <3>2. CgiCuts(Arg) \subseteq 1 .. Len(Arg)
        BY <3>1, CgiCutsAre
      <3>3. items \in Seq(Seq(0 .. 255))
        BY <3>1, <3>2, ItemsAre
      <3> QED
        BY <3>3
    <2>5. CgiTaken(Arg) <=> Arg = <<>> \/ ~bad
      <3>1. CgiTaken(Arg) <=> Arg = <<>> \/ (/\ Len(items) < MAXINDEXCOUNT /\ Len(items) % 2 # 1
                                            /\ \A k \in DOMAIN items : k % 2 = 1 => items[k] # <<>>)
        BY DEF CgiTaken
      <3> HIDE DEF items
      <3> QED
        BY <2>4, <3>1, IndexCountPositive
    <2>6. CgiList(Arg) = IF Arg = <<>> THEN <<>> ELSE items
      BY DEF CgiList
    <2> HIDE DEF bad, items
    <2> QED
      BY <2>1, <2>2, <2>3, <2>5, <2>6 DEF OptTaken, OptEnds, x
  <1>12. CASE OptIndex
    <2> DEFINE items == Items(Arg, ListCuts(Arg))
    <2>1. /\ Reads({"I"}) /\ boot = "options" /\ env' = env /\ Opt = "I"
          /\ IF Len(items) >= MAXINDEXCOUNT THEN boot' = "exited" /\ code' = 6 /\ conf' = conf
             ELSE conf' = [conf EXCEPT !["I"] = items] /\ boot' = boot /\ code' = code
      BY <1>12 DEF OptIndex, Reads, Set, Continue, Exit
    <2>2. Value(Opt, Arg) = items /\ Opt \in Keys /\ Opt # "V"
      BY <1>0, <1>1, <2>1 DEF Value
    <2>3. Accepted(x) <=> Len(items) < MAXINDEXCOUNT
      BY <1>0, <1>3, <2>1
    <2>4. Len(items) \in Nat
      <3>1. OptionType(x) /\ Arg \in Seq(0 .. 255)
        BY <2>1, <1>2, ReadsFacts DEF OptionType, x
      <3>2. ListCuts(Arg) \subseteq 1 .. Len(Arg)
        BY <3>1, CgiCutsAre
      <3>3. items \in Seq(Seq(0 .. 255))
        BY <3>1, <3>2, ItemsAre
      <3> QED
        BY <3>3
    <2> HIDE DEF items
    <2>5. Accepted(x) <=> ~(Len(items) >= MAXINDEXCOUNT)
      BY <2>3, <2>4, IndexCountPositive
    <2> QED
      BY <2>1, <2>2, <2>5 DEF OptTaken, OptEnds, x
  <1>13. CASE OptVirtual
    <2>1. /\ Reads({"V"}) /\ boot' = boot /\ boot = "options" /\ code' = code /\ Opt = "V"
          /\ conf' = [conf EXCEPT !["V"] = TRUE] /\ env' = PutEnv(env, Items(Arg, ListCuts(Arg)))
      BY <1>13 DEF OptVirtual, Continue, Reads, Set
    <2>2. Value(Opt, Arg) = TRUE
      BY <1>0, <2>1 DEF Value
    <2>3. Accepted(x) /\ Opt \in Keys
      BY <1>0, <1>1, <1>3, <2>1
    <2> QED
      BY <2>1, <2>2, <2>3 DEF OptTaken, x
  <1> QED
    BY <1>4, <1>5, <1>6, <1>7, <1>8, <1>9, <1>10, <1>11, <1>12, <1>13 DEF ReadOption

LEMMA KeyTyped ==
  ASSUME NEW text \in Texted
  PROVE  /\ Key(text) \in Texted
         /\ Splits(text) # {} => /\ SubSeq(text, SplitAt(text) + 1, Len(text)) \in Texted
                                 /\ SplitAt(text) \in Splits(text) /\ \A j \in Splits(text) : SplitAt(text) <= j
  <1>1. Len(text) \in Nat /\ DOMAIN text = 1 .. Len(text) /\ Splits(text) \subseteq 1 .. Len(text)
    BY DEF Splits, Texted
  <1>2. CASE Splits(text) = {}
    BY <1>2 DEF Key
  <1>3. CASE Splits(text) # {}
    <2>1. SplitAt(text) \in Splits(text) /\ \A j \in Splits(text) : SplitAt(text) <= j
      <3>1. Splits(text) \subseteq Nat
        BY <1>1
      <3> QED
        BY <1>3, <3>1, LeastExists DEF SplitAt
    <2>2. SplitAt(text) \in 1 .. Len(text)
      BY <1>1, <2>1
    <2> DEFINE a == SplitAt(text)
    <2> HIDE DEF a
    <2>3. SubSeq(text, a + 1, Len(text)) \in Seq(Bytes) /\ SubSeq(text, 1, a - 1) \in Seq(Bytes)
      <3>1. a \in 1 .. Len(text)
        BY <2>2 DEF a
      <3>2. a + 1 \in 1 .. Len(text) + 1 /\ Len(text) \in 0 .. Len(text) /\ 1 \in 1 .. Len(text) + 1
            /\ a - 1 \in 0 .. Len(text)
        BY <1>1, <3>1
      <3> QED
        BY <1>1, <3>2, SubSeqProperties DEF Texted
    <2> QED
      BY <1>3, <2>1, <2>3 DEF Key, Texted, a
  <1> QED
    BY <1>2, <1>3

LEMMA PutEnvTyped ==
  ASSUME NEW e, e \subseteq Texted \X Texted, NEW items \in Seq(Texted)
  PROVE  PutEnv(e, items) \subseteq Texted \X Texted
  <1>1. ASSUME NEW k \in DOMAIN items
        PROVE  /\ Key(items[k]) \in Texted
               /\ Splits(items[k]) # {} => SubSeq(items[k], SplitAt(items[k]) + 1, Len(items[k])) \in Texted
    <2>1. items[k] \in Texted
      OBVIOUS
    <2> QED
      BY <2>1, KeyTyped
  <1> DEFINE last == {j \in DOMAIN items : /\ Splits(items[j]) # {}
                                           /\ \A l \in DOMAIN items : l > j => Key(items[l]) # Key(items[j])}
  <1>2. \A k \in last : <<Key(items[k]), SubSeq(items[k], SplitAt(items[k]) + 1, Len(items[k]))>> \in Texted \X Texted
    BY <1>1
  <1>3. {p \in e : \A k \in DOMAIN items : p[1] # Key(items[k])} \subseteq Texted \X Texted
    OBVIOUS
  <1>4. PutEnv(e, items) = {p \in e : \A k \in DOMAIN items : p[1] # Key(items[k])}
                           \cup {<<Key(items[k]), SubSeq(items[k], SplitAt(items[k]) + 1, Len(items[k]))>> : k \in last}
    BY DEF PutEnv
  <1> HIDE DEF last
  <1> QED
    BY <1>2, <1>3, <1>4

LEMMA ValueTyped ==
  ASSUME BootTyped, NEW o \in Keys, NEW k \in DOMAIN cmdline, cmdline[k][1] = o
  PROVE  LET v == Value(o, cmdline[k][2])
         IN  /\ o = "b" => v \in Texted
             /\ o = "c" => v \in Seq(Texted)
             /\ o = "I" => v \in Seq(Texted)
             /\ o \in {"p", "u", "g"} => v \in Nat
  <1>1. OptionType(cmdline[k])
    BY DEF BootTyped, CommandLine
  <1> DEFINE arg == cmdline[k][2]
  <1>2. /\ o \in {"c", "I", "V"} => arg \in Texted
        /\ o = "b" => arg.path \in Texted
        /\ o \in {"p", "u", "g"} => arg \in Nat
    BY <1>1 DEF OptionType, Texted, Bytes
  <1>3. Flags = {"t", "T", "Y", "d", "m"}
    BY DEF Flags
  <1> HIDE DEF arg
  <1>4. CASE o = "b"
    BY <1>2, <1>3, <1>4 DEF Value, arg
  <1>5. CASE o = "c"
    BY <1>2, <1>3, <1>5, ListItems DEF Value, arg
  <1>6. CASE o = "I"
    BY <1>2, <1>3, <1>6, ListItems DEF Value, arg
  <1>7. CASE o \in {"p", "u", "g"}
    BY <1>2, <1>3, <1>7 DEF Value, arg
  <1> QED
    BY <1>4, <1>5, <1>6, <1>7

LEMMA BootTypedInit ==
  ASSUME NEW argv, NEW w, CommandLine(argv), WorldType(w), BootInit(argv, w)
  PROVE  BootTyped /\ Configured
  <1>1. /\ cmdline = argv /\ world = w /\ boot = "options" /\ argi = 0 /\ conf = DefaultConf /\ env = w.env
        /\ cred = [uid |-> w.uid, gid |-> w.gid] /\ bound = 0 /\ code = 0
    BY DEF BootInit
  <1>2. w.uid \in Nat /\ w.gid \in Nat /\ \A p \in w.env : p \in Seq(0 .. 255) \X Seq(0 .. 255)
    BY DEF WorldType
  <1>3. argi \in 0 .. Len(cmdline) /\ DOMAIN cmdline = 1 .. Len(cmdline)
    BY <1>1 DEF CommandLine
  <1>4. bound \in 0 .. MAXPORT
    BY <1>1, PortsOrdered
  <1>5. BootTypeOK
    BY <1>1, <1>2, <1>3, <1>4 DEF BootTypeOK
  <1>6. ConfTyped
    BY <1>1, DefaultsAre, DefaultsMatch, Zenon DEF ConfTyped
  <1>7. \A o : ReadTo(o) = {}
    BY <1>1, <1>3 DEF ReadTo, Uses
  <1>8. env \subseteq Texted \X Texted
    BY <1>1, <1>2 DEF Texted, Bytes
  <1> QED
    BY <1>1, <1>5, <1>6, <1>7, <1>8 DEF BootTyped, Configured, ConfOf

LEMMA LatestIs ==
  ASSUME NEW n \in Nat, NEW T, T \subseteq 0 .. n, T # {}
  PROVE  Latest(T) \in T /\ \A j \in T : j <= Latest(T)
  <1> DEFINE U == {x \in 0 .. n : n - x \in T}
  <1>1. U \subseteq Nat /\ U # {}
    <2>1. PICK j \in T : TRUE
      OBVIOUS
    <2>2. n - j \in 0 .. n /\ n - (n - j) = j
      BY <2>1
    <2> QED
      BY <2>1, <2>2
  <1>2. PICK x \in U : \A y \in U : x <= y
    <2> HIDE DEF U
    <2> QED
      BY <1>1, LeastExists
  <1> DEFINE t == n - x
  <1>3. t \in T /\ \A j \in T : j <= t
    <2>1. t \in T
      BY <1>2
    <2>2. ASSUME NEW j \in T PROVE j <= t
      <3>1. j \in 0 .. n /\ n - j \in 0 .. n /\ n - (n - j) = j
        OBVIOUS
      <3>2. x <= n - j
        BY <1>2, <3>1
      <3> QED
        BY <1>2, <3>1, <3>2
    <2> QED
      BY <2>1, <2>2
  <1> HIDE DEF t
  <1> QED
    BY <1>3 DEF Latest

(* While the server has not ended, all options read were taken, and the    *)
(* configuration is what the last one of each kind says.                   *)
Taken == boot # "exited" => Configured /\ \A k \in 1 .. argi : Accepted(cmdline[k])

LEMMA OptionInv ==
  ASSUME BootTyped, Taken, ReadOption
  PROVE  BootTyped' /\ Taken'
  <1>1. PICK options : Reads(options)
    BY OptionStep
  <1>2. OptTaken \/ OptEnds
    BY OptionStep
  <1>3. /\ cmdline' = cmdline /\ world' = world /\ cred' = cred /\ bound' = bound
        /\ boot = "options" /\ argi' = argi + 1 /\ argi + 1 \in 1 .. Len(cmdline) /\ argi \in Nat
        /\ Opt = cmdline[argi + 1][1] /\ Arg = cmdline[argi + 1][2]
        /\ \A o : o # Opt => ReadTo(o)' = ReadTo(o)
        /\ \A o : o = Opt => ReadTo(o)' # {} /\ Latest(ReadTo(o)') = argi + 1
    BY <1>1, ReadsFacts
  <1>4. Configured /\ \A k \in 1 .. argi : Accepted(cmdline[k])
    BY <1>3 DEF Taken
  <1>5. /\ BootTypeOK /\ CommandLine(cmdline) /\ ConfTyped /\ env \subseteq Texted \X Texted
        /\ Len(cmdline) \in Nat /\ DOMAIN cmdline = 1 .. Len(cmdline)
    BY DEF BootTyped, CommandLine
  <1>6. DOMAIN conf = Keys
    BY <1>5 DEF ConfTyped
  <1>7. argi' \in 0 .. Len(cmdline') /\ CommandLine(cmdline')
    BY <1>3, <1>5
  <1>8. CASE OptEnds
    <2>1. boot' = "exited" /\ code' \in {0, 1, 5, 6, 10, 19} /\ env' = env
          /\ (conf' = conf \/ conf' = [conf EXCEPT !["C"] = Arg])
      BY <1>8, Zenon DEF OptEnds
    <2>2. ConfTyped'
      <3>1. DOMAIN conf' = Keys /\ \A o \in Keys : o # "C" => conf'[o] = conf[o]
        BY <1>6, <2>1
      <3>2. {"b", "c", "I", "p", "u", "g"} \subseteq Keys
        BY DEF Keys, Values
      <3> QED
        BY <1>5, <3>1, <3>2 DEF ConfTyped
    <2>3. BootTypeOK'
      <3>1. WorldType(world)' /\ boot' \in {"exited"} /\ code' \in {0, 1, 2, 3, 4, 5, 6, NOMEM, 9, 10, 19}
        BY <1>3, <1>5, <2>1 DEF BootTypeOK, WorldType
      <3> QED
        BY <1>3, <1>5, <1>7, <3>1 DEF BootTypeOK
    <2> QED
      BY <1>5, <1>7, <2>1, <2>2, <2>3 DEF BootTyped, Taken
  <1>9. CASE OptTaken
    <2>1. /\ boot' = "options" /\ code' = code /\ Accepted(cmdline[argi + 1]) /\ Opt \in Keys
          /\ conf' = [conf EXCEPT ![Opt] = Value(Opt, Arg)]
          /\ IF Opt = "V" THEN env' = PutEnv(env, Items(Arg, ListCuts(Arg))) ELSE env' = env
      BY <1>9 DEF OptTaken
    <2>2. DOMAIN conf' = Keys /\ conf'[Opt] = Value(Opt, Arg) /\ \A o \in Keys : o # Opt => conf'[o] = conf[o]
      BY <1>6, <2>1
    <2>3. ConfTyped'
      <3>1. {"b", "c", "I", "p", "u", "g"} \subseteq Keys
        BY DEF Keys, Values
      <3>2. /\ Opt = "b" => Value(Opt, Arg) \in Texted
            /\ Opt = "c" => Value(Opt, Arg) \in Seq(Texted)
            /\ Opt = "I" => Value(Opt, Arg) \in Seq(Texted)
            /\ Opt \in {"p", "u", "g"} => Value(Opt, Arg) \in Nat
        BY <1>3, <1>5, <2>1, ValueTyped
      <3> QED
        BY <1>5, <2>2, <3>1, <3>2 DEF ConfTyped
    <2>4. BootTypeOK'
      BY <1>3, <1>5, <1>7, <2>1 DEF BootTypeOK
    <2>5. env' \subseteq Texted \X Texted
      <3>1. CASE Opt = "V"
        <4>1. OptionType(cmdline[argi + 1])
          BY <1>1, ReadsFacts
        <4>2. Arg \in Texted
          BY <1>3, <3>1, <4>1 DEF OptionType, Texted, Bytes
        <4> QED
          BY <1>5, <2>1, <3>1, <4>2, ListItems, PutEnvTyped
      <3>2. CASE Opt # "V"
        BY <1>5, <2>1, <3>2
      <3> QED
        BY <3>1, <3>2
    <2>6. Configured'
      <3> SUFFICES ASSUME NEW o \in Keys PROVE conf'[o] = ConfOf(o)'
        BY DEF Configured
      <3>1. CASE o = Opt
        <4>1. ReadTo(o)' # {} /\ Latest(ReadTo(o)') = argi + 1
          BY <1>3, <3>1
        <4>2. ConfOf(o)' = Value(o, cmdline[argi + 1][2])
          BY <1>3, <4>1 DEF ConfOf, Value
        <4> QED
          BY <1>3, <2>2, <3>1, <4>2
      <3>2. CASE o # Opt
        <4>1. ReadTo(o)' = ReadTo(o)
          BY <1>3, <3>2
        <4>2. ConfOf(o)' = ConfOf(o)
          BY <1>3, <4>1 DEF ConfOf, Value
        <4> QED
          BY <1>4, <2>2, <3>2, <4>2 DEF Configured
      <3> QED
        BY <3>1, <3>2
    <2>7. \A k \in 1 .. argi' : Accepted(cmdline'[k])
      <3> SUFFICES ASSUME NEW k \in 1 .. argi + 1 PROVE Accepted(cmdline[k])
        BY <1>3
      <3>1. k = argi + 1 \/ k \in 1 .. argi
        BY <1>3
      <3> QED
        BY <1>4, <2>1, <3>1
    <2> QED
      BY <1>7, <2>3, <2>4, <2>5, <2>6, <2>7 DEF BootTyped, Taken
  <1> QED
    BY <1>2, <1>8, <1>9

(* For lists without empty items, what the loops accept is what was meant. *)
LEMMA ListsAgree ==
  ASSUME NEW list \in Seq(0 .. 255), list = <<>> \/ NoEmpty(list)
  PROVE  /\ CgiTaken(list) <=> CgiGood(list)
         /\ Len(Items(list, ListCuts(list))) = Commas(list) + 1 /\ Commas(list) \in Nat
  <1>1. CASE list = <<>>
    <2>1. Len(list) = 0 /\ CgiTaken(list) /\ CgiGood(list)
      BY <1>1 DEF CgiTaken, CgiGood
    <2>2. ListCuts(list) \subseteq 1 .. Len(list)
      BY CgiCutsAre
    <2>3. ListCuts(list) = {} /\ {i \in DOMAIN list : list[i] = COMMA} = {}
      BY <1>1, <2>1, <2>2
    <2>4. Cardinality(ListCuts(list)) = 0 /\ Commas(list) = 0
      BY <2>3, FS_EmptySet DEF Commas
    <2>5. Len(Items(list, ListCuts(list))) = Cardinality(ListCuts(list)) + 1
      BY <2>2, ItemsAre
    <2> QED
      BY <2>1, <2>4, <2>5
  <1>2. CASE NoEmpty(list)
    <2> DEFINE items == Items(list, CommasOf(list))
    <2>1. CgiCuts(list) = CommasOf(list) /\ ListCuts(list) = CommasOf(list) /\ list # <<>>
      BY <1>2, CgiCutsAre, ListCutsAre DEF NoEmpty
    <2>2. Len(items) = Commas(list) + 1 /\ Commas(list) \in Nat /\ \A k \in DOMAIN items : items[k] # <<>>
      BY <1>2, GoodItems
    <2>3. CgiTaken(list) <=> /\ Len(items) < MAXINDEXCOUNT /\ Len(items) % 2 # 1
                             /\ \A k \in DOMAIN items : k % 2 = 1 => items[k] # <<>>
      BY <2>1 DEF CgiTaken
    <2>4. CgiGood(list) <=> Commas(list) % 2 = 1 /\ Commas(list) + 1 < MAXINDEXCOUNT
      BY <1>2, <2>1 DEF CgiGood
    <2> HIDE DEF items
    <2>5. CgiTaken(list) <=> CgiGood(list)
      <3> DEFINE c == Commas(list)
      <3>1. c \in Nat
        BY <2>2
      <3> HIDE DEF c
      <3>2. (c + 1) % 2 # 1 <=> c % 2 = 1
        BY <3>1
      <3> QED
        BY <2>2, <2>3, <2>4, <3>2 DEF c
    <2> QED
      BY <2>1, <2>2, <2>5 DEF items
  <1> QED
    BY <1>1, <1>2

LEMMA OptionsAgree ==
  ASSUME BootTyped, ~Undefined
  PROVE  LET good == /\ ~\E o \in Informs \cup {"unknown"} : Given(o)
                     /\ \A k \in Uses("b") : cmdline[k][2].is = "dir"
                     /\ AllArgs("C", {"dir"}) /\ AllArgs("a", {"socket"})
                     /\ \A k \in Uses("c") : CgiGood(cmdline[k][2])
                     /\ \A k \in Uses("I") : Commas(cmdline[k][2]) + 1 < MAXINDEXCOUNT
         IN  /\ good <=> \A k \in 1 .. Len(cmdline) : Accepted(cmdline[k])
             /\ \A k \in Uses("b") : cmdline[k][2].is # "missing"
  <1>1. /\ Len(cmdline) \in Nat /\ DOMAIN cmdline = 1 .. Len(cmdline)
        /\ \A k \in 1 .. Len(cmdline) : OptionType(cmdline[k])
    BY DEF BootTyped, CommandLine
  <1>2. /\ \A k \in Uses("b") : cmdline[k][2].is # "missing"
        /\ \A k \in Uses("c") \cup Uses("I") : cmdline[k][2] = <<>> \/ NoEmpty(cmdline[k][2])
    BY DEF Undefined
  <1>3. \A o, k : k \in Uses(o) <=> k \in 1 .. Len(cmdline) /\ cmdline[k][1] = o
    BY <1>1 DEF Uses
  <1>4. ASSUME NEW k \in Uses("c") \cup Uses("I")
        PROVE  /\ CgiTaken(cmdline[k][2]) <=> CgiGood(cmdline[k][2])
               /\ Len(Items(cmdline[k][2], ListCuts(cmdline[k][2]))) = Commas(cmdline[k][2]) + 1
    <2>1. k \in 1 .. Len(cmdline) /\ cmdline[k][1] \in {"c", "I"}
      BY <1>3
    <2>2. cmdline[k][2] \in Seq(0 .. 255)
      BY <1>1, <2>1 DEF OptionType
    <2> QED
      BY <1>2, <2>2, ListsAgree
  <1>5. (~\E o \in Informs \cup {"unknown"} : Given(o))
          <=> \A k \in 1 .. Len(cmdline) : cmdline[k][1] \notin Informs \cup {"unknown"}
    <2>1. ASSUME NEW k \in 1 .. Len(cmdline), cmdline[k][1] \in Informs \cup {"unknown"}
          PROVE  \E o \in Informs \cup {"unknown"} : Given(o)
      <3>1. k \in Uses(cmdline[k][1])
        BY <1>3
      <3> QED
        BY <2>1, <3>1 DEF Given
    <2>2. ASSUME NEW o \in Informs \cup {"unknown"}, Given(o)
          PROVE  \E k \in 1 .. Len(cmdline) : cmdline[k][1] \in Informs \cup {"unknown"}
      <3>1. PICK k : k \in Uses(o)
        BY <2>2 DEF Given
      <3> QED
        BY <1>3, <3>1
    <2> QED
      BY <2>1, <2>2
  <1>6. AllArgs("C", {"dir"}) <=> \A k \in 1 .. Len(cmdline) : cmdline[k][1] = "C" => cmdline[k][2] = "dir"
    BY <1>3 DEF AllArgs
  <1>7. AllArgs("a", {"socket"}) <=> \A k \in 1 .. Len(cmdline) : cmdline[k][1] = "a" => cmdline[k][2] = "socket"
    BY <1>3 DEF AllArgs
  <1>8. (\A k \in Uses("b") : cmdline[k][2].is = "dir")
          <=> \A k \in 1 .. Len(cmdline) : cmdline[k][1] = "b" => cmdline[k][2].is \in {"dir", "missing"}
    BY <1>2, <1>3
  <1>9. (\A k \in Uses("c") : CgiGood(cmdline[k][2]))
          <=> \A k \in 1 .. Len(cmdline) : cmdline[k][1] = "c" => CgiTaken(cmdline[k][2])
    BY <1>3, <1>4
  <1>10. (\A k \in Uses("I") : Commas(cmdline[k][2]) + 1 < MAXINDEXCOUNT)
          <=> \A k \in 1 .. Len(cmdline) : cmdline[k][1] = "I" =>
                Len(Items(cmdline[k][2], ListCuts(cmdline[k][2]))) < MAXINDEXCOUNT
    BY <1>3, <1>4
  <1> QED
    BY <1>2, <1>5, <1>6, <1>7, <1>8, <1>9, <1>10 DEF Accepted

LEMMA FinalConf ==
  ASSUME BootTyped, Configured, argi = Len(cmdline)
  PROVE  /\ \A o \in Keys : conf[o] = IF Given(o) THEN Value(o, cmdline[Latest(Uses(o))][2]) ELSE DefaultConf[o]
         /\ \A o \in Flags : conf[o] = Given(o)
         /\ conf["p"] = Final("p", PORT) /\ conf["i"] = Final("i", Unset)
         /\ conf["u"] = Final("u", 0) /\ conf["g"] = Final("g", 0)
         /\ \A o \in {"S", "K"} : conf[o] = Final(o, Unset) /\ (conf[o] # Unset <=> Given(o))
  <1>1. Len(cmdline) \in Nat /\ DOMAIN cmdline = 1 .. Len(cmdline)
        /\ \A k \in 1 .. Len(cmdline) : OptionType(cmdline[k])
    BY DEF BootTyped, CommandLine
  <1>2. \A o : ReadTo(o) = Uses(o)
    BY <1>1 DEF ReadTo, Uses
  <1>3. \A o \in Keys : conf[o] = IF Given(o) THEN Value(o, cmdline[Latest(Uses(o))][2]) ELSE DefaultConf[o]
    BY <1>2 DEF Configured, ConfOf, Given
  <1>4. /\ Flags = {"t", "T", "Y", "d", "m"} /\ Flags \subseteq Keys
        /\ {"p", "i", "u", "g", "S", "K"} \subseteq Keys
    BY DEF Flags, Keys, Values
  <1>5. \A o \in Flags : conf[o] = Given(o)
    BY <1>3, <1>4, DefaultsAre DEF Value, Given
  <1>6. \A o \in {"p", "i", "u", "g", "S", "K"} : \A v : Value(o, v) = v
    BY <1>4 DEF Value
  <1>7. \A o \in {"p", "i", "u", "g", "S", "K"} : conf[o] = Final(o, DefaultConf[o])
    BY <1>3, <1>4, <1>6 DEF Final
  <1>8. /\ conf["p"] = Final("p", PORT) /\ conf["i"] = Final("i", Unset)
        /\ conf["u"] = Final("u", 0) /\ conf["g"] = Final("g", 0)
        /\ \A o \in {"S", "K"} : conf[o] = Final(o, Unset)
    BY <1>7, DefaultsAre
  <1>9. ASSUME NEW o \in {"S", "K"} PROVE conf[o] # Unset <=> Given(o)
    <2>1. CASE Given(o)
      <3>1. Uses(o) \subseteq 0 .. Len(cmdline) /\ Uses(o) # {}
        BY <1>1, <2>1 DEF Uses, Given
      <3>2. Latest(Uses(o)) \in Uses(o)
        BY <1>1, <3>1, LatestIs
      <3>3. cmdline[Latest(Uses(o))][2] # Unset
        BY <1>1, <3>2 DEF Uses, OptionType
      <3> QED
        BY <1>8, <2>1, <3>3 DEF Final
    <2>2. CASE ~Given(o)
      BY <1>8, <2>2 DEF Final
    <2> QED
      BY <2>1, <2>2
  <1> QED
    BY <1>3, <1>5, <1>8, <1>9

(* What the later steps of main ask of the configuration and of the world. *)
CertsGood == (conf.S # Unset \/ conf.K # Unset) => ~conf.t /\ conf.S = "good" /\ conf.K = "good"
PortGood ==
  /\ Port >= 1 /\ Port <= MAXPORT /\ conf.i # "bad" /\ world.socket /\ Port \notin world.busy
  /\ Port < PRIVPORT => world.uid = 0
GroupGood == conf.g = 0 \/ world.uid = 0 \/ conf.g = world.gid
UserGood == conf.u = 0 \/ world.uid \in {0, conf.u}
GroupSet == cred.gid = IF conf.g = 0 THEN world.gid ELSE conf.g
UserSet == cred.uid = IF conf.u = 0 THEN world.uid ELSE conf.u
ExitRight ==
  ~Undefined =>
    /\ MayServe => Given("d") /\ ~world.fork
    /\ code = 0 => (\E o \in Informs : Given(o)) \/ (Given("d") /\ ~world.fork)

(* How far main has come, and what is sure by then.                        *)
Stage ==
  /\ boot \in {"options", "net", "gid", "uid"} => cred.uid = world.uid
  /\ boot \in {"options", "net", "gid"} => cred.gid = world.gid
  /\ boot \notin {"options", "exited"} =>
       argi = Len(cmdline) /\ CertsGood /\ (boot = "inetd" <=> conf.T)
  /\ boot \in {"gid", "uid", "daemon", "queue", "serving"} => bound = Port /\ PortGood
  /\ boot \in {"uid", "daemon", "queue", "serving"} => GroupGood /\ GroupSet
  /\ boot \in {"daemon", "queue", "serving"} => UserGood /\ UserSet
  /\ boot = "serving" => world.memory
  /\ boot = "exited" => ExitRight
Booted == BootTyped /\ Taken /\ Stage

(* In terms of the configuration, what the user may expect.                *)
LEMMA Expected ==
  ASSUME BootTyped, Configured, argi = Len(cmdline), ~Undefined
  PROVE  /\ OptionsGood <=> (\A k \in 1 .. argi : Accepted(cmdline[k])) /\ CertsGood
         /\ NetworkGood <=> PortGood
         /\ OwnersGood <=> GroupGood /\ UserGood
         /\ Given("T") <=> conf.T
         /\ Given("d") <=> conf.d
         /\ Port = Final("p", PORT)
  <1>1. /\ \A o \in Flags : conf[o] = Given(o)
        /\ conf["p"] = Final("p", PORT) /\ conf["i"] = Final("i", Unset)
        /\ conf["u"] = Final("u", 0) /\ conf["g"] = Final("g", 0)
        /\ conf["S"] = Final("S", Unset) /\ (conf["S"] # Unset <=> Given("S"))
        /\ conf["K"] = Final("K", Unset) /\ (conf["K"] # Unset <=> Given("K"))
    BY FinalConf
  <1>2. Given("T") = conf["T"] /\ Given("d") = conf["d"] /\ Given("t") = conf["t"]
    BY <1>1 DEF Flags
  <1>3. conf["p"] \in Nat /\ conf["p"] < UINT
    BY <1>1, PortsOrdered DEF Undefined, BootTyped, ConfTyped
  <1>4. Port = conf["p"]
    BY <1>3, PortsOrdered DEF Port
  <1>5. OptionsGood <=> (\A k \in 1 .. argi : Accepted(cmdline[k])) /\ CertsGood
    BY <1>1, <1>2, OptionsAgree DEF OptionsGood, CertsGood
  <1>6. NetworkGood <=> PortGood
    BY <1>1, <1>3, <1>4, PortsOrdered DEF NetworkGood, PortGood
  <1>7. OwnersGood <=> GroupGood /\ UserGood
    BY <1>1 DEF OwnersGood, GroupGood, UserGood
  <1> QED
    BY <1>1, <1>2, <1>4, <1>5, <1>6, <1>7

(* What the user may expect does not change.                               *)
LEMMA MeantKept ==
  ASSUME cmdline' = cmdline, world' = world
  PROVE  /\ Undefined' = Undefined /\ MayServe' = MayServe
         /\ \A o : Given(o)' = Given(o)
         /\ \A o, d : Final(o, d)' = Final(o, d)
  <1>1. \A o : Uses(o)' = Uses(o)
    BY DEF Uses
  <1>2. \A o : Given(o)' = Given(o)
    BY <1>1 DEF Given
  <1>3. \A o, d : Final(o, d)' = Final(o, d)
    BY <1>1, <1>2 DEF Final
  <1>4. Undefined' = Undefined
    BY <1>1, <1>3 DEF Undefined
  <1>5. \A o, set : AllArgs(o, set)' = AllArgs(o, set)
    BY <1>1 DEF AllArgs
  <1>6. OptionsGood' = OptionsGood
    BY <1>1, <1>2, <1>3, <1>5 DEF OptionsGood
  <1>7. NetworkGood' = NetworkGood /\ OwnersGood' = OwnersGood
    BY <1>3 DEF NetworkGood, OwnersGood
  <1> QED
    BY <1>2, <1>3, <1>4, <1>6, <1>7 DEF MayServe

(* Reading an option keeps Stage.                                          *)
LEMMA OptionStage ==
  ASSUME Booted, ReadOption
  PROVE  Booted'
  <1>1. BootTyped' /\ Taken'
    BY OptionInv DEF Booted
  <1>2. PICK options : Reads(options)
    BY OptionStep DEF Booted
  <1>3. OptTaken \/ OptEnds
    BY OptionStep DEF Booted
  <1>4. /\ cmdline' = cmdline /\ world' = world /\ cred' = cred /\ boot = "options"
        /\ argi + 1 \in 1 .. Len(cmdline) /\ Opt = cmdline[argi + 1][1] /\ Arg = cmdline[argi + 1][2]
    BY <1>2, ReadsFacts DEF Booted
  <1>5. CASE OptTaken
    BY <1>1, <1>4, <1>5 DEF Booted, Stage, OptTaken
  <1>6. CASE OptEnds
    <2>1. boot' = "exited" /\ (code' = 0 => Opt \in Informs)
          /\ (~Accepted(cmdline[argi + 1]) \/ (Opt = "b" /\ Arg.is = "missing"))
      BY <1>6 DEF OptEnds
    <2>2. /\ Undefined' = Undefined /\ MayServe' = MayServe /\ \A o : Given(o)' = Given(o)
      BY <1>4, MeantKept
    <2>3. DOMAIN cmdline = 1 .. Len(cmdline)
      BY DEF Booted, BootTyped, CommandLine
    <2>4. argi + 1 \in Uses(Opt)
      BY <1>4, <2>3 DEF Uses
    <2>5. ~Undefined => ~MayServe
      <3> SUFFICES ASSUME ~Undefined PROVE ~OptionsGood
        BY DEF MayServe
      <3>1. OptionsGood => \A k \in 1 .. Len(cmdline) : Accepted(cmdline[k])
        BY OptionsAgree DEF OptionsGood, Booted
      <3>2. Opt = "b" => Arg.is # "missing"
        BY <1>4, <2>4 DEF Undefined
      <3> QED
        BY <1>4, <2>1, <3>1, <3>2
    <2>6. code' = 0 => \E o \in Informs : Given(o)
      BY <2>1, <2>4 DEF Given
    <2>7. ExitRight'
      BY <2>2, <2>5, <2>6 DEF ExitRight
    <2> QED
      BY <1>1, <2>1, <2>7 DEF Booted, Stage
  <1> QED
    BY <1>3, <1>5, <1>6

(* The later steps leave the configuration alone.                          *)
LEMMA LaterKeeps ==
  ASSUME Booted, boot # "exited",
         /\ cmdline' = cmdline /\ world' = world /\ argi' = argi /\ conf' = conf /\ env' = env,
         /\ boot' \in {"net", "gid", "uid", "daemon", "queue", "serving", "inetd", "exited"}
         /\ code' \in {code, 0, 2, 3, 4, NOMEM, 9, 19} /\ bound' \in 0 .. MAXPORT
         /\ cred' \in [uid : Nat, gid : Nat]
  PROVE  /\ BootTyped' /\ Taken'
         /\ CertsGood' = CertsGood /\ Port' = Port /\ PortGood' = PortGood
         /\ GroupGood' = GroupGood /\ UserGood' = UserGood
  <1>1. BootTypeOK'
    BY DEF Booted, BootTyped, BootTypeOK, WorldType
  <1>2. CommandLine(cmdline)' /\ ConfTyped' /\ env' \subseteq Texted \X Texted
    BY DEF Booted, BootTyped, ConfTyped, CommandLine
  <1>3. \A o : ReadTo(o)' = ReadTo(o)
    BY DEF ReadTo, Uses
  <1>4. Configured' /\ \A k \in 1 .. argi' : Accepted(cmdline'[k])
    BY <1>3 DEF Booted, Taken, Configured, ConfOf
  <1>5. Port' = Port
    BY DEF Port
  <1> QED
    BY <1>1, <1>2, <1>4, <1>5 DEF BootTyped, Taken, CertsGood, PortGood, GroupGood, UserGood

(* Leaving main: it is right as long as what was asked cannot be done.     *)
LEMMA LeavesRight ==
  ASSUME Booted, boot # "exited", cmdline' = cmdline, world' = world, argi = Len(cmdline),
         ~Undefined => ~MayServe \/ (Given("d") /\ ~world.fork),
         code' = 0 => Given("d") /\ ~world.fork
  PROVE  ExitRight'
  <1>1. /\ Undefined' = Undefined /\ MayServe' = MayServe /\ \A o : Given(o)' = Given(o)
    BY MeantKept
  <1> QED
    BY <1>1 DEF ExitRight

LEMMA OptionsDoneStage ==
  ASSUME Booted, OptionsDone
  PROVE  Booted'
  <1>1. /\ cmdline' = cmdline /\ world' = world /\ argi' = argi /\ conf' = conf /\ env' = env
        /\ cred' = cred /\ bound' = bound /\ boot = "options" /\ argi = Len(cmdline)
    BY DEF OptionsDone
  <1>2. \/ boot' = "exited" /\ code' = 19 /\ ~CertsGood
        \/ boot' = (IF conf.T THEN "inetd" ELSE "net") /\ code' = code /\ CertsGood
    BY DEF OptionsDone, Exit, CertsGood
  <1>3. /\ BootTyped' /\ Taken' /\ CertsGood' = CertsGood
    <2>1. cred \in [uid : Nat, gid : Nat] /\ bound \in 0 .. MAXPORT
      BY DEF Booted, BootTyped, BootTypeOK
    <2> QED
      BY <1>1, <1>2, <2>1, LaterKeeps
  <1>4. Configured
    BY <1>1 DEF Booted, Taken
  <1>5. CASE boot' = "exited" /\ code' = 19 /\ ~CertsGood
    <2>1. ~Undefined => ~MayServe
      BY <1>1, <1>4, <1>5, Expected DEF Booted, MayServe
    <2>2. ExitRight'
      BY <1>1, <1>5, <2>1, LeavesRight
    <2> QED
      BY <1>3, <1>5, <2>2 DEF Booted, Stage
  <1>6. CASE boot' = (IF conf.T THEN "inetd" ELSE "net") /\ code' = code /\ CertsGood
    <2>1. boot' \in {"net", "inetd"} /\ (boot' = "inetd" <=> conf'.T)
      BY <1>1, <1>6
    <2> QED
      BY <1>1, <1>3, <1>6, <2>1 DEF Booted, Stage
  <1> QED
    BY <1>2, <1>5, <1>6

LEMMA BindStage ==
  ASSUME Booted, BindAndListen
  PROVE  Booted'
  <1>1. /\ cmdline' = cmdline /\ world' = world /\ argi' = argi /\ conf' = conf /\ env' = env
        /\ cred' = cred /\ boot = "net"
    BY DEF BindAndListen
  <1>2. /\ argi = Len(cmdline) /\ CertsGood /\ ~conf.T /\ cred.uid = world.uid /\ cred.gid = world.gid
        /\ Configured
    BY <1>1 DEF Booted, Stage, Taken
  <1>3. Port \in Nat
    <2>1. conf["p"] \in Nat
      BY DEF Booted, BootTyped, ConfTyped
    <2> QED
      BY <2>1, PortsOrdered DEF Port
  <1>4. \/ boot' = "exited" /\ code' \in {2, 3, 4} /\ bound' = bound /\ ~PortGood
        \/ boot' = "gid" /\ code' = code /\ bound' = Port /\ PortGood
    <2>1. CASE PortGood
      <3>1. boot' = "gid" /\ bound' = Port /\ code' = code
        BY <1>2, <1>3, <2>1, PortsOrdered DEF BindAndListen, PortGood
      <3> QED
        BY <2>1, <3>1
    <2>2. CASE ~PortGood
      <3>1. \/ Port < 1 \/ Port > MAXPORT \/ conf.i = "bad" \/ ~world.socket \/ Port \in world.busy
            \/ (Port < PRIVPORT /\ cred.uid # 0)
        BY <1>2, <1>3, <2>2, PortsOrdered DEF PortGood
      <3>2. boot' = "exited" /\ code' \in {2, 3, 4} /\ bound' = bound
        BY <3>1 DEF BindAndListen, Exit
      <3> QED
        BY <2>2, <3>2
    <2> QED
      BY <2>1, <2>2
  <1>5. /\ BootTyped' /\ Taken' /\ CertsGood' = CertsGood /\ Port' = Port /\ PortGood' = PortGood
    <2>1. cred \in [uid : Nat, gid : Nat] /\ bound' \in 0 .. MAXPORT
      BY <1>3, <1>4, PortsOrdered DEF Booted, BootTyped, BootTypeOK, PortGood
    <2> QED
      BY <1>1, <1>4, <2>1, LaterKeeps
  <1>6. CASE boot' = "exited" /\ code' \in {2, 3, 4} /\ ~PortGood
    <2>1. ~Undefined => ~MayServe
      BY <1>2, <1>6, Expected DEF Booted, MayServe
    <2>2. ExitRight'
      BY <1>1, <1>2, <1>6, <2>1, LeavesRight
    <2> QED
      BY <1>5, <1>6, <2>2 DEF Booted, Stage
  <1>7. CASE boot' = "gid" /\ bound' = Port /\ PortGood
    BY <1>1, <1>2, <1>5, <1>7 DEF Booted, Stage
  <1> QED
    BY <1>4, <1>6, <1>7

LEMMA GidStage ==
  ASSUME Booted, SetNewGid
  PROVE  Booted'
  <1>0. cred \in [uid : Nat, gid : Nat]
    BY DEF Booted, BootTyped, BootTypeOK
  <1>1. /\ cmdline' = cmdline /\ world' = world /\ argi' = argi /\ conf' = conf /\ env' = env
        /\ bound' = bound /\ boot = "gid"
    BY DEF SetNewGid
  <1>2. /\ argi = Len(cmdline) /\ CertsGood /\ ~conf.T /\ cred.uid = world.uid /\ cred.gid = world.gid
        /\ Configured /\ bound = Port /\ PortGood
    BY <1>1 DEF Booted, Stage, Taken
  <1>3. \/ boot' = "exited" /\ code' = 9 /\ cred' = cred /\ ~GroupGood
        \/ /\ boot' = "uid" /\ code' = code /\ GroupGood /\ cred'.uid = world.uid
           /\ conf.g = 0 => cred' = cred
           /\ conf.g # 0 => cred' = [cred EXCEPT !.gid = conf.g]
    BY <1>0, <1>1, <1>2 DEF SetNewGid, Exit, GroupGood
  <1>4. conf.g \in Nat /\ cred \in [uid : Nat, gid : Nat] /\ bound \in 0 .. MAXPORT
    BY DEF Booted, BootTyped, ConfTyped, BootTypeOK
  <1>5. /\ BootTyped' /\ Taken' /\ CertsGood' = CertsGood /\ Port' = Port /\ PortGood' = PortGood
        /\ GroupGood' = GroupGood
    <2>1. cred' \in [uid : Nat, gid : Nat]
      BY <1>3, <1>4
    <2> QED
      BY <1>1, <1>3, <1>4, <2>1, LaterKeeps
  <1>6. CASE boot' = "exited" /\ code' = 9 /\ ~GroupGood
    <2>1. ~Undefined => ~MayServe
      BY <1>2, <1>6, Expected DEF Booted, MayServe
    <2>2. ExitRight'
      BY <1>1, <1>2, <1>6, <2>1, LeavesRight
    <2> QED
      BY <1>5, <1>6, <2>2 DEF Booted, Stage
  <1>7. CASE /\ boot' = "uid" /\ GroupGood /\ cred'.uid = world.uid
             /\ conf.g = 0 => cred' = cred
             /\ conf.g # 0 => cred' = [cred EXCEPT !.gid = conf.g]
    <2>1. GroupSet'
      BY <1>0, <1>1, <1>2, <1>7 DEF GroupSet
    <2> QED
      BY <1>1, <1>2, <1>5, <1>7, <2>1 DEF Booted, Stage
  <1> QED
    BY <1>3, <1>6, <1>7

LEMMA UidStage ==
  ASSUME Booted, SetNewUid
  PROVE  Booted'
  <1>0. cred \in [uid : Nat, gid : Nat]
    BY DEF Booted, BootTyped, BootTypeOK
  <1>1. /\ cmdline' = cmdline /\ world' = world /\ argi' = argi /\ conf' = conf /\ env' = env
        /\ bound' = bound /\ boot = "uid"
    BY DEF SetNewUid
  <1>2. /\ argi = Len(cmdline) /\ CertsGood /\ ~conf.T /\ cred.uid = world.uid
        /\ Configured /\ bound = Port /\ PortGood /\ GroupGood /\ GroupSet
    BY <1>1 DEF Booted, Stage, Taken
  <1>3. \/ boot' = "exited" /\ code' = 9 /\ cred' = cred /\ ~UserGood
        \/ /\ boot' = "daemon" /\ code' = code /\ UserGood /\ cred'.gid = cred.gid
           /\ conf.u = 0 => cred' = cred
           /\ conf.u # 0 => cred' = [cred EXCEPT !.uid = conf.u]
    BY <1>0, <1>1, <1>2 DEF SetNewUid, Exit, UserGood
  <1>4. conf.u \in Nat /\ cred \in [uid : Nat, gid : Nat] /\ bound \in 0 .. MAXPORT
    BY DEF Booted, BootTyped, ConfTyped, BootTypeOK
  <1>5. /\ BootTyped' /\ Taken' /\ CertsGood' = CertsGood /\ Port' = Port /\ PortGood' = PortGood
        /\ GroupGood' = GroupGood /\ UserGood' = UserGood
    <2>1. cred' \in [uid : Nat, gid : Nat]
      BY <1>3, <1>4
    <2> QED
      BY <1>1, <1>3, <1>4, <2>1, LaterKeeps
  <1>6. CASE boot' = "exited" /\ code' = 9 /\ ~UserGood
    <2>1. ~Undefined => ~MayServe
      BY <1>2, <1>6, Expected DEF Booted, MayServe
    <2>2. ExitRight'
      BY <1>1, <1>2, <1>6, <2>1, LeavesRight
    <2> QED
      BY <1>5, <1>6, <2>2 DEF Booted, Stage
  <1>7. CASE /\ boot' = "daemon" /\ UserGood /\ cred'.gid = cred.gid
             /\ conf.u = 0 => cred' = cred
             /\ conf.u # 0 => cred' = [cred EXCEPT !.uid = conf.u]
    <2>1. UserSet' /\ GroupSet'
      BY <1>0, <1>1, <1>2, <1>7 DEF UserSet, GroupSet
    <2> QED
      BY <1>1, <1>2, <1>5, <1>7, <2>1 DEF Booted, Stage
  <1> QED
    BY <1>3, <1>6, <1>7

LEMMA LastStage ==
  ASSUME Booted, Daemonize \/ QInit
  PROVE  Booted'
  <1>1. /\ cmdline' = cmdline /\ world' = world /\ argi' = argi /\ conf' = conf /\ env' = env
        /\ bound' = bound /\ cred' = cred /\ boot \in {"daemon", "queue"}
    BY DEF Daemonize, QInit
  <1>2. /\ argi = Len(cmdline) /\ CertsGood /\ ~conf.T /\ Configured /\ bound = Port /\ PortGood
        /\ GroupGood /\ GroupSet /\ UserGood /\ UserSet
    BY <1>1 DEF Booted, Stage, Taken
  <1>3. \/ boot' = "exited" /\ code' = 0 /\ conf.d /\ ~world.fork
        \/ boot' = "exited" /\ code' = NOMEM /\ ~world.memory
        \/ boot' = "queue" /\ code' = code
        \/ boot' = "serving" /\ code' = code /\ world.memory
    BY DEF Daemonize, QInit, Exit
  <1>4. cred \in [uid : Nat, gid : Nat] /\ bound \in 0 .. MAXPORT
    BY DEF Booted, BootTyped, BootTypeOK
  <1>5. /\ BootTyped' /\ Taken' /\ CertsGood' = CertsGood /\ Port' = Port /\ PortGood' = PortGood
        /\ GroupGood' = GroupGood /\ UserGood' = UserGood
    BY <1>1, <1>3, <1>4, LaterKeeps
  <1>6. GroupSet' /\ UserSet'
    BY <1>1, <1>2 DEF GroupSet, UserSet
  <1>7. CASE boot' = "exited" /\ code' = 0 /\ conf.d /\ ~world.fork
    <2>1. Given("d")
      BY <1>2, <1>7, FinalConf DEF Booted, Flags
    <2>2. ExitRight'
      BY <1>1, <1>2, <1>7, <2>1, LeavesRight
    <2> QED
      BY <1>5, <1>7, <2>2 DEF Booted, Stage
  <1>8. CASE boot' = "exited" /\ code' = NOMEM /\ ~world.memory
    <2>1. ~Undefined => ~MayServe
      BY <1>2, <1>8, Expected DEF Booted, MayServe
    <2>2. ExitRight'
      BY <1>1, <1>2, <1>8, <2>1, LeavesRight DEF NOMEM
    <2> QED
      BY <1>5, <1>8, <2>2 DEF Booted, Stage
  <1>9. CASE boot' = "queue" \/ (boot' = "serving" /\ world.memory)
    BY <1>1, <1>2, <1>5, <1>6, <1>9 DEF Booted, Stage
  <1> QED
    BY <1>3, <1>7, <1>8, <1>9

LEMMA BootStage ==
  ASSUME Booted, BootStep
  PROVE  Booted'
  BY OptionStage, OptionsDoneStage, BindStage, GidStage, UidStage, LastStage DEF BootStep

(* What the stage says when the server is up is what was promised.         *)
LEMMA BootedRight ==
  ASSUME Booted
  PROVE  StartsAsAsked
  <1>1. ServesWhenPossible
    <2> SUFFICES ASSUME ~Undefined
                 PROVE  /\ boot \in {"serving", "inetd"} => MayServe
                        /\ boot = "exited" => ExitRight
                        /\ boot = "serving" => bound = Final("p", PORT)
      BY DEF ServesWhenPossible, ExitRight
    <2>1. boot = "exited" => ExitRight
      BY DEF Booted, Stage
    <2>2. ASSUME boot \in {"serving", "inetd"}
          PROVE  MayServe /\ (boot = "serving" => bound = Final("p", PORT))
      <3>1. /\ argi = Len(cmdline) /\ CertsGood /\ (boot = "inetd" <=> conf.T) /\ Configured
            /\ \A k \in 1 .. argi : Accepted(cmdline[k])
        BY <2>2 DEF Booted, Stage, Taken
      <3>2. boot = "serving" => bound = Port /\ PortGood /\ GroupGood /\ UserGood /\ world.memory
        BY DEF Booted, Stage
      <3> QED
        BY <2>2, <3>1, <3>2, Expected DEF MayServe, Booted
    <2> QED
      BY <2>1, <2>2
  <1>2. RightsDropped
    <2> SUFFICES ASSUME boot = "serving"
                 PROVE  /\ cred.uid = IF Final("u", 0) = 0 THEN world.uid ELSE Final("u", 0)
                        /\ cred.gid = IF Final("g", 0) = 0 THEN world.gid ELSE Final("g", 0)
      BY DEF RightsDropped
    <2>1. argi = Len(cmdline) /\ Configured /\ GroupSet /\ UserSet
      BY DEF Booted, Stage, Taken
    <2>2. conf["u"] = Final("u", 0) /\ conf["g"] = Final("g", 0)
      BY <2>1, FinalConf DEF Booted
    <2> QED
      BY <2>1, <2>2 DEF GroupSet, UserSet
  <1>3. ListsKept
    <2> SUFFICES ASSUME boot \in {"serving", "inetd"}
                 PROVE  /\ Len(conf.c) < MAXINDEXCOUNT /\ Len(conf.I) < MAXINDEXCOUNT
                        /\ Given("I") /\ NoEmpty(Final("I", <<>>)) =>
                             /\ Joined(conf.I) = Final("I", <<>>)
                             /\ Len(conf.I) = Commas(Final("I", <<>>)) + 1
                        /\ Given("c") /\ NoEmpty(Final("c", <<>>)) =>
                             /\ Joined(conf.c) = Final("c", <<>>)
                             /\ Len(conf.c) = Commas(Final("c", <<>>)) + 1
      BY DEF ListsKept
    <2>1. argi = Len(cmdline) /\ Configured /\ \A k \in 1 .. argi : Accepted(cmdline[k])
      BY DEF Booted, Stage, Taken
    <2>2. \A o \in Keys : conf[o] = IF Given(o) THEN Value(o, cmdline[Latest(Uses(o))][2]) ELSE DefaultConf[o]
      BY <2>1, FinalConf DEF Booted
    <2>3. /\ Len(cmdline) \in Nat /\ DOMAIN cmdline = 1 .. Len(cmdline)
          /\ \A k \in 1 .. Len(cmdline) : OptionType(cmdline[k])
      BY DEF Booted, BootTyped, CommandLine
    <2>4. ASSUME NEW o \in {"c", "I"}, Given(o)
          PROVE  LET arg == cmdline[Latest(Uses(o))][2]
                 IN  /\ Accepted(cmdline[Latest(Uses(o))]) /\ cmdline[Latest(Uses(o))][1] = o
                     /\ arg \in Texted /\ Final(o, <<>>) = arg
                     /\ conf[o] = Value(o, arg)
      <3>1. Uses(o) \subseteq 0 .. Len(cmdline) /\ Uses(o) # {}
        BY <2>3, <2>4 DEF Uses, Given
      <3>2. Latest(Uses(o)) \in Uses(o)
        BY <2>3, <3>1, LatestIs
      <3>3. Latest(Uses(o)) \in 1 .. Len(cmdline) /\ cmdline[Latest(Uses(o))][1] = o
        BY <2>3, <3>2 DEF Uses
      <3>4. cmdline[Latest(Uses(o))][2] \in Texted
        BY <2>3, <3>3 DEF OptionType, Texted, Bytes
      <3>5. o \in Keys
        BY DEF Keys
      <3> QED
        BY <2>1, <2>2, <2>4, <3>3, <3>4, <3>5 DEF Final
    <2>5. \A arg : Value("c", arg) = CgiList(arg) /\ Value("I", arg) = Items(arg, ListCuts(arg))
      BY DEF Value, Flags
    <2>6. ASSUME Given("c")
          PROVE  /\ Len(conf["c"]) < MAXINDEXCOUNT
                 /\ NoEmpty(Final("c", <<>>)) => /\ Joined(conf["c"]) = Final("c", <<>>)
                                                /\ Len(conf["c"]) = Commas(Final("c", <<>>)) + 1
      <3> DEFINE arg == cmdline[Latest(Uses("c"))][2]
      <3>1. CgiTaken(arg) /\ arg \in Texted /\ Final("c", <<>>) = arg /\ conf["c"] = CgiList(arg)
        BY <2>4, <2>5, <2>6 DEF Accepted
      <3> HIDE DEF arg
      <3>2. Len(conf["c"]) < MAXINDEXCOUNT
        BY <3>1, IndexCountPositive DEF CgiTaken, CgiList
      <3>3. ASSUME NoEmpty(arg)
            PROVE  Joined(conf["c"]) = arg /\ Len(conf["c"]) = Commas(arg) + 1
        <4>1. CgiCuts(arg) = CommasOf(arg) /\ arg # <<>> /\ arg \in Seq(0 .. 255)
          BY <3>1, <3>3, CgiCutsAre DEF NoEmpty, Texted, Bytes
        <4> QED
          BY <3>1, <3>3, <4>1, GoodItems, ItemsJoined DEF CgiList
      <3> QED
        BY <3>1, <3>2, <3>3
    <2>7. ASSUME ~Given("c") PROVE Len(conf["c"]) < MAXINDEXCOUNT
      <3>1. conf["c"] = CGIS
        BY <2>2, <2>7, DefaultsAre DEF Keys
      <3> QED
        BY <2>7, <3>1, DefaultsTyped
    <2>8. ASSUME Given("I")
          PROVE  /\ Len(conf["I"]) < MAXINDEXCOUNT
                 /\ NoEmpty(Final("I", <<>>)) => /\ Joined(conf["I"]) = Final("I", <<>>)
                                                /\ Len(conf["I"]) = Commas(Final("I", <<>>)) + 1
      <3> DEFINE arg == cmdline[Latest(Uses("I"))][2]
      <3>1. /\ Len(Items(arg, ListCuts(arg))) < MAXINDEXCOUNT /\ arg \in Texted /\ Final("I", <<>>) = arg
            /\ conf["I"] = Items(arg, ListCuts(arg))
        BY <2>4, <2>5, <2>8 DEF Accepted
      <3> HIDE DEF arg
      <3>2. ASSUME NoEmpty(arg)
            PROVE  Joined(conf["I"]) = arg /\ Len(conf["I"]) = Commas(arg) + 1
        <4>1. arg \in Seq(0 .. 255)
          BY <3>1 DEF Texted, Bytes
        <4>2. ListCuts(arg) = CommasOf(arg)
          BY <3>2, <4>1, ListCutsAre
        <4> QED
          BY <3>1, <3>2, <4>1, <4>2, GoodItems, ItemsJoined
      <3> QED
        BY <3>1, <3>2
    <2>9. ASSUME ~Given("I") PROVE Len(conf["I"]) < MAXINDEXCOUNT
      <3>1. conf["I"] = <<INDEX>>
        BY <2>2, <2>9, DefaultsAre DEF Keys
      <3> QED
        BY <2>9, <3>1, IndexCountPositive
    <2> QED
      BY <2>6, <2>7, <2>8, <2>9
  <1> QED
    BY <1>1, <1>2, <1>3 DEF StartsAsAsked

LEMMA BootStill ==
  ASSUME Booted, UNCHANGED bootVars
  PROVE  Booted'
  <1>1. /\ cmdline' = cmdline /\ world' = world /\ boot' = boot /\ argi' = argi /\ conf' = conf
        /\ env' = env /\ cred' = cred /\ bound' = bound /\ code' = code
    BY DEF bootVars
  <1>2. BootTyped'
    BY <1>1 DEF Booted, BootTyped, BootTypeOK, WorldType, CommandLine, ConfTyped
  <1>3. \A o : ReadTo(o)' = ReadTo(o)
    BY <1>1 DEF ReadTo, Uses
  <1>4. Taken'
    BY <1>1, <1>3 DEF Booted, Taken, Configured, ConfOf
  <1>5. /\ Undefined' = Undefined /\ MayServe' = MayServe /\ \A o : Given(o)' = Given(o)
    BY <1>1, MeantKept
  <1>6. ExitRight' = ExitRight
    BY <1>1, <1>5 DEF ExitRight
  <1>7. /\ CertsGood' = CertsGood /\ Port' = Port /\ PortGood' = PortGood /\ GroupGood' = GroupGood
        /\ UserGood' = UserGood /\ GroupSet' = GroupSet /\ UserSet' = UserSet
    BY <1>1 DEF CertsGood, Port, PortGood, GroupGood, UserGood, GroupSet, UserSet
  <1>8. Stage'
    BY <1>1, <1>6, <1>7 DEF Booted, Stage
  <1> QED
    BY <1>2, <1>4, <1>8 DEF Booted

LEMMA BootedInit == Init => Booted
  <1> SUFFICES ASSUME Init PROVE Booted
    OBVIOUS
  <1>1. plan \in Cases /\ BootInit(plan.argv, plan.world)
    BY DEF Init
  <1>2. CommandLine(plan.argv) /\ WorldType(plan.world)
    BY <1>1, CasesTyped
  <1>3. BootTyped /\ Configured
    BY <1>1, <1>2, BootTypedInit
  <1>4. boot = "options" /\ argi = 0 /\ cred.uid = world.uid /\ cred.gid = world.gid
    BY <1>1 DEF BootInit
  <1> QED
    BY <1>3, <1>4 DEF Booted, Taken, Stage

LEMMA BootedNext == Booted /\ [Next]_vars => Booted'
  <1> SUFFICES ASSUME Booted, [Next]_vars PROVE Booted'
    OBVIOUS
  <1>1. CASE Boot
    BY <1>1, BootStage DEF Boot
  <1>2. CASE UNCHANGED bootVars
    BY <1>2, BootStill
  <1>3. CASE Connect \/ Inetd \/ Scan \/ Url \/ Authenticate \/ Auth \/ Cgi \/ Copy \/ List \/ PropertiesStep
             \/ Again \/ UNCHANGED vars
    <2>1. UNCHANGED bootVars
      BY <1>3 DEF Connect, Inetd, NewConnection, Scan, Url, Authenticate, Auth, Cgi, Copy, List,
                  PropertiesStep, Again, vars
    <2> QED
      BY <1>2, <2>1
  <1>4. CASE Refused \/ Missing \/ Script \/ ScriptRun \/ File \/ FileSent \/ Directory \/ ListSent
             \/ Properties \/ PropertiesSent
    <2>1. Stay
      BY <1>4 DEF Refused, Missing, Script, ScriptRun, File, FileSent, Directory, ListSent, Properties,
                  PropertiesSent
    <2>2. UNCHANGED bootVars
      BY <2>1 DEF Stay
    <2> QED
      BY <1>2, <2>2
  <1> QED
    BY <1>1, <1>3, <1>4 DEF Next

(* The server that comes up is the one the command line asks for, for      *)
(* every command line, every environment and every way the set-up can fail *)
(* (configuration_load and its setters, net_bind_and_listen, set_new_gid,  *)
(* set_new_uid, daemonize and main).                                       *)
THEOREM StartCorrect == Spec => []StartsAsAsked
  <1>1. Booted => StartsAsAsked
    BY BootedRight
  <1> QED
    BY <1>1, BootedInit, BootedNext, PTL DEF Spec
-----------------------------------------------------------------------------
(* Scripts.                                                                *)

(* The name in a header field: what cgi_set_http_env_vars splits off.      *)
LEMMA NameFacts ==
  ASSUME NEW text \in Seq(0 .. 255)
  PROVE  LET at == CHOOSE i \in Colons(text) : \A j \in Colons(text) : i <= j
         IN  /\ Colons(text) = {} => NameIn(text) = text
             /\ Colons(text) # {} => /\ at \in 1 .. Len(text) - 1 /\ NameIn(text) = SubSeq(text, 1, at - 1)
                                     /\ Len(NameIn(text)) = at - 1 /\ NameIn(text) # text
  <1> DEFINE pat == <<COLON, SP>>
  <1> DEFINE hits == {i \in 1 .. Len(text) - Len(pat) + 1 : SubSeq(text, i, i + Len(pat) - 1) = pat}
  <1> DEFINE at == CHOOSE i \in hits : \A j \in hits : i <= j
  <1>1. Len(text) \in Nat /\ pat \in Seq(0 .. 255) /\ Len(pat) = 2 /\ pat[1] = COLON /\ pat[2] = SP
    BY DEF COLON, SP
  <1>2. Len(text) - Len(pat) + 1 = Len(text) - 1
    BY <1>1
  <1> HIDE DEF pat
  <1>3. ASSUME NEW i \in 1 .. Len(text) - 1
        PROVE  SubSeq(text, i, i + Len(pat) - 1) = pat <=> text[i] = COLON /\ text[i + 1] = SP
    <2>1. i \in 1 .. Len(text) - Len(pat) + 1 /\ i + 1 - 1 = i /\ i + 2 - 1 = i + 1
      BY <1>1, <1>2
    <2>2. Occurs(text, i, pat) <=> text[i] = COLON /\ text[i + 1] = SP
      <3>1. Occurs(text, i, pat) <=> \A k \in 1 .. 2 : text[i + k - 1] = pat[k]
        BY <1>1 DEF Occurs
      <3>2. 1 .. 2 = {1, 2}
        OBVIOUS
      <3> QED
        BY <1>1, <2>1, <3>1, <3>2
    <2> QED
      BY <1>1, <2>1, <2>2, SubSeqOccurs
  <1>4. hits = Colons(text)
    BY <1>2, <1>3 DEF Colons
  <1>5. NameIn(text) = IF hits = {} THEN text ELSE SubSeq(text, 1, at - 1)
    BY DEF NameIn, Before, pat
  <1>6. hits \subseteq 1 .. Len(text) - 1
    BY <1>2
  <1> HIDE DEF hits
  <1>7. ASSUME hits # {}
        PROVE  /\ at \in 1 .. Len(text) - 1 /\ NameIn(text) = SubSeq(text, 1, at - 1)
               /\ Len(NameIn(text)) = at - 1 /\ NameIn(text) # text
    <2>1. hits \subseteq Nat
      BY <1>1, <1>6
    <2>2. at \in hits
      BY <1>7, <2>1, LeastExists
    <2>3. at \in 1 .. Len(text) - 1
      BY <1>6, <2>2
    <2> HIDE DEF at
    <2>4. Len(SubSeq(text, 1, at - 1)) = at - 1
      <3>1. 1 \in 1 .. Len(text) + 1 /\ at - 1 \in 0 .. Len(text)
        BY <1>1, <2>3
      <3> QED
        BY <1>1, <2>3, <3>1, SubSeqProperties
    <2>5. NameIn(text) = SubSeq(text, 1, at - 1)
      BY <1>5, <1>7
    <2> QED
      BY <1>1, <2>3, <2>4, <2>5
  <1> QED
    BY <1>4, <1>5, <1>7

(* setenv.                                                                 *)
LEMMA SetEnvFacts ==
  ASSUME NEW e, NEW new
  PROVE  /\ DOMAIN SetEnv(e, new) = DOMAIN e \cup DOMAIN new
         /\ \A v \in DOMAIN new : SetEnv(e, new)[v] = new[v]
         /\ \A v \in DOMAIN e : v \notin DOMAIN new => SetEnv(e, new)[v] = e[v]
  BY DEF SetEnv

(* The fields up to the n-th line, the names they give, and the value the  *)
(* k-th line gives.                                                        *)
FieldsTo(n) == {k \in FieldLines : k <= n}
NamedTo(n) == {EnvName(NameIn(lines[k])) : k \in FieldsTo(n)}
GivingTo(n, x) == {k \in FieldsTo(n) : EnvName(NameIn(lines[k])) = x}
ValueAt(k) == SubSeq(lines[k], Len(NameIn(lines[k])) + 3, Len(lines[k]))
HttpVars(n) == {HttpVar(x) : x \in NamedTo(n)}
FieldValues(n) == \A x \in NamedTo(n) : cenv[HttpVar(x)] = ValueAt(Latest(GivingTo(n, x)))

HostVars(n) == IF HOST \in NamedTo(n) THEN {Var("SERVER_NAME")} ELSE {}
LengthVars(n) == IF {CLENGTH, CTYPE} \subseteq NamedTo(n) THEN {Var("CONTENT_LENGTH"), Var("CONTENT_TYPE")} ELSE {}
UriIs == IF get_params = NULL \/ PageLenStale THEN CText(buf, page)
         ELSE CText(buf, page) \o <<QMARK>> \o CText(buf, get_params)
ExecIs == HasSlash(Strfile) =>
            IF executor # <<>>
            THEN exec.program = executor /\ exec.dir \o <<SLASH>> \o exec.file = Strfile
            ELSE Strfile[1] = SLASH => Seen(exec.dir, exec.program) = Strfile

(* What is in the environment of a script, as far as it has been made.     *)
CgiInv ==
  cgi # "idle" =>
    /\ lines \in Seq(Seq(0 .. 255)) /\ line_no \in 1 .. Len(lines) /\ FieldValues(line_no)
    /\ cgi # "http" => line_no = Len(lines)
    /\ DOMAIN cenv = HttpVars(line_no) \cup {Var("SERVER_PROTOCOL")}
                     \cup (IF cgi \in {"http", "vars"} THEN {} ELSE FixedVars \cup HostVars(line_no))
                     \cup (IF cgi \in {"exec", "done"} THEN LengthVars(line_no) ELSE {})
    /\ cgi \in {"length", "exec", "done"} =>
         /\ cenv[Var("REQUEST_URI")] = UriIs
         /\ HOST \in NamedTo(line_no) => cenv[Var("SERVER_NAME")] = ValueAt(Latest(GivingTo(line_no, HOST)))
    /\ cgi = "done" => ExecIs
    /\ cgi \in {"http", "vars", "length", "exec", "done"}
    /\ \A v \in DOMAIN cenv : cenv[v] \in Seq(0 .. 255)

LEMMA CgiRight ==
  ASSUME CgiInv
  PROVE  ScriptRight
  <1> SUFFICES ASSUME cgi = "done" PROVE ScriptRight
    BY DEF ScriptRight, ScriptRuns, ScriptEnvExact, RequestUriWhole
  <1>1. /\ FieldValues(line_no) /\ line_no = Len(lines) /\ Len(lines) \in Nat
        /\ DOMAIN cenv = HttpVars(line_no) \cup {Var("SERVER_PROTOCOL")} \cup (FixedVars \cup HostVars(line_no))
                         \cup LengthVars(line_no)
        /\ cenv[Var("REQUEST_URI")] = UriIs /\ ExecIs
        /\ HOST \in NamedTo(line_no) => cenv[Var("SERVER_NAME")] = ValueAt(Latest(GivingTo(line_no, HOST)))
    BY DEF CgiInv
  <1>2. FieldsTo(line_no) = FieldLines
    BY <1>1 DEF FieldsTo, FieldLines
  <1>3. NamedTo(line_no) = Wanted
    BY <1>2 DEF NamedTo, Wanted
  <1>4. \A x : ValueAt(Latest(GivingTo(line_no, x))) = LastValue(x)
    BY <1>2 DEF ValueAt, Latest, GivingTo, LastValue
  <1>5. RequestUriWhole /\ ScriptRuns
    BY <1>1 DEF RequestUriWhole, UriIs, ScriptRuns, ExecIs
  <1>6. FixedVars \cup {Var("SERVER_PROTOCOL")}
          = {Var(n) : n \in {"SERVER_PROTOCOL", "SCRIPT_FILENAME", "DOCUMENT_ROOT",
                             "SCRIPT_NAME", "REQUEST_URI", "QUERY_STRING"}}
    BY DEF FixedVars
  <1>7. ScriptEnvExact
    BY <1>1, <1>3, <1>4, <1>6 DEF ScriptEnvExact, FieldValues, HttpVars, HostVars, LengthVars
  <1> QED
    BY <1>5, <1>7 DEF ScriptRight

(* A text is what it is split into at one of its bytes.                    *)
LEMMA SplitBack ==
  ASSUME NEW R, NEW s \in Seq(R), NEW a \in 1 .. Len(s)
  PROVE  /\ SubSeq(s, 1, a - 1) \o <<s[a]>> \o SubSeq(s, a + 1, Len(s)) = s
         /\ SubSeq(s, 1, a - 1) \in Seq(R) /\ Len(SubSeq(s, 1, a - 1)) = a - 1
         /\ \A i \in 1 .. a - 1 : SubSeq(s, 1, a - 1)[i] = s[i]
  <1> DEFINE n == Len(s)
  <1>0. n \in Nat /\ a \in Nat /\ 1 <= a /\ a <= n /\ n = Len(s)
    OBVIOUS
  <1> HIDE DEF n
  <1>1. /\ n + 1 \in a + 1 .. n + 1 /\ n + 1 - 1 = n /\ n \in 0 .. n /\ a - 1 \in 0 .. n
        /\ 1 \in 1 .. n + 1 /\ n - 1 + 1 = n /\ a - 1 - 1 + 1 = a - 1
        /\ \A i \in Int : 1 + i - 1 = i
    BY <1>0
  <1>2. SubSeq(s, 1, a - 1) \o <<s[a]>> \o SubSeq(s, a + 1, n) = SubSeq(s, 1, n)
    <2> DEFINE b == n + 1
    <2>1. b \in a + 1 .. Len(s) + 1 /\ b - 1 = n
      BY <1>0, <1>1
    <2> HIDE DEF b
    <2>2. SubSeq(s, 1, a - 1) \o <<s[a]>> \o SubSeq(s, a + 1, b - 1) = SubSeq(s, 1, b - 1)
      BY <2>1, SubSeqJoin
    <2> QED
      BY <2>1, <2>2
  <1>3. SubSeq(s, 1, n) = s
    <2> DEFINE t == SubSeq(s, 1, n)
    <2>1. 1 \in 1 .. Len(s) + 1 /\ n \in 0 .. Len(s)
      BY <1>0, <1>1
    <2>2. t \in Seq(R) /\ Len(t) = n /\ \A i \in 1 .. n : t[i] = s[i]
      BY <1>0, <1>1, <2>1, SubSeqProperties
    <2> HIDE DEF t
    <2>3. t = s
      BY <1>0, <2>2, SeqEqual
    <2> QED
      BY <2>3 DEF t
  <1>4. /\ SubSeq(s, 1, a - 1) \in Seq(R) /\ Len(SubSeq(s, 1, a - 1)) = a - 1
        /\ \A i \in 1 .. a - 1 : SubSeq(s, 1, a - 1)[i] = s[i]
    <2> DEFINE m == a - 1
    <2>1. m \in 0 .. Len(s) /\ 1 \in 1 .. Len(s) + 1 /\ m \in Nat /\ 1 <= m + 1 /\ m - 1 + 1 = m
      BY <1>0, <1>1
    <2> HIDE DEF m
    <2>2. /\ SubSeq(s, 1, m) \in Seq(R) /\ Len(SubSeq(s, 1, m)) = m
          /\ \A i \in 1 .. m : SubSeq(s, 1, m)[i] = s[i]
      BY <1>1, <2>1, SubSeqProperties
    <2> QED
      BY <2>2 DEF m
  <1> QED
    BY <1>0, <1>2, <1>3, <1>4

(* REQUEST_URI.                                                            *)
LEMMA RejoinIs ==
  ASSUME HeadInv, url # "idle"
  PROVE  /\ CText(buf, page) \in Seq(0 .. 255)
         /\ get_params # NULL => Rejoined(buf) = UriIs /\ Rejoined(buf) \in Seq(0 .. 255)
                                 /\ CText(buf, get_params) \in Seq(0 .. 255)
  <1> DEFINE e == StrEnd(buf, page)
  <1>1. /\ INBUFFER \in Nat /\ page \in Nat /\ PageEnd \in Nat /\ UrlEnd \in Nat /\ page_len \in Nat
        /\ page <= PageEnd /\ PageEnd <= UrlEnd /\ UrlEnd + 1 <= INBUFFER /\ buf \in Memory
        /\ buf[UrlEnd] = NUL /\ buf[PageEnd] = NUL /\ PageEnd = page + page_len
    BY UrlBounds DEF HeadInv
  <1>2. page \in 0 .. INBUFFER /\ PageEnd \in page .. INBUFFER
    BY <1>1
  <1>3. e \in page .. PageEnd /\ buf[e] = NUL /\ \A j \in page .. e - 1 : buf[j] # NUL
    BY <1>1, <1>2, StrEndFacts
  <1>4. PageLenStale <=> e # PageEnd
    BY <1>1, <1>3 DEF PageLenStale, StrLen
  <1>4a. StrEnd(buf, page) = e
    OBVIOUS
  <1> HIDE DEF e
  <1>5. e \in page .. INBUFFER
    BY <1>1, <1>3
  <1>6. /\ CText(buf, page) \in Seq(0 .. 255) /\ Len(CText(buf, page)) = e - page
        /\ \A i \in 1 .. e - page : CText(buf, page)[i] = buf[page + i - 1]
    BY <1>1, <1>2, <1>4a, <1>5, CTextFacts
  <1>7. ASSUME get_params # NULL
        PROVE  /\ Rejoined(buf) = UriIs /\ Rejoined(buf) \in Seq(0 .. 255)
               /\ CText(buf, get_params) \in Seq(0 .. 255)
    <2> DEFINE new == [buf EXCEPT ![page + page_len] = QMARK]
    <2> DEFINE g == get_params
    <2> DEFINE f == StrEnd(buf, g)
    <2>1. g = PageEnd + 1 /\ g <= UrlEnd
      BY <1>7 DEF HeadInv, UrlInv, InUrl
    <2>2. g \in 0 .. INBUFFER /\ UrlEnd \in g .. INBUFFER
      BY <1>1, <2>1
    <2>3. f \in g .. UrlEnd /\ buf[f] = NUL /\ \A j \in g .. f - 1 : buf[j] # NUL
      BY <1>1, <2>2, StrEndFacts
    <2>4. /\ new \in Memory /\ new[PageEnd] = QMARK
          /\ \A i \in 0 .. INBUFFER : i # PageEnd => new[i] = buf[i]
      BY <1>1, <1>2 DEF Memory, QMARK
    <2>5. Rejoined(buf) = CText(new, page)
      BY DEF Rejoined
    <2>6. StrEnd(buf, g) = f
      OBVIOUS
    <2> HIDE DEF new, f
    <2>7. f \in g .. INBUFFER /\ f \in page .. INBUFFER
      BY <1>1, <2>1, <2>2, <2>3
    <2>8. /\ CText(buf, g) \in Seq(0 .. 255) /\ Len(CText(buf, g)) = f - g
          /\ \A i \in 1 .. f - g : CText(buf, g)[i] = buf[g + i - 1]
      BY <1>1, <2>2, <2>6, <2>7, CTextFacts
    <2>9. CASE PageLenStale
      <3>1. e < PageEnd
        BY <1>1, <1>3, <1>4, <2>9
      <3>2. \A i \in page .. e : new[i] = buf[i]
        BY <1>1, <1>5, <2>4, <3>1
      <3>3. CText(new, page) = CText(buf, page)
        BY <1>1, <1>2, <1>3, <1>5, <2>4, <3>2, SameText
      <3> QED
        BY <1>6, <2>5, <2>8, <2>9, <3>3 DEF UriIs
    <2>10. CASE ~PageLenStale
      <3>1. e = PageEnd
        BY <1>4, <2>10
      <3>2. new[f] = NUL
        BY <1>1, <2>1, <2>3, <2>4, <2>7
      <3>3. ASSUME NEW j \in page .. f - 1 PROVE new[j] # NUL
        <4>1. j \in 0 .. INBUFFER /\ (j \in page .. e - 1 \/ j = PageEnd \/ j \in g .. f - 1)
          BY <1>1, <2>1, <2>7, <3>1
        <4>2. CASE j = PageEnd
          BY <2>4, <4>2 DEF QMARK, NUL
        <4>3. CASE j \in page .. e - 1 \/ j \in g .. f - 1
          <5>1. j # PageEnd /\ buf[j] # NUL
            BY <1>1, <1>3, <2>1, <2>3, <3>1, <4>3
          <5> QED
            BY <2>4, <4>1, <5>1
        <4> QED
          BY <4>1, <4>2, <4>3
      <3>4. StrEnd(new, page) = f
        BY <1>2, <2>4, <2>7, <3>2, <3>3, StrEndIs
      <3> DEFINE t == CText(new, page)
      <3>5. t \in Seq(0 .. 255) /\ Len(t) = f - page /\ \A i \in 1 .. f - page : t[i] = new[page + i - 1]
        BY <1>2, <2>4, <2>7, <3>4, CTextFacts
      <3> DEFINE a == PageEnd - page + 1
      <3>6. a \in 1 .. f - page /\ a \in Nat /\ page + a - 1 = PageEnd /\ a - 1 = e - page /\ f - page - a = f - g
        BY <1>1, <2>1, <2>7, <3>1
      <3> HIDE DEF t, a
      <3>7. t[a] = QMARK
        BY <2>4, <3>5, <3>6
      <3> DEFINE x == SubSeq(t, 1, a - 1)
      <3> DEFINE y == SubSeq(t, a + 1, Len(t))
      <3>8. x \o <<t[a]>> \o y = t /\ x \in Seq(0 .. 255) /\ Len(x) = a - 1 /\ \A i \in 1 .. a - 1 : x[i] = t[i]
        <4>1. t \in Seq(Bytes) /\ a \in 1 .. Len(t)
          BY <3>5, <3>6 DEF Bytes
        <4>2. x \o <<t[a]>> \o y = t /\ x \in Seq(Bytes) /\ Len(x) = a - 1 /\ \A i \in 1 .. a - 1 : x[i] = t[i]
          BY <4>1, SplitBack
        <4> QED
          BY <4>2 DEF Bytes
      <3>9. y \in Seq(0 .. 255) /\ Len(y) = f - g /\ \A i \in 1 .. f - g : y[i] = t[a + i]
        <4>1. a \in 0 .. Len(t) /\ Len(t) - a = f - g
          BY <3>5, <3>6
        <4>2. y \in Seq(0 .. 255) /\ Len(y) = Len(t) - a /\ \A i \in 1 .. Len(t) - a : y[i] = t[a + i]
          BY <3>5, <4>1, RestFacts
        <4> QED
          BY <4>1, <4>2
      <3> HIDE DEF x, y
      <3>10. x = CText(buf, page)
        <4>1. ASSUME NEW i \in 1 .. e - page PROVE x[i] = CText(buf, page)[i]
          <5>1. i \in 1 .. f - page /\ page + i - 1 \in 0 .. INBUFFER /\ page + i - 1 # PageEnd
            BY <1>1, <2>1, <2>7, <3>1
          <5> QED
            BY <1>6, <2>4, <3>5, <3>6, <3>8, <5>1
        <4> QED
          BY <1>6, <3>6, <3>8, <4>1, SeqEqual
      <3>11. y = CText(buf, g)
        <4>1. ASSUME NEW i \in 1 .. f - g PROVE y[i] = CText(buf, g)[i]
          <5>1. /\ a + i \in 1 .. f - page /\ page + (a + i) - 1 = g + i - 1
                /\ g + i - 1 \in 0 .. INBUFFER /\ g + i - 1 # PageEnd
            BY <1>1, <2>1, <2>7, <3>6
          <5>2. y[i] = new[g + i - 1]
            BY <3>5, <3>9, <5>1
          <5> QED
            BY <2>4, <2>8, <5>1, <5>2
        <4> QED
          BY <2>8, <3>9, <4>1, SeqEqual
      <3> QED
        BY <1>7, <2>5, <2>8, <2>10, <3>5, <3>7, <3>8, <3>10, <3>11 DEF UriIs, t
    <2> QED
      BY <2>9, <2>10
  <1> QED
    BY <1>6, <1>7

(* What the lines ask for does not change while they stay.                 *)
LEMMA LinesKept ==
  ASSUME lines' = lines
  PROVE  /\ \A k : HttpVars(k)' = HttpVars(k) /\ ValueAt(k)' = ValueAt(k) /\ NamedTo(k)' = NamedTo(k)
         /\ \A k, x : GivingTo(k, x)' = GivingTo(k, x)
  <1>1. FieldLines' = FieldLines
    BY DEF FieldLines
  <1>2. \A k : FieldsTo(k)' = FieldsTo(k)
    BY <1>1 DEF FieldsTo
  <1>3. \A k : NamedTo(k)' = NamedTo(k)
    BY <1>2 DEF NamedTo
  <1>4. \A k : HttpVars(k)' = HttpVars(k)
    BY <1>3 DEF HttpVars
  <1>5. \A k, x : GivingTo(k, x)' = GivingTo(k, x)
    BY <1>2 DEF GivingTo
  <1>6. \A k : ValueAt(k)' = ValueAt(k)
    BY DEF ValueAt
  <1> QED
    BY <1>3, <1>4, <1>5, <1>6

(* One field more.                                                         *)
LEMMA HttpVarStep ==
  ASSUME CgiInv, CgiHttpVar
  PROVE  CgiInv'
  <1> DEFINE n == line_no
  <1> DEFINE text == lines[line_no + 1]
  <1> DEFINE at == CHOOSE i \in Colons(text) : \A j \in Colons(text) : i <= j
  <1> DEFINE name == EnvName(SubSeq(text, 1, at - 1))
  <1> DEFINE value == SubSeq(text, at + 2, Len(text))
  <1>1. /\ cgi = "http" /\ n < Len(lines) /\ line_no' = n + 1 /\ cgi' = cgi /\ lines' = lines /\ exec' = exec
        /\ cenv' = IF Colons(text) = {} THEN cenv ELSE SetEnv(cenv, [v \in {HttpVar(name)} |-> value])
    BY DEF CgiHttpVar
  <1>2. /\ lines \in Seq(Seq(0 .. 255)) /\ n \in 1 .. Len(lines) /\ FieldValues(n)
        /\ DOMAIN cenv = HttpVars(n) \cup {Var("SERVER_PROTOCOL")}
        /\ \A v \in DOMAIN cenv : cenv[v] \in Seq(0 .. 255)
    BY <1>1 DEF CgiInv
  <1>3. n \in Nat /\ Len(lines) \in Nat /\ n + 1 \in 2 .. Len(lines) /\ n + 1 \in 1 .. Len(lines)
    BY <1>1, <1>2
  <1>4. text \in Seq(0 .. 255)
    BY <1>2, <1>3, ElementOfSeq
  <1>5. /\ Colons(text) = {} => NameIn(text) = text
        /\ Colons(text) # {} => /\ at \in 1 .. Len(text) - 1 /\ NameIn(text) = SubSeq(text, 1, at - 1)
                                /\ Len(NameIn(text)) = at - 1 /\ NameIn(text) # text
    BY <1>4, NameFacts
  <1>6. /\ \A k : HttpVars(k)' = HttpVars(k) /\ ValueAt(k)' = ValueAt(k) /\ NamedTo(k)' = NamedTo(k)
        /\ \A k, x : GivingTo(k, x)' = GivingTo(k, x)
    BY <1>1, LinesKept
  <1>7. n + 1 \in FieldLines <=> Colons(text) # {}
    BY <1>3, <1>5 DEF FieldLines
  <1>8. FieldLines \subseteq Nat
    BY <1>3 DEF FieldLines
  <1>9. FieldsTo(n + 1) = FieldsTo(n) \cup (IF Colons(text) # {} THEN {n + 1} ELSE {})
    <2>1. \A k \in FieldLines : k <= n + 1 <=> k <= n \/ k = n + 1
      BY <1>3, <1>8
    <2>2. CASE Colons(text) # {}
      <3>1. n + 1 \in FieldLines /\ n + 1 <= n + 1
        BY <1>3, <1>7, <2>2
      <3> QED
        BY <2>1, <2>2, <3>1 DEF FieldsTo
    <2>3. CASE Colons(text) = {}
      <3>1. n + 1 \notin FieldLines
        BY <1>7, <2>3
      <3> QED
        BY <2>1, <2>3, <3>1 DEF FieldsTo
    <2> QED
      BY <2>2, <2>3
  <1>10. CASE Colons(text) = {}
    <2>1. FieldsTo(n + 1) = FieldsTo(n) /\ cenv' = cenv
      BY <1>1, <1>9, <1>10
    <2>2. NamedTo(n + 1) = NamedTo(n) /\ \A x : GivingTo(n + 1, x) = GivingTo(n, x)
      BY <2>1 DEF NamedTo, GivingTo
    <2>3. HttpVars(n + 1) = HttpVars(n)
      BY <2>2 DEF HttpVars
    <2>4. FieldValues(line_no)'
      BY <1>1, <1>2, <1>6, <2>1, <2>2 DEF FieldValues
    <2>5. DOMAIN cenv' = HttpVars(line_no)' \cup {Var("SERVER_PROTOCOL")}
      BY <1>1, <1>2, <1>6, <2>1, <2>3
    <2> QED
      BY <1>1, <1>2, <1>3, <2>1, <2>4, <2>5 DEF CgiInv
  <1>11. CASE Colons(text) # {}
    <2> HIDE DEF text, at
    <2>1. at \in 1 .. Len(text) - 1 /\ EnvName(NameIn(text)) = name /\ Len(text) \in Nat
      <3>1. at \in 1 .. Len(text) - 1 /\ NameIn(text) = SubSeq(text, 1, at - 1)
        BY <1>5, <1>11
      <3>2. EnvName(NameIn(text)) = name
        BY <3>1
      <3>3. Len(text) \in Nat
        BY <1>4
      <3> QED
        BY <3>1, <3>2, <3>3
    <2>2. value \in Seq(0 .. 255) /\ ValueAt(n + 1) = value
      <3>1. Len(NameIn(text)) + 3 = at + 2
        BY <1>5, <1>11, <2>1
      <3>2. ValueAt(n + 1) = value
        BY <3>1 DEF ValueAt, text
      <3>3. at + 1 \in 0 .. Len(text) /\ at + 1 + 1 = at + 2
        BY <2>1
      <3>4. value \in Seq(0 .. 255)
        BY <1>4, <3>3, RestFacts
      <3> QED
        BY <3>2, <3>4
    <2> DEFINE new == [v \in {HttpVar(name)} |-> value]
    <2> HIDE DEF name, value
    <2>3. /\ cenv' = SetEnv(cenv, new) /\ DOMAIN cenv' = DOMAIN cenv \cup {HttpVar(name)}
          /\ cenv'[HttpVar(name)] = value
          /\ \A v \in DOMAIN cenv : v # HttpVar(name) => cenv'[v] = cenv[v]
      <3>1. DOMAIN new = {HttpVar(name)} /\ new[HttpVar(name)] = value
        OBVIOUS
      <3>2. cenv' = SetEnv(cenv, new)
        BY <1>1, <1>11
      <3> HIDE DEF new
      <3>3. /\ DOMAIN SetEnv(cenv, new) = DOMAIN cenv \cup DOMAIN new
            /\ \A v \in DOMAIN new : SetEnv(cenv, new)[v] = new[v]
            /\ \A v \in DOMAIN cenv : v \notin DOMAIN new => SetEnv(cenv, new)[v] = cenv[v]
        BY SetEnvFacts
      <3> QED
        BY <3>1, <3>2, <3>3
    <2> HIDE DEF new
    <2>4. EnvName(NameIn(lines[n + 1])) = name
      BY <2>1 DEF text
    <2>5. NamedTo(n + 1) = NamedTo(n) \cup {name}
      BY <1>9, <1>11, <2>4 DEF NamedTo
    <2>6. HttpVars(n + 1) = HttpVars(n) \cup {HttpVar(name)}
      BY <2>5 DEF HttpVars
    <2>7. \A x : x # name => GivingTo(n + 1, x) = GivingTo(n, x)
      BY <1>9, <1>11, <2>4 DEF GivingTo
    <2>8. Latest(GivingTo(n + 1, name)) = n + 1
      <3> DEFINE S == GivingTo(n + 1, name)
      <3>1. n + 1 \in S /\ \A j \in S : j \in Nat /\ j <= n + 1
        BY <1>8, <1>9, <1>11, <1>3, <2>4 DEF GivingTo, FieldsTo
      <3> HIDE DEF S
      <3>2. \A k \in S : (\A j \in S : j <= k) => k = n + 1
        BY <1>3, <3>1
      <3>3. Latest(S) = n + 1
        BY <1>3, <3>1, <3>2 DEF Latest
      <3> QED
        BY <3>3 DEF S
    <2>9. \A x : HttpVar(x) = HttpVar(name) <=> x = name
      BY DEF HttpVar
    <2>10. ASSUME NEW x \in NamedTo(n + 1)
           PROVE  cenv'[HttpVar(x)] = ValueAt(Latest(GivingTo(n + 1, x)))
      <3>1. CASE x = name
        BY <2>2, <2>3, <2>8, <3>1
      <3>2. CASE x # name
        <4>1. x \in NamedTo(n)
          BY <2>5, <3>2
        <4>2. HttpVar(x) \in DOMAIN cenv /\ HttpVar(x) # HttpVar(name)
          BY <1>2, <2>9, <3>2, <4>1 DEF HttpVars
        <4> QED
          BY <1>2, <2>3, <2>7, <3>2, <4>1, <4>2 DEF FieldValues
      <3> QED
        BY <3>1, <3>2
    <2>11. FieldValues(line_no)'
      BY <1>1, <1>6, <2>10 DEF FieldValues
    <2>12. DOMAIN cenv' = HttpVars(line_no)' \cup {Var("SERVER_PROTOCOL")}
      BY <1>1, <1>2, <1>6, <2>3, <2>6
    <2>13. \A v \in DOMAIN cenv' : cenv'[v] \in Seq(0 .. 255)
      BY <1>2, <2>2, <2>3
    <2> QED
      BY <1>1, <1>2, <1>3, <2>11, <2>12, <2>13 DEF CgiInv
  <1> QED
    BY <1>10, <1>11

LEMMA CgiStartInv ==
  ASSUME Driven, CgiStart(ask.lines)
  PROVE  CgiInv'
  <1> DEFINE head == ask.lines
  <1>1. /\ cgi' = "http" /\ lines' = head /\ line_no' = 1 /\ cenv' = [v \in {Var("SERVER_PROTOCOL")} |-> head[1]]
    BY DEF CgiStart
  <1>2. head \in Seq(Seq(0 .. 255)) /\ head # <<>>
    BY DEF Driven, AskType
  <1> HIDE DEF head
  <1>3. Len(head) \in Nat /\ Len(head) >= 1 /\ 1 \in 1 .. Len(head)
    BY <1>2
  <1>4. head[1] \in Seq(0 .. 255)
    BY <1>2, <1>3, ElementOfSeq
  <1>5. FieldsTo(1)' = {}
    BY <1>1, <1>3 DEF FieldsTo, FieldLines
  <1>6. NamedTo(1)' = {}
    BY <1>5 DEF NamedTo
  <1>7. HttpVars(line_no)' = {} /\ FieldValues(line_no)'
    BY <1>1, <1>6 DEF HttpVars, FieldValues
  <1>8. DOMAIN cenv' = {Var("SERVER_PROTOCOL")} /\ \A v \in DOMAIN cenv' : cenv'[v] \in Seq(0 .. 255)
    BY <1>1, <1>4
  <1> QED
    BY <1>1, <1>2, <1>3, <1>7, <1>8 DEF CgiInv

LEMMA HttpDoneStep ==
  ASSUME CgiInv, CgiHttpDone
  PROVE  CgiInv'
  <1>1. /\ cgi = "http" /\ line_no = Len(lines) /\ cgi' = "vars" /\ lines' = lines /\ line_no' = line_no
        /\ cenv' = cenv
    BY DEF CgiHttpDone
  <1>2. /\ \A k : HttpVars(k)' = HttpVars(k) /\ ValueAt(k)' = ValueAt(k) /\ NamedTo(k)' = NamedTo(k)
        /\ \A k, x : GivingTo(k, x)' = GivingTo(k, x)
    BY <1>1, LinesKept
  <1>3. FieldValues(line_no)'
    BY <1>1, <1>2 DEF CgiInv, FieldValues
  <1>4. DOMAIN cenv' = HttpVars(line_no)' \cup {Var("SERVER_PROTOCOL")}
    BY <1>1, <1>2 DEF CgiInv
  <1> QED
    BY <1>1, <1>3, <1>4 DEF CgiInv

(* A variable of a field is none of the others.                            *)
PlainNames == {"SERVER_PROTOCOL", "SCRIPT_FILENAME", "DOCUMENT_ROOT", "SCRIPT_NAME", "REQUEST_URI",
               "QUERY_STRING", "SERVER_NAME", "CONTENT_LENGTH", "CONTENT_TYPE"}
LEMMA VarsDiffer ==
  /\ \A x : \A n \in PlainNames : HttpVar(x) # Var(n)
  /\ \A m, n \in PlainNames : Var(m) = Var(n) => m = n
  /\ \A x, y : HttpVar(x) = HttpVar(y) => x = y
  BY DEF HttpVar, Var, PlainNames

(* The fields keep their values when other variables are set.              *)
LEMMA FieldsKept ==
  ASSUME lines' = lines, line_no' = line_no, FieldValues(line_no), HttpVars(line_no) \subseteq DOMAIN cenv,
         NEW new, \A v \in DOMAIN new : \E n \in PlainNames : v = Var(n), cenv' = SetEnv(cenv, new)
  PROVE  FieldValues(line_no)'
  <1>1. /\ \A k : HttpVars(k)' = HttpVars(k) /\ ValueAt(k)' = ValueAt(k) /\ NamedTo(k)' = NamedTo(k)
        /\ \A k, x : GivingTo(k, x)' = GivingTo(k, x)
    BY LinesKept
  <1>2. ASSUME NEW x \in NamedTo(line_no) PROVE cenv'[HttpVar(x)] = cenv[HttpVar(x)]
    <2>1. HttpVar(x) \in DOMAIN cenv
      BY DEF HttpVars
    <2>2. HttpVar(x) \notin DOMAIN new
      BY VarsDiffer
    <2>3. \A v \in DOMAIN cenv : v \notin DOMAIN new => SetEnv(cenv, new)[v] = cenv[v]
      BY SetEnvFacts
    <2> QED
      BY <2>1, <2>2, <2>3
  <1> QED
    BY <1>1, <1>2 DEF FieldValues

LEMMA SetVarsStep ==
  ASSUME CgiInv, HeadInv, url # "idle", Strfile \in Seq(0 .. 255), basedir \in Seq(0 .. 255),
         CgiSetVars(Strfile, basedir), HeadStill
  PROVE  CgiInv'
  <1> DEFINE host == IF HttpVar(HOST) \in DOMAIN cenv THEN {Var("SERVER_NAME")} ELSE {}
  <1> DEFINE val(v) == CASE v = Var("SCRIPT_FILENAME") -> Strfile
                         [] v = Var("DOCUMENT_ROOT")   -> basedir
                         [] v = Var("SCRIPT_NAME")     -> CText(buf, page)
                         [] v = Var("SERVER_NAME")     -> cenv[HttpVar(HOST)]
                         [] v = Var("REQUEST_URI")     -> IF get_params = NULL THEN CText(buf, page) ELSE Rejoined(buf)
                         [] v = Var("QUERY_STRING")    -> IF get_params = NULL THEN <<>> ELSE CText(buf, get_params)
  <1> DEFINE new == [v \in FixedVars \cup host |-> val(v)]
  <1>1. /\ cgi = "vars" /\ cgi' = "length" /\ lines' = lines /\ line_no' = line_no
        /\ cenv' = SetEnv(cenv, new)
    BY DEF CgiSetVars
  <1>2. /\ lines \in Seq(Seq(0 .. 255)) /\ line_no \in 1 .. Len(lines) /\ FieldValues(line_no) /\ line_no = Len(lines)
        /\ DOMAIN cenv = HttpVars(line_no) \cup {Var("SERVER_PROTOCOL")}
        /\ \A v \in DOMAIN cenv : cenv[v] \in Seq(0 .. 255)
    BY <1>1 DEF CgiInv
  <1>3. /\ \A k : HttpVars(k)' = HttpVars(k) /\ ValueAt(k)' = ValueAt(k) /\ NamedTo(k)' = NamedTo(k)
        /\ \A k, x : GivingTo(k, x)' = GivingTo(k, x)
    BY <1>1, LinesKept
  <1>4. HttpVar(HOST) \in DOMAIN cenv <=> HOST \in NamedTo(line_no)
    <2>1. HttpVar(HOST) # Var("SERVER_PROTOCOL")
      BY VarsDiffer DEF PlainNames
    <2> QED
      BY <1>2, <2>1, VarsDiffer DEF HttpVars
  <1>5. host = HostVars(line_no)
    BY <1>4 DEF HostVars
  <1>6. DOMAIN new = FixedVars \cup host /\ \A v \in FixedVars \cup host : new[v] = val(v)
    OBVIOUS
  <1>7. \A v \in DOMAIN new : \E n \in PlainNames : v = Var(n)
    <2>1. FixedVars \cup host \subseteq {Var(n) : n \in PlainNames}
      BY DEF FixedVars, PlainNames
    <2> QED
      BY <1>6, <2>1
  <1>8. /\ CText(buf, page) \in Seq(0 .. 255)
        /\ get_params # NULL => Rejoined(buf) = UriIs /\ Rejoined(buf) \in Seq(0 .. 255)
                                /\ CText(buf, get_params) \in Seq(0 .. 255)
    BY RejoinIs
  <1>9. UriIs' = UriIs
    <2>1. buf' = buf /\ page' = page /\ page_len' = page_len /\ get_params' = get_params
      BY DEF HeadStill, headVars, urlVars
    <2> QED
      BY <2>1 DEF UriIs, PageLenStale
  <1>10. \A m, n \in PlainNames : Var(m) = Var(n) => m = n
    BY VarsDiffer
  <1>11. val(Var("REQUEST_URI")) = UriIs
    <2>1. val(Var("REQUEST_URI")) = IF get_params = NULL THEN CText(buf, page) ELSE Rejoined(buf)
      BY <1>10 DEF PlainNames
    <2>2. get_params = NULL => UriIs = CText(buf, page)
      BY DEF UriIs
    <2> QED
      BY <1>8, <2>1, <2>2
  <1>12. val(Var("SERVER_NAME")) = cenv[HttpVar(HOST)]
    BY <1>10 DEF PlainNames
  <1>13. ASSUME NEW v \in FixedVars \cup host PROVE val(v) \in Seq(0 .. 255)
    <2>1. v = Var("SERVER_NAME") => cenv[HttpVar(HOST)] \in Seq(0 .. 255)
      <3> SUFFICES ASSUME v = Var("SERVER_NAME") PROVE HttpVar(HOST) \in DOMAIN cenv
        BY <1>2
      <3>1. v \notin FixedVars
        BY <1>10 DEF FixedVars, PlainNames
      <3> QED
        BY <3>1
    <2>2. <<>> \in Seq(0 .. 255)
      OBVIOUS
    <2>3. v \in {Var("SCRIPT_FILENAME"), Var("DOCUMENT_ROOT"), Var("SCRIPT_NAME"), Var("REQUEST_URI"),
                 Var("QUERY_STRING"), Var("SERVER_NAME")}
      BY DEF FixedVars
    <2>4. CASE v = Var("SERVER_NAME")
      BY <1>12, <2>1, <2>4
    <2>5. CASE v = Var("REQUEST_URI")
      <3>1. val(Var("REQUEST_URI")) = IF get_params = NULL THEN CText(buf, page) ELSE Rejoined(buf)
        BY <1>10 DEF PlainNames
      <3> QED
        BY <1>8, <2>5, <3>1
    <2>6. CASE v = Var("QUERY_STRING")
      <3>1. val(Var("QUERY_STRING")) = IF get_params = NULL THEN <<>> ELSE CText(buf, get_params)
        BY <1>10 DEF PlainNames
      <3> QED
        BY <1>8, <2>2, <2>6, <3>1
    <2>7. CASE v \in {Var("SCRIPT_FILENAME"), Var("DOCUMENT_ROOT"), Var("SCRIPT_NAME")}
      <3>1. /\ val(Var("SCRIPT_FILENAME")) = Strfile /\ val(Var("DOCUMENT_ROOT")) = basedir
            /\ val(Var("SCRIPT_NAME")) = CText(buf, page)
        BY <1>10 DEF PlainNames
      <3> QED
        BY <1>8, <2>7, <3>1
    <2> QED
      BY <2>3, <2>4, <2>5, <2>6, <2>7
  <1> HIDE DEF new, val, host
  <1>14. /\ DOMAIN cenv' = DOMAIN cenv \cup DOMAIN new
         /\ \A v \in DOMAIN new : cenv'[v] = new[v]
         /\ \A v \in DOMAIN cenv : v \notin DOMAIN new => cenv'[v] = cenv[v]
    <2>1. /\ DOMAIN SetEnv(cenv, new) = DOMAIN cenv \cup DOMAIN new
          /\ \A v \in DOMAIN new : SetEnv(cenv, new)[v] = new[v]
          /\ \A v \in DOMAIN cenv : v \notin DOMAIN new => SetEnv(cenv, new)[v] = cenv[v]
      BY SetEnvFacts
    <2> QED
      BY <1>1, <2>1
  <1>15. FieldValues(line_no)'
    BY <1>1, <1>2, <1>7, FieldsKept
  <1>16. cenv'[Var("REQUEST_URI")] = UriIs'
    <2>1. Var("REQUEST_URI") \in FixedVars
      BY DEF FixedVars
    <2> QED
      BY <1>6, <1>9, <1>11, <1>14, <2>1
  <1>17. ASSUME HOST \in NamedTo(line_no)
         PROVE  cenv'[Var("SERVER_NAME")] = ValueAt(Latest(GivingTo(line_no, HOST)))
    <2>1. Var("SERVER_NAME") \in host
      BY <1>5, <1>17 DEF HostVars
    <2>2. cenv[HttpVar(HOST)] = ValueAt(Latest(GivingTo(line_no, HOST)))
      BY <1>2, <1>17 DEF FieldValues
    <2> QED
      BY <1>6, <1>12, <1>14, <2>1, <2>2
  <1>18. DOMAIN cenv' = (HttpVars(line_no) \cup {Var("SERVER_PROTOCOL")} \cup (FixedVars \cup HostVars(line_no)))'
    <2>1. HostVars(line_no)' = HostVars(line_no)
      BY <1>1, <1>3 DEF HostVars
    <2> QED
      BY <1>1, <1>2, <1>3, <1>5, <1>6, <1>14, <2>1 DEF FixedVars
  <1>19. \A v \in DOMAIN cenv' : cenv'[v] \in Seq(0 .. 255)
    BY <1>2, <1>6, <1>13, <1>14
  <1> QED
    BY <1>1, <1>2, <1>3, <1>15, <1>16, <1>17, <1>18, <1>19 DEF CgiInv

LEMMA LengthStep ==
  ASSUME CgiInv, CgiLength, HeadStill
  PROVE  CgiInv'
  <1> DEFINE both == {HttpVar(CLENGTH), HttpVar(CTYPE)} \subseteq DOMAIN cenv
  <1> DEFINE new == [v \in {Var("CONTENT_LENGTH"), Var("CONTENT_TYPE")} |->
                       cenv[HttpVar(IF v = Var("CONTENT_LENGTH") THEN CLENGTH ELSE CTYPE)]]
  <1>1. /\ cgi = "length" /\ cgi' = "exec" /\ lines' = lines /\ line_no' = line_no
        /\ cenv' = IF both THEN SetEnv(cenv, new) ELSE cenv
    BY DEF CgiLength
  <1>2. /\ lines \in Seq(Seq(0 .. 255)) /\ line_no \in 1 .. Len(lines) /\ FieldValues(line_no) /\ line_no = Len(lines)
        /\ DOMAIN cenv = HttpVars(line_no) \cup {Var("SERVER_PROTOCOL")} \cup (FixedVars \cup HostVars(line_no))
        /\ cenv[Var("REQUEST_URI")] = UriIs
        /\ HOST \in NamedTo(line_no) => cenv[Var("SERVER_NAME")] = ValueAt(Latest(GivingTo(line_no, HOST)))
        /\ \A v \in DOMAIN cenv : cenv[v] \in Seq(0 .. 255)
    BY <1>1 DEF CgiInv
  <1>3. /\ \A k : HttpVars(k)' = HttpVars(k) /\ ValueAt(k)' = ValueAt(k) /\ NamedTo(k)' = NamedTo(k)
        /\ \A k, x : GivingTo(k, x)' = GivingTo(k, x)
    BY <1>1, LinesKept
  <1>4. UriIs' = UriIs
    <2>1. buf' = buf /\ page' = page /\ page_len' = page_len /\ get_params' = get_params
      BY DEF HeadStill, headVars, urlVars
    <2> QED
      BY <2>1 DEF UriIs, PageLenStale
  <1>5. ASSUME NEW x PROVE HttpVar(x) \in DOMAIN cenv <=> x \in NamedTo(line_no)
    <2>1. \A n \in PlainNames : HttpVar(x) # Var(n)
      BY VarsDiffer
    <2>2. HttpVar(x) \notin {Var("SERVER_PROTOCOL")} \cup (FixedVars \cup HostVars(line_no))
      BY <2>1 DEF PlainNames, FixedVars, HostVars
    <2>3. HttpVar(x) \in HttpVars(line_no) <=> x \in NamedTo(line_no)
      BY VarsDiffer DEF HttpVars
    <2> QED
      BY <1>2, <2>2, <2>3
  <1>6. both <=> {CLENGTH, CTYPE} \subseteq NamedTo(line_no)
    BY <1>5
  <1>7. LengthVars(line_no)' = (IF both THEN {Var("CONTENT_LENGTH"), Var("CONTENT_TYPE")} ELSE {})
        /\ HostVars(line_no)' = HostVars(line_no)
    BY <1>1, <1>3, <1>6 DEF LengthVars, HostVars
  <1>8. CASE ~both
    <2>1. cenv' = cenv
      BY <1>1, <1>8
    <2>2. FieldValues(line_no)'
      BY <1>1, <1>2, <1>3, <2>1 DEF FieldValues
    <2>3. DOMAIN cenv' = HttpVars(line_no)' \cup {Var("SERVER_PROTOCOL")} \cup (FixedVars \cup HostVars(line_no)')
                         \cup LengthVars(line_no)'
      BY <1>1, <1>2, <1>3, <1>7, <1>8, <2>1
    <2> QED
      BY <1>1, <1>2, <1>3, <1>4, <2>1, <2>2, <2>3 DEF CgiInv, FixedVars
  <1>9. CASE both
    <2>1. DOMAIN new = {Var("CONTENT_LENGTH"), Var("CONTENT_TYPE")}
          /\ \A v \in DOMAIN new : new[v] = cenv[HttpVar(CLENGTH)] \/ new[v] = cenv[HttpVar(CTYPE)]
      OBVIOUS
    <2>2. cenv' = SetEnv(cenv, new)
      BY <1>1, <1>9
    <2>3. \A v \in DOMAIN new : new[v] \in Seq(0 .. 255)
      BY <1>2, <1>9, <2>1
    <2> HIDE DEF new
    <2>4. \A v \in DOMAIN new : \E n \in PlainNames : v = Var(n)
      BY <2>1 DEF PlainNames
    <2>5. /\ DOMAIN cenv' = DOMAIN cenv \cup DOMAIN new
          /\ \A v \in DOMAIN new : cenv'[v] = new[v]
          /\ \A v \in DOMAIN cenv : v \notin DOMAIN new => cenv'[v] = cenv[v]
      <3>1. /\ DOMAIN SetEnv(cenv, new) = DOMAIN cenv \cup DOMAIN new
            /\ \A v \in DOMAIN new : SetEnv(cenv, new)[v] = new[v]
            /\ \A v \in DOMAIN cenv : v \notin DOMAIN new => SetEnv(cenv, new)[v] = cenv[v]
        BY SetEnvFacts
      <3> QED
        BY <2>2, <3>1
    <2>6. FieldValues(line_no)'
      BY <1>1, <1>2, <2>2, <2>4, FieldsKept
    <2>7. Var("REQUEST_URI") \notin DOMAIN new /\ Var("SERVER_NAME") \notin DOMAIN new
      BY <2>1, VarsDiffer DEF PlainNames
    <2>8. cenv'[Var("REQUEST_URI")] = UriIs'
      <3>1. Var("REQUEST_URI") \in DOMAIN cenv
        BY <1>2 DEF FixedVars
      <3> QED
        BY <1>2, <1>4, <2>5, <2>7, <3>1
    <2>9. ASSUME HOST \in NamedTo(line_no)
          PROVE  cenv'[Var("SERVER_NAME")] = ValueAt(Latest(GivingTo(line_no, HOST)))
      <3>1. Var("SERVER_NAME") \in DOMAIN cenv
        BY <1>2, <2>9 DEF HostVars
      <3> QED
        BY <1>2, <2>5, <2>7, <2>9, <3>1
    <2>10. DOMAIN cenv' = HttpVars(line_no)' \cup {Var("SERVER_PROTOCOL")} \cup (FixedVars \cup HostVars(line_no)')
                         \cup LengthVars(line_no)'
      BY <1>1, <1>2, <1>3, <1>7, <1>9, <2>1, <2>5
    <2>11. \A v \in DOMAIN cenv' : cenv'[v] \in Seq(0 .. 255)
      BY <1>2, <2>3, <2>5
    <2> QED
      BY <1>1, <1>2, <1>3, <2>6, <2>8, <2>9, <2>10, <2>11 DEF CgiInv, FixedVars
  <1> QED
    BY <1>8, <1>9

(* The directory and the name of a script make its path.                   *)
LEMMA DirAndName ==
  ASSUME NEW s \in Seq(0 .. 255), HasSlash(s)
  PROVE  SubSeq(s, 1, LastSlash(s) - 1) \o <<SLASH>> \o SubSeq(s, LastSlash(s) + 1, Len(s)) = s
  <1> DEFINE n == Len(s)
  <1> DEFINE U == {i \in DOMAIN s : s[i] = SLASH}
  <1>1. n \in Nat /\ DOMAIN s = 1 .. n
    OBVIOUS
  <1> HIDE DEF n
  <1>2. U \subseteq 0 .. n /\ U # {}
    BY <1>1 DEF HasSlash
  <1> DEFINE a == Latest(U)
  <1>3. a \in U /\ \A j \in U : j <= a
    <2> HIDE DEF U
    <2> QED
      BY <1>1, <1>2, LatestIs
  <1> HIDE DEF a
  <1>4. a \in 1 .. n /\ s[a] = SLASH /\ \A j \in a + 1 .. n : s[j] # SLASH
    BY <1>1, <1>3
  <1>5. \E i \in DOMAIN s : s[i] = SLASH /\ \A j \in i + 1 .. Len(s) : s[j] # SLASH
    BY <1>1, <1>4 DEF n
  <1> DEFINE l == LastSlash(s)
  <1>6. l \in 1 .. n /\ s[l] = SLASH
    BY <1>1, <1>5 DEF LastSlash
  <1> HIDE DEF l
  <1>7. s \in Seq(Bytes) /\ l \in 1 .. Len(s)
    BY <1>6 DEF n, Bytes
  <1>8. SubSeq(s, 1, l - 1) \o <<s[l]>> \o SubSeq(s, l + 1, Len(s)) = s
    BY <1>7, SplitBack
  <1> QED
    BY <1>6, <1>8 DEF l

LEMMA CgiExecStep ==
  ASSUME CgiInv, CgiExecl(executor, Strfile), Strfile \in Seq(0 .. 255), HeadStill,
         basedir' = basedir, executor' = executor
  PROVE  CgiInv'
  <1>1. /\ cgi = "exec" /\ cgi' = "done" /\ lines' = lines /\ line_no' = line_no /\ cenv' = cenv
        /\ exec' = IF ~HasSlash(Strfile) THEN NoExec
                   ELSE [program |-> ProgramRun(executor, Strfile),
                         dir |-> SubSeq(Strfile, 1, LastSlash(Strfile) - 1),
                         file |-> SubSeq(Strfile, LastSlash(Strfile) + 1, Len(Strfile))]
    BY DEF CgiExecl
  <1>2. /\ \A k : HttpVars(k)' = HttpVars(k) /\ ValueAt(k)' = ValueAt(k) /\ NamedTo(k)' = NamedTo(k)
        /\ \A k, x : GivingTo(k, x)' = GivingTo(k, x)
    BY <1>1, LinesKept
  <1>3. buf' = buf /\ page' = page /\ page_len' = page_len /\ get_params' = get_params
    BY DEF HeadStill, headVars, urlVars
  <1>4. UriIs' = UriIs /\ Strfile' = Strfile
    BY <1>3 DEF UriIs, PageLenStale, Strfile
  <1>5. HostVars(line_no)' = HostVars(line_no) /\ LengthVars(line_no)' = LengthVars(line_no)
    BY <1>1, <1>2 DEF HostVars, LengthVars
  <1>6. FieldValues(line_no)'
    BY <1>1, <1>2 DEF CgiInv, FieldValues
  <1>7. ExecIs'
    <2> DEFINE f == Strfile
    <2> HIDE DEF f
    <2> SUFFICES ASSUME HasSlash(f)
                 PROVE  IF executor # <<>>
                        THEN exec'.program = executor /\ exec'.dir \o <<SLASH>> \o exec'.file = f
                        ELSE f[1] = SLASH => Seen(exec'.dir, exec'.program) = f
      BY <1>4 DEF ExecIs, f
    <2>1. /\ exec'.program = ProgramRun(executor, f) /\ exec'.dir = SubSeq(f, 1, LastSlash(f) - 1)
          /\ exec'.file = SubSeq(f, LastSlash(f) + 1, Len(f))
      BY <1>1 DEF f
    <2>2. exec'.dir \o <<SLASH>> \o exec'.file = f
      <3>1. f \in Seq(0 .. 255)
        BY DEF f
      <3> QED
        BY <2>1, <3>1, DirAndName
    <2> QED
      BY <2>1, <2>2 DEF ProgramRun, Seen
  <1>8. DOMAIN cenv' = HttpVars(line_no)' \cup {Var("SERVER_PROTOCOL")} \cup (FixedVars \cup HostVars(line_no)')
                       \cup LengthVars(line_no)'
    BY <1>1, <1>2, <1>5 DEF CgiInv
  <1> QED
    BY <1>1, <1>2, <1>4, <1>6, <1>7, <1>8 DEF CgiInv, FixedVars

LEMMA CgiStill ==
  ASSUME CgiInv, UNCHANGED cgiVars, cgi = "idle" \/ (HeadStill /\ basedir' = basedir /\ executor' = executor)
  PROVE  CgiInv'
  <1>1. cgi' = cgi /\ lines' = lines /\ line_no' = line_no /\ cenv' = cenv /\ exec' = exec
    BY DEF cgiVars
  <1>2. CASE cgi = "idle"
    BY <1>1, <1>2 DEF CgiInv
  <1>3. CASE cgi # "idle"
    <2>1. /\ \A k : HttpVars(k)' = HttpVars(k) /\ ValueAt(k)' = ValueAt(k) /\ NamedTo(k)' = NamedTo(k)
          /\ \A k, x : GivingTo(k, x)' = GivingTo(k, x)
      BY <1>1, LinesKept
    <2>2. buf' = buf /\ page' = page /\ page_len' = page_len /\ get_params' = get_params
      BY <1>3 DEF HeadStill, headVars, urlVars
    <2>3. UriIs' = UriIs /\ Strfile' = Strfile
      BY <1>3, <2>2 DEF UriIs, PageLenStale, Strfile
    <2>4. ExecIs' = ExecIs
      BY <1>1, <1>3, <2>3 DEF ExecIs
    <2>5. HostVars(line_no)' = HostVars(line_no) /\ LengthVars(line_no)' = LengthVars(line_no)
      BY <1>1, <2>1 DEF HostVars, LengthVars
    <2>6. FieldValues(line_no)' <=> FieldValues(line_no)
      BY <1>1, <2>1 DEF FieldValues
    <2> QED
      BY <1>1, <1>3, <2>1, <2>3, <2>4, <2>5, <2>6 DEF CgiInv, FixedVars
  <1> QED
    BY <1>2, <1>3

(* Every request has a base directory, a text from the configuration.      *)
Based == answer # "idle" => basedir \in Seq(0 .. 255)

LEMMA GetBasedirTyped ==
  ASSUME BootTyped, NEW host
  PROVE  GetBasedir(host) \in Seq(0 .. 255)
  <1> DEFINE dirs == {p[2] : p \in {q \in env : q[1] = host}}
  <1>1. conf["b"] \in Texted /\ env \subseteq Texted \X Texted
    BY DEF BootTyped, ConfTyped
  <1>2. \A d \in dirs : d \in Texted
    BY <1>1
  <1>3. GetBasedir(host) = IF ~conf.V \/ host \in {Unset, <<>>} \/ dirs = {} THEN conf.b ELSE CHOOSE d \in dirs : TRUE
    BY DEF GetBasedir
  <1> HIDE DEF dirs
  <1>4. GetBasedir(host) \in Texted
    BY <1>1, <1>2, <1>3
  <1> QED
    BY <1>4 DEF Texted, Bytes

(* Who changes the base directory and the executor.                        *)
LEMMA PathMoves ==
  ASSUME [Next]_vars
  PROVE  \/ Authenticate \/ Again \/ Script
         \/ basedir' = basedir /\ executor' = executor /\ (answer = "idle" => answer' = "idle")
  <1>1. CASE Boot \/ Connect \/ Inetd \/ Scan \/ Url \/ Auth \/ UNCHANGED vars \/ Cgi \/ Copy \/ List \/ PropertiesStep
    BY <1>1 DEF Boot, Connect, Inetd, NewConnection, Scan, Url, Auth, vars, pathVars, Cgi, Copy, List, PropertiesStep
  <1>2. CASE Refused \/ Missing \/ ScriptRun \/ FileSent \/ ListSent \/ PropertiesSent
    BY <1>2 DEF Refused, Missing, ScriptRun, FileSent, ListSent, PropertiesSent, Decided, Granted, Stay
  <1>3. CASE File \/ Directory \/ Properties
    BY <1>3 DEF File, Directory, Properties, Granted, Decided, Stay
  <1> QED
    BY <1>1, <1>2, <1>3 DEF Next

LEMMA BasedNext == Booted /\ Based /\ [Next]_vars => Based'
  <1> SUFFICES ASSUME Booted, Based, [Next]_vars PROVE Based'
    OBVIOUS
  <1>1. CASE Authenticate
    <2>1. PICK a \in Asks(plan.topic) : basedir' = GetBasedir(a.host)
      BY <1>1 DEF Authenticate
    <2> QED
      BY <2>1, GetBasedirTyped DEF Booted, Based
  <1>2. CASE Again
    BY <1>2 DEF Again, Based
  <1>3. CASE Script
    <2>1. answer = "dispatch" /\ basedir' = basedir
      BY <1>3 DEF Script, Granted, Decided, Stay
    <2> QED
      BY <2>1 DEF Based
  <1>4. CASE basedir' = basedir /\ (answer = "idle" => answer' = "idle")
    BY <1>4 DEF Based
  <1> QED
    BY <1>1, <1>2, <1>3, <1>4, PathMoves

LEMMA StrfileTyped ==
  ASSUME HeadInv, Flow, Based, answer # "idle"
  PROVE  Strfile \in Seq(0 .. 255) /\ basedir \in Seq(0 .. 255) /\ url # "idle"
  <1>1. url # "idle" /\ basedir \in Seq(0 .. 255)
    BY DEF Flow, Based
  <1>2. CText(buf, page) \in Seq(0 .. 255)
    BY <1>1, RejoinIs
  <1> DEFINE t == CText(buf, page)
  <1> HIDE DEF t
  <1>3. t \in Seq(Bytes) /\ basedir \in Seq(Bytes)
    BY <1>1, <1>2 DEF t, Bytes
  <1>4. basedir \o t \in Seq(Bytes)
    BY <1>3, ConcatProperties
  <1> QED
    BY <1>1, <1>4 DEF Strfile, t, Bytes

LEMMA CgiInvNext == CgiInv /\ HeadInv /\ Flow /\ Based /\ Driven /\ [Next]_vars => CgiInv'
  <1> SUFFICES ASSUME CgiInv, HeadInv, Flow, Based, Driven, [Next]_vars PROVE CgiInv'
    OBVIOUS
  <1>1. CASE Script
    BY <1>1, CgiStartInv DEF Script
  <1>2. CASE Cgi
    <2>1. /\ answer = "script" /\ CgiStep(executor, Strfile, basedir) /\ HeadStill
          /\ basedir' = basedir /\ executor' = executor
      BY <1>2 DEF Cgi, HeadStill, pathVars
    <2>2. Strfile \in Seq(0 .. 255) /\ basedir \in Seq(0 .. 255) /\ url # "idle"
      BY <2>1, StrfileTyped
    <2> QED
      BY <2>1, <2>2, HttpVarStep, HttpDoneStep, SetVarsStep, LengthStep, CgiExecStep DEF CgiStep
  <1>3. CASE Again
    BY <1>3 DEF Again, CgiReset, CgiInv
  <1>4. CASE UNCHANGED cgiVars /\ ~Again /\ ~Script
    <2>1. cgi # "idle" => answer \in {"script", "done"}
      BY DEF Flow
    <2>2. cgi = "idle" \/ HeadStill
      BY <1>4, <2>1, HeadMoves
    <2>3. Authenticate => answer = "idle"
      BY DEF Authenticate
    <2>4. cgi = "idle" \/ (HeadStill /\ basedir' = basedir /\ executor' = executor)
      BY <1>4, <2>1, <2>2, <2>3, PathMoves
    <2> QED
      BY <1>4, <2>4, CgiStill
  <1>5. UNCHANGED cgiVars \/ Script \/ Cgi \/ Again
    <2>1. CASE Boot \/ Connect \/ Inetd \/ Scan \/ Url \/ Authenticate \/ Auth \/ Refused \/ Missing
               \/ ScriptRun \/ FileSent \/ ListSent \/ PropertiesSent \/ UNCHANGED vars
      <3>1. UNCHANGED answerVars
        BY <2>1 DEF Boot, Connect, Inetd, NewConnection, Scan, Url, Authenticate, Auth, Refused, Missing,
                    ScriptRun, FileSent, ListSent, PropertiesSent, vars
      <3> QED
        BY <3>1 DEF answerVars
    <2>2. CASE File \/ Copy \/ Directory \/ List \/ Properties \/ PropertiesStep
      BY <2>2 DEF File, Copy, Directory, List, Properties, PropertiesStep
    <2> QED
      BY <2>1, <2>2 DEF Next
  <1> QED
    BY <1>1, <1>2, <1>3, <1>4, <1>5

(* All that holds of the worker between its steps.                         *)
WorkerInv == HeadInv /\ Driven /\ Flow /\ Booted /\ Based /\ PropInv /\ CgiInv

LEMMA WorkerInvHolds == Spec => []WorkerInv
  <1>1. Init => HeadInv /\ Based /\ PropInv /\ CgiInv
    <2> SUFFICES ASSUME Init PROVE HeadInv /\ Based /\ PropInv /\ CgiInv
      OBVIOUS
    <2>1. HeadInv
      BY ScanInitInv, UrlInitInv DEF Init, HeadInv
    <2>2. Based /\ CgiInv
      BY DEF Init, Based, CgiInit, CgiInv
    <2>3. PropInv
      BY PropInitInv DEF Init
    <2> QED
      BY <2>1, <2>2, <2>3
  <1>2. Init => WorkerInv
    BY <1>1, DrivenInit, FlowInit, BootedInit DEF WorkerInv
  <1>3. WorkerInv /\ [Next]_vars => WorkerInv'
    <2> SUFFICES ASSUME WorkerInv, [Next]_vars PROVE WorkerInv'
      OBVIOUS
    <2>1. HeadInv /\ Driven /\ Flow /\ Booted /\ Based /\ PropInv /\ CgiInv
      BY DEF WorkerInv
    <2>2. Driven' /\ [HeadNext]_<<headVars, urlVars>>
      BY <2>1, WorkerSteps DEF Parts
    <2>3. HeadInv'
      BY <2>1, <2>2, HeadInvNext
    <2> QED
      BY <2>1, <2>2, <2>3, FlowNext, BootedNext, BasedNext, PropInvNext, CgiInvNext DEF WorkerInv
  <1> QED
    BY <1>2, <1>3, PTL DEF Spec

(* A script is started where, by what and with what it was meant to be,    *)
(* for every request and every configuration: its environment is made of   *)
(* the fields of its own request and nothing else, REQUEST_URI is put      *)
(* together again from the decoded parts, and the directory and the name   *)
(* it gets make its path (cgi_execute_child and what it calls).            *)
THEOREM ScriptCorrect == Spec => []ScriptRight
  <1>1. WorkerInv => ScriptRight
    BY CgiRight DEF WorkerInv
  <1> QED
    BY <1>1, WorkerInvHolds, PTL
-----------------------------------------------------------------------------
(* Types.  What is left of them: where the worker is, and the environment  *)
(* while no script is started.                                             *)
PathTyped ==
  /\ answer \in {"idle", "dispatch", "file", "list", "script", "properties", "done"}
  /\ status \in {0, ByScript, ByTar, 200, 206, 207, 301, 303, 304, 400, 401, 403, 404, 416, 503}
  /\ conns \in 0 .. MaxConns /\ served \in 0 .. MaxAsked
  /\ cgi = "idle" => line_no = 0 /\ lines = <<>> /\ cenv = <<>>

LEMMA PathTypedNext ==
  ASSUME PathTyped, RangeInv, PropInv, [Next]_vars
  PROVE  PathTyped'
  <1> USE DEF ByScript, ByTar
  <1>1. CASE Boot \/ Scan \/ Url \/ Auth \/ Copy \/ List \/ PropertiesStep \/ UNCHANGED vars
    <2>1. UNCHANGED <<answer, status, conns, served>> /\ UNCHANGED cgiVars
      BY <1>1 DEF Boot, Scan, Url, Auth, Copy, List, PropertiesStep, vars, pathVars, answerVars
    <2> QED
      BY <2>1 DEF PathTyped, cgiVars
  <1>2. CASE Connect \/ Inetd
    <2>1. /\ conns < MaxConns /\ conns' = conns + 1
          /\ UNCHANGED <<answer, status, served>> /\ UNCHANGED cgiVars
      BY <1>2 DEF Connect, Inetd, NewConnection, answerVars
    <2>2. conns' \in 0 .. MaxConns
      BY <2>1, MaxConnsNat DEF PathTyped
    <2> QED
      BY <2>1, <2>2 DEF PathTyped, cgiVars
  <1>3. CASE Authenticate \/ File \/ Properties
    <2>1. /\ answer' \in {"dispatch", "file", "properties"}
          /\ UNCHANGED <<status, conns, served>> /\ UNCHANGED cgiVars
      BY <1>3 DEF Authenticate, File, Properties, Stay, answerVars
    <2> QED
      BY <2>1 DEF PathTyped, cgiVars
  <1>4. CASE Refused \/ Missing \/ ScriptRun \/ ListSent
    <2>1. /\ answer' = "done" /\ status' \in {401, 404, ByScript, 503, 200}
          /\ UNCHANGED <<conns, served>> /\ UNCHANGED cgiVars
      BY <1>4 DEF Refused, Missing, ScriptRun, ListSent, Answer, Stay, answerVars
    <2> QED
      BY <2>1 DEF PathTyped, cgiVars
  <1>5. CASE FileSent \/ PropertiesSent
    <2>1. /\ answer' = "done" /\ status' \in {http_code, dav_code}
          /\ UNCHANGED <<conns, served>> /\ UNCHANGED cgiVars
      BY <1>5 DEF FileSent, PropertiesSent, Answer, Stay, answerVars
    <2>2. http_code \in {0, 200, 206, 304, 400, 416} /\ dav_code \in {0, 207, 301, 400, 403, 404}
      BY DEF RangeInv, RangeTypeOK, PropInv, PropTyped, PropTypeOK
    <2> QED
      BY <2>1, <2>2 DEF PathTyped, cgiVars
  <1>6. CASE Directory
    <2>1. /\ answer' \in {"done", "list"} /\ status' \in {ByTar, 301, 303, 304, status}
          /\ UNCHANGED <<conns, served>> /\ UNCHANGED cgiVars
      BY <1>6 DEF Directory, Answer, Stay
    <2> QED
      BY <2>1 DEF PathTyped, cgiVars
  <1>7. CASE Script
    BY <1>7 DEF Script, Stay, CgiStart, PathTyped
  <1>8. CASE Cgi
    <2>1. UNCHANGED <<answer, status, conns, served>> /\ cgi' # "idle"
      BY <1>8 DEF Cgi, pathVars, CgiStep, CgiHttpVar, CgiHttpDone, CgiSetVars, CgiLength, CgiExecl
    <2> QED
      BY <2>1 DEF PathTyped
  <1>9. CASE Again
    <2>1. /\ served < MaxAsked /\ served' = served + 1 /\ conns' = conns
          /\ answer' = "idle" /\ status' = 0
          /\ line_no' = 0 /\ lines' = <<>> /\ cenv' = <<>>
      BY <1>9 DEF Again, CgiReset
    <2>2. served' \in 0 .. MaxAsked
      BY <2>1, MaxAskedNat DEF PathTyped
    <2> QED
      BY <2>1, <2>2 DEF PathTyped
  <1> QED
    BY <1>1, <1>2, <1>3, <1>4, <1>5, <1>6, <1>7, <1>8, <1>9 DEF Next

LEMMA PartsTyped ==
  ASSUME WorkerInv, AuthInv, RangeInv, ListInv, PathTyped
  PROVE  PathTypeOK
  <1>1. BootTypeOK /\ ScanTypeOK /\ UrlTypeOK /\ PropTypeOK
    BY DEF WorkerInv, Booted, BootTyped, HeadInv, ScanInv, ScanTyped, UrlInv, PropInv, PropTyped
  <1>2. EnvTypeOK
    <2>1. CASE cgi = "idle"
      BY <2>1 DEF PathTyped, EnvTypeOK
    <2>2. CASE cgi # "idle"
      <3>1. CgiInv
        BY DEF WorkerInv
      <3>2. Len(lines) \in Nat /\ line_no \in 1 .. Len(lines)
        BY <2>2, <3>1 DEF CgiInv
      <3> QED
        BY <2>2, <3>1, <3>2 DEF CgiInv, EnvTypeOK
    <2> QED
      BY <2>1, <2>2
  <1> QED
    BY <1>1, <1>2 DEF PathTypeOK, PathTyped, AuthInv, RangeInv, ListInv

(* Every variable of the worker keeps its type: no index leaves its buffer,*)
(* no length its word, and no answer has a code other than the ones the    *)
(* handlers send.                                                          *)
THEOREM PathTypeCorrect == Spec => []PathTypeOK
  <1>1. Init => AuthInv /\ RangeInv /\ ListInv /\ PathTyped
    BY AuthInitInv, RangeInitInv, ListInitInv, MaxConnsNat, MaxAskedNat DEF Init, CgiInit, PathTyped
  <1>2. /\ WorkerInv /\ AuthInv /\ RangeInv /\ ListInv /\ PathTyped /\ [Next]_vars
        => (AuthInv /\ RangeInv /\ ListInv /\ PathTyped)'
    <2> SUFFICES ASSUME WorkerInv, AuthInv, RangeInv, ListInv, PathTyped, [Next]_vars
                 PROVE  (AuthInv /\ RangeInv /\ ListInv /\ PathTyped)'
      OBVIOUS
    <2>1. HeadInv /\ Driven /\ PropInv
      BY DEF WorkerInv
    <2>2. [AuthNext]_authVars /\ [RangeNext]_rangeVars /\ [ListNext]_listVars
      BY <2>1, WorkerSteps DEF Parts
    <2> QED
      BY <2>1, <2>2, AuthNextInv, RangeNextInv, ListNextInv, PathTypedNext
  <1>3. WorkerInv /\ AuthInv /\ RangeInv /\ ListInv /\ PathTyped => PathTypeOK
    BY PartsTyped
  <1> QED
    BY <1>1, <1>2, <1>3, WorkerInvHolds, PTL DEF Spec
-----------------------------------------------------------------------------
(* What serves a request.                                                  *)

(* Before the page lies the NUL that ended the method, then only blanks.   *)
MethodCut(mem, p) == \E s \in 0 .. p - 1 : mem[s] = NUL /\ \A j \in s + 1 .. p - 1 : mem[j] = SP
FrontCut == scan = "parsed" => MethodCut(buf, page)

LEMMA TokenizeCuts ==
  ASSUME ScanInv, Tokenize, scan' = "parsed"
  PROVE  MethodCut(buf', page')
  <1> DEFINE stop == TokenEnd(buf, 0)
  <1> DEFINE start == Skip(buf, stop)
  <1> DEFINE last == TokenEnd(buf, start)
  <1> DEFINE q == end + 2
  <1>0. /\ INBUFFER \in Nat /\ q \in Nat /\ q <= INBUFFER
        /\ buf[q] = NUL /\ buf \in Memory /\ scan = "head" /\ DOMAIN buf = 0 .. INBUFFER
    BY InbufferPositive DEF ScanInv, ScanTyped, ScanTypeOK, HeadCut, Tokenize, Memory
  <1>1. /\ page' = start /\ start # stop
        /\ buf' = [buf EXCEPT ![stop] = NUL, ![last] = NUL]
    BY DEF Tokenize
  <1> HIDE DEF q
  <1>2. ASSUME NEW p \in 0 .. q
        PROVE  /\ TokenEnd(buf, p) \in p .. q /\ Skip(buf, p) \in p .. q
               /\ \A j \in p .. Skip(buf, p) - 1 : buf[j] = SP
    <2>1. p \in 0 .. INBUFFER /\ q \in p .. INBUFFER
      BY <1>0
    <2>2. StrEnd(buf, p) \in p .. q /\ buf[StrEnd(buf, p)] = NUL
      BY <1>0, <2>1, StrEndFacts
    <2>3. StrEnd(buf, p) \in p .. INBUFFER
      BY <1>0, <2>1, <2>2
    <2>4. /\ TokenEnd(buf, p) \in p .. StrEnd(buf, p) /\ Skip(buf, p) \in p .. StrEnd(buf, p)
          /\ \A j \in p .. Skip(buf, p) - 1 : buf[j] = SP
      BY <1>0, <2>1, <2>2, <2>3, TokenFacts
    <2> QED
      BY <1>0, <2>1, <2>2, <2>4
  <1>3. stop \in 0 .. q
    BY <1>0, <1>2
  <1> HIDE DEF stop
  <1>4. start \in stop .. q /\ \A j \in stop .. start - 1 : buf[j] = SP
    BY <1>2, <1>3
  <1>5. start \in 0 .. q
    BY <1>0, <1>3, <1>4
  <1> HIDE DEF start
  <1>6. last \in start .. q
    BY <1>2, <1>5
  <1> HIDE DEF last
  <1>7. stop \in 0 .. start - 1 /\ buf'[stop] = NUL
    BY <1>0, <1>1, <1>3, <1>4, <1>5, <1>6
  <1>8. ASSUME NEW j \in stop + 1 .. start - 1 PROVE buf'[j] = SP
    <2>1. j \in 0 .. INBUFFER /\ j # stop /\ j # last /\ j \in stop .. start - 1
      BY <1>0, <1>3, <1>4, <1>5, <1>6
    <2> QED
      BY <1>0, <1>1, <1>4, <2>1
  <1> QED
    BY <1>1, <1>7, <1>8 DEF MethodCut

LEMMA FrontCutNext ==
  ASSUME HeadInv, HeadInv', FrontCut, [HeadNext]_<<headVars, urlVars>>
  PROVE  FrontCut'
  <1>1. CASE \E text \in Seq(0 .. 255), slow \in BOOLEAN : Accept(text, slow) /\ UNCHANGED urlVars
    BY <1>1 DEF Accept, FrontCut
  <1>2. CASE ScanStep
    <2>1. CASE Tokenize
      BY <2>1, TokenizeCuts DEF HeadInv, FrontCut
    <2>2. CASE ScanStart \/ ScanRead \/ ScanEnd
      <3>1. scan' # "parsed"
        BY <2>2 DEF ScanStart, ScanRead, ScanEnd
      <3> QED
        BY <3>1 DEF FrontCut
    <2> QED
      BY <1>2, <2>1, <2>2 DEF ScanStep
  <1>3. CASE UrlStep
    <2>1. /\ scan' = scan /\ page' = page /\ scan = "parsed" /\ url' # "idle"
          /\ (url = "idle" /\ raw' = buf) \/ (url # "idle" /\ raw' = raw)
      <3>1. /\ scan' = scan /\ page' = page /\ url' # "idle"
            /\ (scan = "parsed" /\ url = "idle" /\ raw' = buf) \/ (url # "idle" /\ raw' = raw)
        BY <1>3 DEF UrlStep, SplitGetParams, Escape, CutParent, ParamsDone
      <3>2. url # "idle" => scan = "parsed"
        BY DEF HeadInv, ScanInv, HeadCut
      <3> QED
        BY <3>1, <3>2
    <2>2. \A i \in 0 .. INBUFFER : i < page => buf'[i] = raw'[i]
      BY <2>1 DEF HeadInv, UrlInv, InUrl
    <2>3. \A i \in 0 .. INBUFFER : i < page => raw'[i] = buf[i]
      BY <2>1 DEF HeadInv, UrlInv, InUrl
    <2>4. INBUFFER \in Nat /\ page \in NULL .. INBUFFER
      BY InbufferPositive DEF HeadInv, ScanInv, ScanTyped, ScanTypeOK
    <2>5. PICK s \in 0 .. page - 1 : buf[s] = NUL /\ \A j \in s + 1 .. page - 1 : buf[j] = SP
      BY <2>1 DEF FrontCut, MethodCut
    <2>6. ASSUME NEW i \in 0 .. page - 1 PROVE buf'[i] = buf[i]
      <3>1. i \in 0 .. INBUFFER /\ i < page
        BY <2>4 DEF NULL
      <3> QED
        BY <2>2, <2>3, <3>1
    <2>7. buf'[s] = NUL /\ \A j \in s + 1 .. page - 1 : buf'[j] = SP
      <3>1. \A j \in s + 1 .. page - 1 : j \in 0 .. page - 1
        BY <2>4 DEF NULL
      <3> QED
        BY <2>5, <2>6, <3>1
    <2> QED
      BY <2>1, <2>7 DEF FrontCut, MethodCut
  <1>4. CASE \E keep \in BOOLEAN : NextRequest(keep) /\ UrlReset
    BY <1>4 DEF NextRequest, FrontCut
  <1>5. CASE UNCHANGED <<headVars, urlVars>>
    BY <1>5 DEF headVars, FrontCut
  <1> QED
    BY <1>1, <1>2, <1>3, <1>4, <1>5 DEF HeadNext

(* endsWith, at the place where the extension should start, finds what the *)
(* page ends in.                                                           *)
LEMMA EndFound ==
  ASSUME HeadInv, FrontCut, url # "idle", ~PageLenStale, NEW ext \in Seq(0 .. 255), ext[1] # SP
  PROVE  LET at == page + page_len - Len(ext)
         IN  (at >= 0 /\ EndsWith(buf, at, ext)) <=> PageEnds(ext)
  <1> DEFINE t == CText(buf, page)
  <1> DEFINE n == page_len
  <1> DEFINE E == StrEnd(buf, page)
  <1> DEFINE m == Len(ext)
  <1> DEFINE at == page + n - m
  <1> DEFINE c == CText(buf, at)
  <1>1. /\ INBUFFER \in Nat /\ page \in Nat /\ n \in Nat /\ m \in Nat /\ buf \in Memory
        /\ page + n <= INBUFFER /\ buf[page + n] = NUL /\ scan = "parsed"
    BY UrlBounds DEF HeadInv
  <1>2. page \in 0 .. INBUFFER /\ page + n \in page .. INBUFFER
    BY <1>1
  <1>3. /\ E = page + n /\ \A j \in page .. E - 1 : buf[j] # NUL
        /\ t = [i \in 1 .. n |-> buf[page + i - 1]]
    <2>1. E \in page .. page + n /\ \A j \in page .. E - 1 : buf[j] # NUL
      BY <1>1, <1>2, StrEndFacts
    <2>2. n = E - page
      BY DEF PageLenStale, StrLen
    <2>3. E = page + n
      BY <1>1, <2>1, <2>2
    <2> QED
      BY <2>1, <2>2, <2>3 DEF CText, StrLen
  <1>4. PageEnds(ext) <=> m <= Len(t) /\ SubSeq(t, Len(t) - m + 1, Len(t)) = ext
    BY DEF PageEnds
  <1>5. ASSUME NEW i \in 1 .. n PROVE buf[page + i - 1] \in 0 .. 255
    <2>1. page + i - 1 \in 0 .. INBUFFER
      BY <1>1
    <2> QED
      BY <1>1, <2>1 DEF Memory
  <1>6. t \in Seq(0 .. 255) /\ Len(t) = n
    BY <1>1, <1>3, <1>5
  <1>7. EndsWith(buf, at, ext) <=> c = ext
    BY DEF EndsWith
  <1> HIDE DEF t, c, n, m
  <1>8. CASE m <= n
    <2>1. at \in page .. E /\ at >= 0 /\ at \in 0 .. INBUFFER /\ E \in at .. INBUFFER /\ at + m = E
      BY <1>1, <1>3, <1>8
    <2> HIDE DEF at, E
    <2>2. StrEnd(buf, at) = E
      <3>1. at \in page .. StrEnd(buf, page)
        BY <2>1 DEF E
      <3> QED
        BY <1>1, <1>2, <3>1, StrEndWithin DEF E
    <2>3. E - at = m
      BY <1>1, <2>1
    <2>4. c = [i \in 1 .. m |-> buf[at + i - 1]]
      BY <2>2, <2>3 DEF c, CText, StrLen
    <2>5. SubSeq(t, n - m + 1, n) = c
      <3> DEFINE u == SubSeq(t, n - m + 1, n)
      <3>1. n - m + 1 \in 1 .. Len(t) + 1 /\ n \in 0 .. Len(t) /\ n - m + 1 <= n + 1
        BY <1>1, <1>6, <1>8
      <3>2. u \in Seq(0 .. 255) /\ Len(u) = n - (n - m + 1) + 1 /\ \A i \in 1 .. n - (n - m + 1) + 1 : u[i] = t[n - m + 1 + i - 1]
        BY <1>6, <3>1, SubSeqProperties
      <3>3. n - (n - m + 1) + 1 = m
        BY <1>1
      <3>4. u = [i \in 1 .. m |-> u[i]]
        BY <3>2, <3>3, SMTT(60)
      <3>5. ASSUME NEW i \in 1 .. m PROVE u[i] = c[i]
        <4>1. n - m + 1 + i - 1 \in 1 .. n /\ page + (n - m + 1 + i - 1) - 1 = at + i - 1
          BY <1>1, <1>8 DEF at
        <4>2. u[i] = t[n - m + 1 + i - 1]
          BY <3>2, <3>3
        <4> QED
          BY <1>3, <2>4, <4>1, <4>2
      <3> QED
        BY <2>4, <3>4, <3>5
    <2>6. PageEnds(ext) <=> c = ext
      BY <1>4, <1>6, <1>8, <2>5
    <2> QED
      BY <1>7, <2>1, <2>6 DEF at, m, n
  <1>9. CASE m > n
    <2>1. ~PageEnds(ext)
      BY <1>1, <1>4, <1>6, <1>9
    <2>2. ASSUME at >= 0 PROVE c # ext
      <3>1. at \in 0 .. page - 1 /\ at \in 0 .. INBUFFER
        BY <1>1, <1>9, <2>2
      <3>2. PICK s \in 0 .. page - 1 : buf[s] = NUL /\ \A j \in s + 1 .. page - 1 : buf[j] = SP
        BY <1>1 DEF FrontCut, MethodCut
      <3>3. CASE at <= s
        <4>1. s \in at .. INBUFFER
          BY <1>1, <3>1, <3>2, <3>3
        <4>2. StrEnd(buf, at) \in at .. s
          BY <1>1, <3>1, <3>2, <4>1, StrEndFacts
        <4>3. StrLen(buf, at) \in 0 .. s - at
          BY <1>1, <3>1, <3>2, <4>2 DEF StrLen
        <4>4. Len(c) = StrLen(buf, at)
          BY <4>3, <3>1 DEF c, CText
        <4>5. m > s - at
          BY <1>1, <3>1, <3>2
        <4> QED
          BY <1>1, <3>1, <3>2, <4>3, <4>4, <4>5 DEF m
      <3>4. CASE at > s
        <4>1. buf[at] = SP
          BY <1>1, <3>1, <3>2, <3>4
        <4>2. SUFFICES ASSUME c = ext PROVE FALSE
          OBVIOUS
        <4>3. 1 \in DOMAIN ext
          BY <1>1, <1>9 DEF m
        <4>4. 1 \in 1 .. StrLen(buf, at) /\ ext[1] = buf[at + 1 - 1]
          BY <4>2, <4>3 DEF c, CText
        <4>5. at + 1 - 1 = at
          BY <3>1
        <4> QED
          BY <4>1, <4>4, <4>5
      <3> QED
        BY <1>1, <3>1, <3>2, <3>3, <3>4
    <2> QED
      BY <1>7, <2>1, <2>2 DEF m, n
  <1> QED
    BY <1>1, <1>8, <1>9

(* Where a host is named in a list, byte by byte.                          *)
LEMMA PieceIs ==
  ASSUME NEW list \in Seq(0 .. 255), NEW m \in 1 .. Len(list) + 1, NEW n \in m - 1 .. Len(list)
  PROVE  BytesOf(SubSeq(list, m, n), n - m + 1, list, m)
  <1>1. m \in Int /\ n \in Int /\ n - m + 1 \in Nat /\ \A i \in m .. n : i \in 1 .. Len(list)
    OBVIOUS
  <1>2. \A i \in m .. n : list[i] \in Bytes
    BY <1>1, ElementOfSeq DEF Bytes
  <1>3. /\ SubSeq(list, m, n) \in Seq(Bytes)
        /\ Len(SubSeq(list, m, n)) = IF m <= n THEN n - m + 1 ELSE 0
        /\ \A i \in 1 .. n - m + 1 : SubSeq(list, m, n)[i] = list[m + i - 1]
    BY <1>1, <1>2, SubSeqProperties
  <1>4. n - m + 1 = IF m <= n THEN n - m + 1 ELSE 0
    BY <1>1
  <1> QED
    BY <1>3, <1>4 DEF BytesOf, Bytes

LEMMA BytesEqual ==
  ASSUME NEW n, NEW s, NEW t, NEW x, NEW y, NEW p, NEW q, BytesOf(s, n, x, p), BytesOf(t, n, y, q),
         \A i \in 1 .. n : x[p + i - 1] = y[q + i - 1]
  PROVE  s = t
  <1>1. s \in Seq(Bytes) /\ t \in Seq(Bytes) /\ Len(s) = Len(t) /\ \A i \in 1 .. Len(s) : s[i] = t[i]
    BY DEF BytesOf, Bytes
  <1> QED
    BY <1>1, SeqEqual

NamedAt(list, host, i) ==
  /\ i \in 1 .. Len(list) - Len(host) /\ (i = 1 \/ list[i - 1] = COMMA)
  /\ Occurs(list, i, host) /\ list[i + Len(host)] = EQUALS

LEMMA StartsIs ==
  ASSUME NEW list \in Seq(0 .. 255), NEW host \in Seq(0 .. 255), NEW i
  PROVE  i \in Starts(list, host) <=> NamedAt(list, host, i)
  <1> DEFINE h == Len(host)
  <1> DEFINE pat == host \o <<EQUALS>>
  <1>1. h \in Nat /\ Len(list) \in Nat
    OBVIOUS
  <1>2. /\ pat \in Seq(0 .. 255) /\ Len(pat) = h + 1
        /\ \A k \in 1 .. h + 1 : pat[k] = IF k <= h THEN host[k] ELSE EQUALS
    <2>1. host \in Seq(Bytes) /\ <<EQUALS>> \in Seq(Bytes) /\ Len(<<EQUALS>>) = 1 /\ <<EQUALS>>[1] = EQUALS
      BY DEF Bytes, EQUALS
    <2>2. /\ pat \in Seq(Bytes) /\ Len(pat) = h + 1
          /\ \A k \in 1 .. h + 1 : pat[k] = IF k <= h THEN host[k] ELSE <<EQUALS>>[k - h]
      BY <2>1, ConcatProperties
    <2>3. \A k \in 1 .. h + 1 : ~(k <= h) => k - h = 1
      BY <1>1
    <2> QED
      BY <2>1, <2>2, <2>3 DEF Bytes
  <1> HIDE DEF pat
  <1>3. SUFFICES ASSUME i \in 1 .. Len(list) - h
                 PROVE  SubSeq(list, i, i + h) = pat <=> Occurs(list, i, host) /\ list[i + h] = EQUALS
    BY DEF Starts, NamedAt, pat
  <1>4. i \in 1 .. Len(list) - Len(pat) + 1 /\ i + Len(pat) - 1 = i + h
    BY <1>1, <1>2, <1>3
  <1>5. SubSeq(list, i, i + h) = pat <=> Occurs(list, i, pat)
    <2>1. SubSeq(list, i, i + Len(pat) - 1) = pat <=> Occurs(list, i, pat)
      BY <1>2, <1>4, SubSeqOccurs, Zenon
    <2> QED
      BY <1>4, <2>1, Zenon
  <1>6. Occurs(list, i, pat) <=> \A k \in 1 .. h + 1 : list[i + k - 1] = pat[k]
    BY <1>2 DEF Occurs
  <1>7. (\A k \in 1 .. h + 1 : list[i + k - 1] = pat[k]) <=> Occurs(list, i, host) /\ list[i + h] = EQUALS
    <2>1. \A k \in 1 .. h + 1 : (k \in 1 .. h /\ k <= h) \/ (k = h + 1 /\ ~(k <= h))
      BY <1>1
    <2>2. i + (h + 1) - 1 = i + h /\ h + 1 \in 1 .. h + 1 /\ ~(h + 1 <= h)
      BY <1>1, <1>3
    <2>3. \A k \in 1 .. h : k \in 1 .. h + 1 /\ k <= h
      BY <1>1
    <2> HIDE DEF h
    <2>4. \A k \in 1 .. h : pat[k] = host[k]
      BY <1>2, <2>3
    <2>5. pat[h + 1] = EQUALS
      BY <1>2, <2>2
    <2>6. ASSUME \A k \in 1 .. h + 1 : list[i + k - 1] = pat[k]
          PROVE  Occurs(list, i, host) /\ list[i + h] = EQUALS
      BY <2>2, <2>3, <2>4, <2>5, <2>6 DEF Occurs, h
    <2>7. ASSUME Occurs(list, i, host), list[i + h] = EQUALS, NEW k \in 1 .. h + 1
          PROVE  list[i + k - 1] = pat[k]
      <3>1. CASE k \in 1 .. h
        BY <2>4, <2>7, <3>1 DEF Occurs, h
      <3>2. CASE k = h + 1
        BY <2>2, <2>5, <2>7, <3>2
      <3> QED
        BY <2>1, <3>1, <3>2
    <2> QED
      BY <2>6, <2>7
  <1> QED
    BY <1>5, <1>6, <1>7

(* An item of a list of hosts: between two edges and without a comma.      *)
ItemAt(list, a, b) ==
  /\ a \in 0 .. Len(list) /\ b \in 1 .. Len(list) + 1 /\ a < b
  /\ a = 0 \/ list[a] = COMMA
  /\ b = Len(list) + 1 \/ list[b] = COMMA
  /\ \A j \in a + 1 .. b - 1 : list[j] # COMMA
ValueOf(item_) == SubSeq(item_, SplitAt(item_) + 1, Len(item_))
DirAt(list, host, i) == Before(SubSeq(list, i + Len(host) + 1, Len(list)), <<COMMA>>)

ItemIs(it, list, a, b) == it = SubSeq(list, a + 1, b - 1)

LEMMA ItemSplit ==
  ASSUME NEW list \in Seq(0 .. 255), Keyed(list), NEW a, NEW b, ItemAt(list, a, b),
         NEW it, ItemIs(it, list, a, b)
  PROVE  /\ BytesOf(it, b - a - 1, list, a + 1)
         /\ Splits(it) # {} /\ SplitAt(it) \in 1 .. b - a - 1 /\ it[SplitAt(it)] = EQUALS
         /\ \A j \in 1 .. SplitAt(it) - 1 : it[j] # EQUALS
         /\ BytesOf(Key(it), SplitAt(it) - 1, list, a + 1)
         /\ BytesOf(ValueOf(it), b - a - 1 - SplitAt(it), list, a + SplitAt(it) + 1)
  <1> DEFINE n == b - a - 1
  <1>1. /\ Len(list) \in Nat /\ a \in Nat /\ b \in Nat /\ a < b /\ b <= Len(list) + 1 /\ DOMAIN list = 1 .. Len(list)
        /\ (a = 0 \/ list[a] = COMMA) /\ (b = Len(list) + 1 \/ list[b] = COMMA)
    BY DEF ItemAt
  <1>2. a < Len(list)
    <2>1. list # <<>> /\ list[Len(list)] # COMMA
      BY DEF Keyed, NoEmpty
    <2>2. Len(list) # 0
      BY <2>1
    <2> QED
      BY <1>1, <2>1, <2>2
  <1>3. a + 1 \in DOMAIN list /\ (a + 1 = 1 \/ list[a + 1 - 1] = COMMA)
    <2>1. a + 1 \in 1 .. Len(list) /\ a + 1 - 1 = a
      BY <1>1, <1>2
    <2> QED
      BY <1>1, <2>1
  <1>4. PICK j \in a + 1 .. Len(list) : list[j] = EQUALS /\ \A m \in a + 1 .. j : list[m] # COMMA
    <2>1. \A i \in DOMAIN list : i = 1 \/ list[i - 1] = COMMA =>
            \E j \in i .. Len(list) : list[j] = EQUALS /\ \A m \in i .. j : list[m] # COMMA
      BY DEF Keyed
    <2> DEFINE c == a + 1
    <2>2. c \in DOMAIN list /\ (c = 1 \/ list[c - 1] = COMMA)
      BY <1>1, <1>3
    <2> HIDE DEF c
    <2>3. \E j \in c .. Len(list) : list[j] = EQUALS /\ \A m \in c .. j : list[m] # COMMA
      BY <2>1, <2>2, Zenon
    <2> QED
      BY <2>3 DEF c
  <1>5. j < b
    <2> SUFFICES ASSUME b <= j PROVE FALSE
      BY <1>1
    <2>1. b \in a + 1 .. j /\ b # Len(list) + 1
      BY <1>1
    <2> QED
      BY <1>1, <1>4, <2>1
  <1>6. BytesOf(it, n, list, a + 1)
    <2> DEFINE c == a + 1
    <2> DEFINE d == b - 1
    <2>2. c \in 1 .. Len(list) + 1 /\ d \in c - 1 .. Len(list) /\ d - c + 1 = n
      BY <1>1
    <2> HIDE DEF c, d
    <2>3. BytesOf(SubSeq(list, c, d), d - c + 1, list, c)
      BY <2>2, PieceIs
    <2>4. BytesOf(SubSeq(list, c, d), n, list, c)
      BY <2>2, <2>3
    <2> QED
      BY <2>4 DEF c, d, ItemIs
  <1>7. /\ n \in Nat /\ it \in Seq(0 .. 255) /\ Len(it) = n /\ DOMAIN it = 1 .. n
        /\ \A i \in 1 .. n : it[i] = list[a + 1 + i - 1]
    BY <1>1, <1>6 DEF BytesOf
  <1>8. j - a \in Splits(it)
    <2>1. j - a \in 1 .. n /\ a + 1 + (j - a) - 1 = j
      BY <1>1, <1>5
    <2> QED
      BY <1>4, <1>7, <2>1 DEF Splits
  <1> DEFINE s == SplitAt(it)
  <1>9. /\ s \in Splits(it) /\ \A k \in Splits(it) : s <= k
        /\ Splits(it) # {}
    BY <1>7, <1>8, KeyTyped DEF Texted, Bytes
  <1>10. s \in 1 .. n /\ it[s] = EQUALS /\ \A k \in 1 .. s - 1 : it[k] # EQUALS
    <2>1. s \in 1 .. n /\ it[s] = EQUALS
      BY <1>7, <1>9 DEF Splits
    <2> HIDE DEF s
    <2>2. ASSUME NEW k \in 1 .. s - 1 PROVE it[k] # EQUALS
      <3>1. k \in 1 .. n /\ ~(s <= k)
        BY <1>7, <2>1
      <3> QED
        BY <1>7, <1>9, <3>1 DEF Splits
    <2> QED
      BY <2>1, <2>2
  <1>11. Key(it) = SubSeq(it, 1, s - 1) /\ ValueOf(it) = SubSeq(it, s + 1, n)
    BY <1>7, <1>9 DEF Key, ValueOf
  <1> HIDE DEF s, n
  <1>12. BytesOf(SubSeq(it, 1, s - 1), s - 1, it, 1)
    <2>1. 1 \in 1 .. Len(it) + 1 /\ s - 1 \in 1 - 1 .. Len(it) /\ s - 1 - 1 + 1 = s - 1
      BY <1>7, <1>10
    <2> QED
      BY <1>7, <2>1, PieceIs
  <1>13. BytesOf(SubSeq(it, s + 1, n), n - s, it, s + 1)
    <2>1. s + 1 \in 1 .. Len(it) + 1 /\ n \in s + 1 - 1 .. Len(it) /\ n - (s + 1) + 1 = n - s
      BY <1>7, <1>10
    <2> QED
      BY <1>7, <2>1, PieceIs
  <1>14. BytesOf(Key(it), s - 1, list, a + 1)
    <2>1. ASSUME NEW i \in 1 .. s - 1 PROVE Key(it)[i] = list[a + 1 + i - 1]
      <3>1. i \in 1 .. n /\ 1 + i - 1 = i
        BY <1>7, <1>10
      <3> QED
        BY <1>7, <1>11, <1>12, <3>1 DEF BytesOf
    <2> QED
      BY <1>11, <1>12, <2>1 DEF BytesOf
  <1>15. BytesOf(ValueOf(it), n - s, list, a + s + 1)
    <2>1. ASSUME NEW i \in 1 .. n - s PROVE ValueOf(it)[i] = list[a + s + 1 + i - 1]
      <3>1. s + 1 + i - 1 \in 1 .. n /\ a + 1 + (s + 1 + i - 1) - 1 = a + s + 1 + i - 1
        BY <1>1, <1>7, <1>10
      <3> QED
        BY <1>7, <1>11, <1>13, <3>1 DEF BytesOf
    <2> QED
      BY <1>11, <1>13, <2>1 DEF BytesOf
  <1> QED
    BY <1>6, <1>9, <1>10, <1>14, <1>15 DEF n, s

LEMMA ItemKey ==
  ASSUME NEW list \in Seq(0 .. 255), Keyed(list), NEW host \in Seq(0 .. 255), PlainHost(host),
         NEW a, NEW b, ItemAt(list, a, b)
  PROVE  LET it == SubSeq(list, a + 1, b - 1)
         IN  /\ Key(it) = host <=> NamedAt(list, host, a + 1)
             /\ Key(it) = host => ValueOf(it) = DirAt(list, host, a + 1)
  <1> DEFINE it == SubSeq(list, a + 1, b - 1)
  <1> DEFINE s == SplitAt(it)
  <1> DEFINE h == Len(host)
  <1> DEFINE L == Len(list)
  <1>1. /\ L \in Nat /\ a \in Nat /\ b \in Nat /\ a < b /\ b <= L + 1
        /\ (a = 0 \/ list[a] = COMMA) /\ (b = L + 1 \/ list[b] = COMMA)
        /\ \A j \in a + 1 .. b - 1 : list[j] # COMMA
    BY DEF ItemAt
  <1>2. /\ BytesOf(it, b - a - 1, list, a + 1)
        /\ s \in 1 .. b - a - 1 /\ it[s] = EQUALS
        /\ \A j \in 1 .. s - 1 : it[j] # EQUALS
        /\ BytesOf(Key(it), s - 1, list, a + 1)
        /\ BytesOf(ValueOf(it), b - a - 1 - s, list, a + s + 1)
    <2>1. ItemIs(it, list, a, b)
      BY DEF ItemIs
    <2> HIDE DEF it
    <2> QED
      BY <2>1, ItemSplit
  <1>3. h \in Nat /\ \A i \in 1 .. h : host[i] # COMMA /\ host[i] # EQUALS
    BY DEF PlainHost
  <1> HIDE DEF it, s, h, L
  <1>4. \A i \in 1 .. b - a - 1 : it[i] = list[a + i]
    <2>1. \A i \in 1 .. b - a - 1 : a + 1 + i - 1 = a + i
      BY <1>1
    <2> QED
      BY <1>2, <2>1 DEF BytesOf
  <1>5. ASSUME Key(it) = host PROVE s = h + 1 /\ NamedAt(list, host, a + 1)
    <2>1. h = s - 1 /\ \A i \in 1 .. h : host[i] = list[a + 1 + i - 1]
      BY <1>2, <1>5 DEF BytesOf, h
    <2>2. s = h + 1
      BY <1>2, <1>3, <2>1
    <2>3. list[a + 1 + h] = EQUALS
      <3>1. a + 1 + h = a + s
        BY <1>1, <1>3, <2>2
      <3> QED
        BY <1>2, <1>4, <3>1
    <2>4. a + 1 \in 1 .. L - h /\ (a + 1 = 1 \/ list[(a + 1) - 1] = COMMA)
      <3>1. a + 1 \in 1 .. L - h
        BY <1>1, <1>2, <1>3, <2>2
      <3>2. (a + 1) - 1 = a /\ (a = 0 => a + 1 = 1)
        BY <1>1
      <3> QED
        BY <1>1, <3>1, <3>2
    <2>5. Occurs(list, a + 1, host)
      BY <2>1 DEF Occurs, h
    <2> QED
      BY <2>2, <2>3, <2>4, <2>5 DEF NamedAt, h, L
  <1>6. ASSUME NamedAt(list, host, a + 1) PROVE Key(it) = host
    <2>1. /\ a + 1 \in 1 .. L - h /\ list[a + 1 + h] = EQUALS
          /\ \A i \in 1 .. h : list[a + 1 + i - 1] = host[i]
      BY <1>6 DEF NamedAt, Occurs, h, L
    <2>2. \A i \in 1 .. h : list[a + i] = host[i]
      <3>1. \A i \in 1 .. h : a + 1 + i - 1 = a + i
        BY <1>1, <1>3
      <3> QED
        BY <2>1, <3>1
    <2>3. a + 1 + h < b
      <3> SUFFICES ASSUME b <= a + 1 + h PROVE FALSE
        BY <1>1, <1>3
      <3>1. b # L + 1
        BY <1>1, <1>3, <2>1
      <3>2. list[b] = COMMA
        BY <1>1, <3>1
      <3>3. CASE b = a + 1 + h
        BY <2>1, <3>2, <3>3 DEF COMMA, EQUALS
      <3>4. CASE b # a + 1 + h
        <4>1. b - a \in 1 .. h /\ a + (b - a) = b
          BY <1>1, <1>3, <3>4
        <4> QED
          BY <1>3, <2>2, <3>2, <4>1
      <3> QED
        BY <3>3, <3>4
    <2>4. s = h + 1
      <3>0. a \in Nat /\ b \in Nat /\ h \in Nat
        BY <1>1, <1>3
      <3>1. h + 1 \in 1 .. b - a - 1 /\ a + (h + 1) = a + 1 + h
        BY <2>3, <3>0
      <3>2. it[h + 1] = EQUALS
        BY <1>4, <2>1, <3>1
      <3>3. ~(h + 1 \in 1 .. s - 1)
        BY <1>2, <3>2
      <3>4. ~(s \in 1 .. h)
        <4> SUFFICES ASSUME s \in 1 .. h PROVE FALSE
          OBVIOUS
        <4>1. list[a + s] = EQUALS
          BY <1>2, <1>4
        <4> QED
          BY <1>3, <2>2, <4>1
      <3> QED
        BY <1>1, <1>2, <1>3, <3>3, <3>4
    <2>5. s - 1 = h
      BY <1>3, <2>4
    <2>6. Key(it) \in Seq(Bytes) /\ host \in Seq(Bytes) /\ Len(Key(it)) = Len(host)
      BY <1>2, <2>5 DEF BytesOf, Bytes, h
    <2>7. \A i \in 1 .. Len(Key(it)) : Key(it)[i] = host[i]
      BY <1>2, <2>1, <2>5, <2>6 DEF BytesOf, h
    <2> QED
      BY <2>6, <2>7, SeqEqual
  <1>7. ASSUME Key(it) = host PROVE ValueOf(it) = DirAt(list, host, a + 1)
    <2>1. s = h + 1
      BY <1>5, <1>7
    <2> DEFINE m == a + 1 + h + 1
    <2> DEFINE n == b - a - 1 - s
    <2> DEFINE r == SubSeq(list, m, L)
    <2>2. m \in 1 .. L + 1 /\ L \in m - 1 .. L /\ n \in Nat /\ a + s + 1 = m /\ n = b - m /\ m <= b
      BY <1>1, <1>2, <1>3, <2>1
    <2> HIDE DEF m, n
    <2>3. BytesOf(r, L - m + 1, list, m)
      BY <2>2, PieceIs DEF L
    <2>4. BytesOf(ValueOf(it), n, list, m)
      BY <1>2, <2>2 DEF n
    <2> HIDE DEF r
    <2>5. /\ r \in Seq(0 .. 255) /\ Len(r) = L - m + 1 /\ \A i \in 1 .. L - m + 1 : r[i] = list[m + i - 1]
      BY <2>3 DEF BytesOf
    <2>6. /\ <<COMMA>> \in Seq(0 .. 255) /\ Len(<<COMMA>>) = 1
          /\ \A i \in Int : Occurs(r, i, <<COMMA>>) <=> r[i] = COMMA
      <3>1. COMMA \in 0 .. 255
        BY DEF COMMA
      <3>2. <<COMMA>> \in Seq(0 .. 255) /\ Len(<<COMMA>>) = 1
        BY <3>1
      <3>3. \A i \in Int : IsAt(r, i, COMMA)
        BY <3>1, OneByteAt
      <3> QED
        BY <3>2, <3>3 DEF IsAt
    <2>7. \A i \in 1 .. n : i \in 1 .. L - m + 1 /\ r[i] # COMMA
      <3> TAKE i \in 1 .. n
      <3>1. i \in 1 .. L - m + 1 /\ m + i - 1 \in a + 1 .. b - 1
        BY <1>1, <1>3, <2>2 DEF m
      <3> QED
        BY <1>1, <2>5, <3>1
    <2>8. BytesOf(Before(r, <<COMMA>>), n, r, 1)
      <3>1. CASE b = L + 1
        <4>1. L - m + 1 = n /\ \A i \in 1 .. n : 1 + i - 1 = i
          BY <1>1, <2>2, <3>1
        <4>2. \A i \in 1 .. Len(r) - Len(<<COMMA>>) + 1 : ~Occurs(r, i, <<COMMA>>)
          <5>1. Len(r) - Len(<<COMMA>>) + 1 = n /\ 1 .. n \subseteq Int
            BY <2>2, <2>5, <2>6, <4>1
          <5> QED
            BY <2>6, <2>7, <5>1
        <4>3. Before(r, <<COMMA>>) = r
          BY <2>5, <2>6, <4>2, BeforeNone
        <4> QED
          BY <2>5, <4>1, <4>3 DEF BytesOf
      <3>2. CASE b # L + 1
        <4> DEFINE f == n + 1
        <4>1. f \in 1 .. L - m + 1 /\ m + f - 1 = b /\ f - 1 = n
          BY <1>1, <2>2, <3>2
        <4>2. r[f] = COMMA
          BY <1>1, <2>5, <3>2, <4>1
        <4>3. f \in 1 .. Len(r) - Len(<<COMMA>>) + 1 /\ f \in Int
          BY <2>2, <2>5, <2>6, <4>1
        <4> HIDE DEF f
        <4>4. Occurs(r, f, <<COMMA>>) /\ Len(<<COMMA>>) > 0
          BY <2>6, <4>2, <4>3
        <4>5. \A i \in 1 .. f - 1 : ~Occurs(r, i, <<COMMA>>)
          <5>1. 1 .. n \subseteq Int
            BY <2>2
          <5> QED
            BY <2>6, <2>7, <4>1, <5>1
        <4>6. BytesOf(Before(r, <<COMMA>>), f - 1, r, 1)
          BY <2>5, <2>6, <4>3, <4>4, <4>5, BeforeAt
        <4> QED
          BY <4>1, <4>6
      <3> QED
        BY <3>1, <3>2
    <2>9. \A i \in 1 .. n : r[1 + i - 1] = list[m + i - 1]
      <3> TAKE i \in 1 .. n
      <3>1. 1 + i - 1 = i
        BY <2>2
      <3> QED
        BY <2>5, <2>7, <3>1
    <2>10. Before(r, <<COMMA>>) = ValueOf(it)
      BY <2>4, <2>8, <2>9, BytesEqual
    <2> QED
      BY <2>10 DEF DirAt, r, m, h, L
  <1> QED
    BY <1>5, <1>6, <1>7 DEF it

(* The items of a list of hosts, in order, and the places where a host is  *)
(* named.                                                                  *)
Fits(list, host, text, i) ==
  /\ Splits(text) # {} /\ (Key(text) = host <=> NamedAt(list, host, i))
  /\ Key(text) = host => ValueOf(text) = DirAt(list, host, i)

LEMMA HostItems ==
  ASSUME NEW list \in Seq(0 .. 255), Keyed(list), NEW host \in Seq(0 .. 255), PlainHost(host)
  PROVE  LET cuts == ListCuts(list)
             n == Cardinality(cuts) + 1
         IN  /\ n \in Nat /\ DOMAIN Items(list, cuts) = 1 .. n
             /\ \A k \in 1 .. n : Fits(list, host, Items(list, cuts)[k], Edge(list, cuts, k - 1) + 1)
             /\ \A i : NamedAt(list, host, i) => \E k \in 1 .. n : Edge(list, cuts, k - 1) + 1 = i
             /\ \A k, l \in 1 .. n : k < l => Edge(list, cuts, k - 1) < Edge(list, cuts, l - 1)
             /\ \A k \in 1 .. n : Edge(list, cuts, k - 1) \in Nat
  <1> DEFINE cuts == ListCuts(list)
  <1> DEFINE c == Cardinality(cuts)
  <1> DEFINE n == c + 1
  <1> DEFINE e(k) == Edge(list, cuts, k)
  <1> DEFINE items == Items(list, cuts)
  <1>1. cuts = CommasOf(list) /\ cuts \subseteq 1 .. Len(list)
    BY ListCutsAre, CgiCutsAre DEF Keyed
  <1> HIDE DEF cuts
  <1>2. /\ Len(list) \in Nat /\ c \in Nat /\ IsFiniteSet(Ends(list, cuts)) /\ Ends(list, cuts) \in SUBSET Nat
        /\ Cardinality(Ends(list, cuts)) = c + 2 /\ e(0) = 0 /\ e(c + 1) = Len(list) + 1
        /\ \A k \in 0 .. c + 1 : e(k) \in Ends(list, cuts)
        /\ \A k \in 1 .. c : e(k) \in cuts
        /\ \A k \in 0 .. c : \A j \in cuts : ~(e(k) < j /\ j < e(k + 1))
    BY <1>1, EndsAre
  <1>3. /\ items \in Seq(Seq(0 .. 255)) /\ Len(items) = c + 1
        /\ \A k \in 1 .. c + 1 :
              /\ items[k] = SubSeq(list, e(k - 1) + 1, e(k) - 1)
              /\ e(k - 1) \in 0 .. Len(list) /\ e(k) \in 1 .. Len(list) + 1 /\ e(k - 1) < e(k)
    <2>1. list \in Seq(Bytes)
      BY DEF Bytes
    <2>2. /\ items \in Seq(Seq(Bytes)) /\ Len(items) = c + 1
          /\ \A k \in 1 .. c + 1 :
              /\ items[k] = ListPiece(list, cuts, k)
              /\ e(k - 1) \in 0 .. Len(list) /\ e(k) \in 1 .. Len(list) + 1 /\ e(k - 1) < e(k)
      BY <1>1, <2>1, ItemsAre
    <2> HIDE DEF items
    <2> QED
      BY <2>2 DEF ListPiece, Bytes
  <1>4. n \in Nat /\ DOMAIN items = 1 .. n
    BY <1>2, <1>3
  <1> HIDE DEF c, items
  <1>5. ASSUME NEW k \in 1 .. n PROVE Fits(list, host, items[k], e(k - 1) + 1)
    <2> DEFINE a == e(k - 1)
    <2> DEFINE b == e(k)
    <2>1. /\ a \in 0 .. Len(list) /\ b \in 1 .. Len(list) + 1 /\ a < b /\ items[k] = SubSeq(list, a + 1, b - 1)
      BY <1>3
    <2>2. k - 1 \in 0 .. c /\ k - 1 + 1 = k /\ (k - 1 = 0 \/ k - 1 \in 1 .. c) /\ (k = c + 1 \/ k \in 1 .. c)
      BY <1>2
    <2>3. (a = 0 \/ a \in cuts) /\ (b = Len(list) + 1 \/ b \in cuts) /\ \A j \in cuts : ~(a < j /\ j < b)
      BY <1>2, <2>2
    <2> HIDE DEF a, b
    <2>4. ItemAt(list, a, b)
      <3>1. (a = 0 \/ list[a] = COMMA) /\ (b = Len(list) + 1 \/ list[b] = COMMA)
        BY <1>1, <2>3 DEF CommasOf
      <3>2. ASSUME NEW j \in a + 1 .. b - 1 PROVE list[j] # COMMA
        <4>1. j \in 1 .. Len(list) /\ a < j /\ j < b
          BY <1>2, <2>1
        <4> QED
          BY <1>1, <2>3, <4>1 DEF CommasOf
      <3> QED
        BY <2>1, <3>1, <3>2 DEF ItemAt
    <2>5. Splits(SubSeq(list, a + 1, b - 1)) # {}
      BY <2>4, ItemSplit DEF ItemIs
    <2> QED
      BY <2>1, <2>4, <2>5, ItemKey DEF Fits, a
  <1>6. ASSUME NEW i, NamedAt(list, host, i) PROVE \E k \in 1 .. n : e(k - 1) + 1 = i
    <2>1. Len(host) \in Nat /\ i \in 1 .. Len(list) - Len(host) /\ (i = 1 \/ list[i - 1] = COMMA)
      BY <1>6 DEF NamedAt
    <2> DEFINE x == i - 1
    <2>2. x \in Nat /\ x < Len(list) + 1 /\ x + 1 = i /\ (x = 0 \/ (x \in 1 .. Len(list) /\ list[x] = COMMA))
      BY <1>2, <2>1
    <2> HIDE DEF x
    <2>3. x \in Ends(list, cuts)
      BY <1>1, <2>2 DEF Ends, CommasOf
    <2> DEFINE m == Cardinality(Below(Ends(list, cuts), x))
    <2>4. m < c + 2 /\ e(m) = x /\ m \in Nat
      BY <1>2, <2>3, NthUnique, BelowFinite DEF Edge
    <2> HIDE DEF m
    <2>5. m # c + 1
      BY <1>2, <2>2, <2>4
    <2>6. m + 1 \in 1 .. n /\ m + 1 - 1 = m
      BY <1>2, <2>4, <2>5
    <2> QED
      BY <2>2, <2>4, <2>6
  <1>7. ASSUME NEW k \in 1 .. n, NEW l \in 1 .. n, k < l PROVE e(k - 1) < e(l - 1)
    <2>1. k - 1 \in Nat /\ l - 1 \in Nat /\ k - 1 < l - 1 /\ l - 1 < Cardinality(Ends(list, cuts))
      BY <1>2, <1>7
    <2> QED
      BY <1>2, <2>1, NthAscends DEF Edge
  <1>8. \A k \in 1 .. n : e(k - 1) \in Nat
    BY <1>3
  <1> QED
    BY <1>4, <1>5, <1>6, <1>7, <1>8 DEF items, c, cuts

(* The pairs of the environment for a host, and what putting a list of     *)
(* hosts into it makes of them.                                            *)
PairsFor(e, host) == {p \in e : p[1] = host}

LEMMA HostPut ==
  ASSUME NEW e, NEW list \in Seq(0 .. 255), Keyed(list), NEW host \in Seq(0 .. 255), PlainHost(host)
  PROVE  PairsFor(PutEnv(e, Items(list, ListCuts(list))), host)
           = IF Starts(list, host) = {} THEN PairsFor(e, host) ELSE {<<host, DirIn(list, host)>>}
  <1> DEFINE cuts == ListCuts(list)
  <1> DEFINE items == Items(list, cuts)
  <1> DEFINE n == Cardinality(cuts) + 1
  <1> DEFINE b(k) == Edge(list, cuts, k - 1)
  <1> DEFINE S == Starts(list, host)
  <1>1. /\ n \in Nat /\ DOMAIN items = 1 .. n
        /\ \A k \in 1 .. n : Fits(list, host, items[k], b(k) + 1)
        /\ \A i : NamedAt(list, host, i) => \E k \in 1 .. n : b(k) + 1 = i
        /\ \A k, l \in 1 .. n : k < l => b(k) < b(l)
        /\ \A k \in 1 .. n : b(k) \in Nat
    BY HostItems
  <1> DEFINE last == {j \in 1 .. n : /\ Splits(items[j]) # {}
                                     /\ \A l \in 1 .. n : l > j => Key(items[l]) # Key(items[j])}
  <1> DEFINE put == {<<Key(items[k]), ValueOf(items[k])>> : k \in last}
  <1> DEFINE kept == {p \in e : \A k \in 1 .. n : p[1] # Key(items[k])}
  <1>2. PutEnv(e, items) = kept \cup put
    BY <1>1 DEF PutEnv, ValueOf
  <1> HIDE DEF items, n, b, S
  <1>3. \A i : i \in S <=> NamedAt(list, host, i)
    BY StartsIs DEF S
  <1>4. \A k \in 1 .. n : Key(items[k]) = host <=> b(k) + 1 \in S
    BY <1>1, <1>3 DEF Fits
  <1>5. CASE S = {}
    <2>1. \A k \in 1 .. n : Key(items[k]) # host
      BY <1>4, <1>5
    <2>2. \A p \in put : p[1] # host
      BY <2>1
    <2>3. \A p \in e : p[1] = host => p \in kept
      BY <2>1
    <2> HIDE DEF put
    <2> QED
      BY <1>2, <1>5, <2>2, <2>3 DEF PairsFor, S, items
  <1>6. CASE S # {}
    <2> DEFINE t == Latest(S)
    <2>1. t \in S /\ \A j \in S : j <= t
      <3>1. \A i \in S : i \in 0 .. Len(list)
        <4> TAKE i \in S
        <4>1. i \in 1 .. Len(list) - Len(host) /\ Len(list) \in Nat /\ Len(host) \in Nat
          BY <1>3 DEF NamedAt
        <4> QED
          BY <4>1
      <3>2. S \subseteq 0 .. Len(list) /\ Len(list) \in Nat
        BY <3>1
      <3> QED
        BY <1>6, <3>2, LatestIs
    <2> HIDE DEF t
    <2>2. PICK k \in 1 .. n : b(k) + 1 = t
      BY <1>1, <1>3, <2>1
    <2>3. ASSUME NEW l \in 1 .. n, Key(items[l]) = host PROVE l <= k
      <3> SUFFICES ASSUME k < l PROVE FALSE
        BY <1>1
      <3>1. b(k) < b(l) /\ b(k) \in Nat /\ b(l) \in Nat
        BY <1>1
      <3>2. b(l) + 1 <= t
        BY <1>4, <2>1, <2>3
      <3> QED
        BY <2>2, <3>1, <3>2
    <2>4. Key(items[k]) = host /\ Splits(items[k]) # {} /\ ValueOf(items[k]) = DirAt(list, host, t)
      BY <1>1, <1>4, <2>1, <2>2 DEF Fits
    <2>5. k \in last
      <3>1. \A l \in 1 .. n : l > k => Key(items[l]) # Key(items[k])
        BY <1>1, <2>3, <2>4
      <3> QED
        BY <2>4, <3>1
    <2>6. ASSUME NEW l \in last, Key(items[l]) = host PROVE l = k
      <3>1. l \in 1 .. n /\ l <= k
        BY <2>3, <2>6
      <3>2. ~(k > l)
        BY <2>4, <2>6
      <3> QED
        BY <1>1, <3>1, <3>2
    <2> DEFINE d == ValueOf(items[k])
    <2>7. <<host, d>> \in put
      BY <2>4, <2>5
    <2>8. ASSUME NEW p \in put, p[1] = host PROVE p = <<host, d>>
      <3>1. PICK l \in last : p = <<Key(items[l]), ValueOf(items[l])>>
        OBVIOUS
      <3>2. Key(items[l]) = host
        BY <2>8, <3>1
      <3> HIDE DEF last
      <3>3. l = k
        BY <2>6, <3>2
      <3> QED
        BY <2>4, <3>1, <3>3
    <2>9. \A p \in kept : p[1] # host
      BY <2>4
    <2> HIDE DEF put, kept, d
    <2>10. PairsFor(PutEnv(e, items), host) = {<<host, d>>}
      <3>1. <<host, d>>[1] = host
        OBVIOUS
      <3>2. \A p : p \in PairsFor(PutEnv(e, items), host) <=> p \in kept \cup put /\ p[1] = host
        BY <1>2 DEF PairsFor
      <3>3. \A p : p \in PairsFor(PutEnv(e, items), host) <=> p = <<host, d>>
        BY <2>7, <2>8, <2>9, <3>1, <3>2
      <3> QED
        BY <3>3
    <2>11. d = DirIn(list, host)
      BY <2>4 DEF d, DirIn, DirAt, t, S
    <2> QED
      BY <1>6, <2>10, <2>11 DEF items, S
  <1> QED
    BY <1>5, <1>6

(* What the environment has for a host once some options were read.        *)
NamingTo(host) == {k \in ReadTo("V") : Starts(cmdline[k][2], host) # {}}
ListsKeyed == \A k \in ReadTo("V") : Keyed(cmdline[k][2])
HostFrom(host) ==
  PairsFor(env, host) = IF NamingTo(host) = {} THEN PairsFor(world.env, host)
                        ELSE {<<host, DirIn(cmdline[Latest(NamingTo(host))][2], host)>>}
HostEnv ==
  boot # "exited" => \A host \in Seq(0 .. 255) : PlainHost(host) /\ ListsKeyed => HostFrom(host)

LEMMA HostEnvStill ==
  ASSUME HostEnv, cmdline' = cmdline, world' = world, env' = env, ReadTo("V")' = ReadTo("V"), boot # "exited"
  PROVE  HostEnv'
  <1>1. \A host : HostFrom(host)' <=> HostFrom(host)
    BY DEF HostFrom, NamingTo
  <1>2. ListsKeyed' <=> ListsKeyed
    BY DEF ListsKeyed
  <1> QED
    BY <1>1, <1>2 DEF HostEnv

LEMMA HostEnvVirtual ==
  ASSUME BootTyped, HostEnv, NEW options, Reads(options), OptTaken, Opt = "V"
  PROVE  HostEnv'
  <1>1. /\ cmdline' = cmdline /\ world' = world /\ boot = "options" /\ argi' = argi + 1 /\ argi \in Nat
        /\ argi + 1 \in 1 .. Len(cmdline) /\ Opt = cmdline[argi + 1][1] /\ Arg = cmdline[argi + 1][2]
        /\ OptionType(cmdline[argi + 1])
    BY ReadsFacts
  <1>2. env' = PutEnv(env, Items(Arg, ListCuts(Arg))) /\ Arg \in Seq(0 .. 255)
    BY <1>1 DEF OptTaken, OptionType
  <1> DEFINE n == argi + 1
  <1>3. /\ Len(cmdline) \in Nat /\ DOMAIN cmdline = 1 .. Len(cmdline) /\ n \in 1 .. Len(cmdline)
        /\ \A k \in ReadTo("V") : k \in 1 .. Len(cmdline) /\ k < n
        /\ ReadTo("V")' = ReadTo("V") \cup {n}
    <2>1. Len(cmdline) \in Nat /\ DOMAIN cmdline = 1 .. Len(cmdline)
      BY DEF BootTyped, CommandLine
    <2>2. \A k \in 1 .. Len(cmdline) : k <= argi + 1 <=> k <= argi \/ k = n
      BY <1>1, <2>1
    <2>3. \A k \in 1 .. Len(cmdline) : k <= argi => k < n
      BY <1>1, <2>1
    <2> QED
      BY <1>1, <2>1, <2>2, <2>3 DEF ReadTo, Uses
  <1> HIDE DEF n
  <1> SUFFICES ASSUME NEW host \in Seq(0 .. 255), PlainHost(host), ListsKeyed' PROVE HostFrom(host)'
    BY DEF HostEnv
  <1>4. ListsKeyed /\ Keyed(Arg)
    BY <1>1, <1>3 DEF ListsKeyed, n
  <1>5. HostFrom(host)
    BY <1>1, <1>4 DEF HostEnv
  <1>6. PairsFor(env', host) = IF Starts(Arg, host) = {} THEN PairsFor(env, host) ELSE {<<host, DirIn(Arg, host)>>}
    BY <1>2, <1>4, HostPut
  <1> DEFINE Now == NamingTo(host)'
  <1>7. CASE Starts(Arg, host) = {}
    <2>1. Now = NamingTo(host)
      BY <1>1, <1>3, <1>7 DEF NamingTo, n
    <2> QED
      BY <1>1, <1>5, <1>6, <1>7, <2>1 DEF HostFrom
  <1>8. CASE Starts(Arg, host) # {}
    <2>1. n \in Now /\ \A k \in Now : k \in Nat /\ k <= n
      BY <1>1, <1>3, <1>8 DEF NamingTo, n
    <2> HIDE DEF Now
    <2>2. \A k \in Now : (\A j \in Now : j <= k) => k = n
      BY <2>1
    <2>3. Latest(Now) = n
      BY <2>1, <2>2 DEF Latest
    <2>4. Now # {} /\ cmdline'[Latest(Now)][2] = Arg
      BY <1>1, <2>1, <2>3 DEF n
    <2> QED
      BY <1>6, <1>8, <2>4 DEF HostFrom, Now
  <1> QED
    BY <1>7, <1>8

LEMMA HostEnvBoot ==
  ASSUME BootTyped, HostEnv, BootStep
  PROVE  HostEnv'
  <1>1. CASE ReadOption
    <2>1. PICK options : Reads(options)
      BY <1>1, OptionStep
    <2>2. OptTaken \/ OptEnds
      BY <1>1, OptionStep
    <2>3. CASE OptEnds
      BY <2>3 DEF OptEnds, HostEnv
    <2>4. CASE OptTaken /\ Opt = "V"
      BY <2>1, <2>4, HostEnvVirtual
    <2>5. CASE OptTaken /\ Opt # "V"
      <3>1. cmdline' = cmdline /\ world' = world /\ boot = "options" /\ ReadTo("V")' = ReadTo("V")
        BY <2>1, <2>5, ReadsFacts
      <3>2. env' = env
        BY <2>5 DEF OptTaken
      <3> QED
        BY <3>1, <3>2, HostEnvStill
    <2> QED
      BY <2>2, <2>3, <2>4, <2>5
  <1>2. CASE OptionsDone \/ BindAndListen \/ SetNewGid \/ SetNewUid \/ Daemonize \/ QInit
    <2>1. cmdline' = cmdline /\ world' = world /\ env' = env /\ argi' = argi /\ boot # "exited"
      BY <1>2 DEF OptionsDone, BindAndListen, SetNewGid, SetNewUid, Daemonize, QInit
    <2>2. ReadTo("V")' = ReadTo("V")
      BY <2>1 DEF ReadTo, Uses
    <2> QED
      BY <2>1, <2>2, HostEnvStill
  <1> QED
    BY <1>1, <1>2 DEF BootStep

(* The worker starts once main has come to the end, and nothing of the     *)
(* configuration changes from then on.                                     *)
Serves == scan # "idle" => boot \in {"serving", "inetd"}

LEMMA BootMoves ==
  ASSUME [Next]_vars
  PROVE  Boot \/ UNCHANGED bootVars
  <1>1. CASE Connect \/ Inetd \/ Scan \/ Url \/ Authenticate \/ Auth \/ Cgi \/ Copy \/ List \/ PropertiesStep
             \/ Again \/ UNCHANGED vars
    BY <1>1 DEF Connect, Inetd, NewConnection, Scan, Url, Authenticate, Auth, Cgi, Copy, List,
                PropertiesStep, Again, vars
  <1>2. CASE Refused \/ Missing \/ Script \/ ScriptRun \/ File \/ FileSent \/ Directory \/ ListSent
             \/ Properties \/ PropertiesSent
    <2>1. Stay
      BY <1>2 DEF Refused, Missing, Script, ScriptRun, File, FileSent, Directory, ListSent, Properties,
                  PropertiesSent
    <2> QED
      BY <2>1 DEF Stay
  <1> QED
    BY <1>1, <1>2 DEF Next

LEMMA BootEnds ==
  ASSUME BootStep
  PROVE  boot \notin {"serving", "inetd"}
  <1>1. CASE ReadOption
    <2>1. boot = "options"
      BY <1>1 DEF ReadOption, OptInforms, OptFlag, OptValue, OptUnknown, OptBasedir, OptCache, OptAuth, OptCgi,
                  OptIndex, OptVirtual, Reads
    <2> QED
      BY <2>1
  <1>2. CASE ~ReadOption
    BY <1>2 DEF BootStep, OptionsDone, BindAndListen, SetNewGid, SetNewUid, Daemonize, QInit
  <1> QED
    BY <1>1, <1>2

LEMMA ConfStill ==
  ASSUME Serves, [Next]_vars
  PROVE  scan = "idle" \/ UNCHANGED bootVars
  BY BootMoves, BootEnds DEF Serves, Boot

LEMMA ServesNext ==
  ASSUME Serves, [Next]_vars
  PROVE  Serves'
  <1>1. CASE Connect \/ Inetd
    <2>1. boot \in {"serving", "inetd"} /\ UNCHANGED bootVars
      BY <1>1 DEF Connect, Inetd, NewConnection
    <2> QED
      BY <2>1 DEF Serves, bootVars
  <1>2. CASE ~(Connect \/ Inetd) /\ scan = "idle"
    <2>1. scan' = "idle"
      <3>1. CASE Boot \/ Authenticate \/ Auth \/ UNCHANGED vars
        BY <1>2, <3>1 DEF Boot, Authenticate, Auth, vars, headVars
      <3>2. CASE Scan
        BY <1>2, <3>2 DEF Scan, ScanStep, ScanStart, ScanRead, ScanEnd, Tokenize
      <3>3. CASE Url
        BY <1>2, <3>3 DEF Url, UrlStep, SplitGetParams, Escape, CutParent, ParamsDone
      <3>4. CASE Answering
        BY <1>2, <3>4, AnsweringStays DEF HeadStill, headVars
      <3>5. CASE Again
        BY <1>2, <3>5 DEF Again, NextRequest
      <3> QED
        BY <1>2, <3>1, <3>2, <3>3, <3>4, <3>5 DEF Next, Answering
    <2> QED
      BY <2>1 DEF Serves
  <1>3. CASE scan # "idle"
    <2>1. UNCHANGED bootVars
      BY <1>3, ConfStill
    <2> QED
      BY <1>3, <2>1 DEF Serves, bootVars
  <1> QED
    BY <1>1, <1>2, <1>3

(* A request in the making has the directory of its host and, once it is   *)
(* known what answers it, the program its extension asks for.              *)
ByName == IF conf.Y /\ Hits # {} THEN Program(FirstHit) ELSE Unset
Rooted == answer # "idle" => basedir = GetBasedir(ask.host)
Chosen ==
  /\ answer \in {"idle", "dispatch"} => executor = Unset
  /\ answer \notin {"idle", "dispatch"} => auth = "done"
  /\ answer = "list" => ask.what = "directory"
  /\ answer = "properties" => ask.what = "properties"
  /\ answer \in {"file", "script"} => executor = ByName
  /\ (answer = "done" /\ ask.what = "file" /\ result = "granted") => executor = ByName

(* What they depend on stays as it is while the request is answered.       *)
LEMMA NamesStay ==
  ASSUME Flow, Serves, [Next]_vars, answer # "idle", ~Again
  PROVE  /\ ByName' = ByName /\ ask' = ask
         /\ \A host : GetBasedir(host)' = GetBasedir(host)
  <1>1. scan # "idle"
    BY DEF Flow
  <1>2. UNCHANGED bootVars /\ HeadStill
    BY <1>1, ConfStill, HeadMoves
  <1>3. conf' = conf /\ env' = env /\ buf' = buf /\ page' = page /\ page_len' = page_len
    BY <1>2 DEF bootVars, HeadStill, headVars, urlVars
  <1>4. Extensions' = Extensions /\ \A k : Matches(k)' = Matches(k)
    BY <1>3 DEF Extensions, Matches
  <1>5. Hits' = Hits
    BY <1>4 DEF Hits
  <1>6. FirstHit' = FirstHit
    BY <1>5 DEF FirstHit
  <1>7. ByName' = ByName
    BY <1>3, <1>5, <1>6 DEF ByName, Program
  <1>8. \A host : GetBasedir(host)' = GetBasedir(host)
    BY <1>3 DEF GetBasedir
  <1>9. ask' = ask
    <2>1. CASE Boot \/ Connect \/ Inetd \/ Scan \/ Url \/ Auth \/ UNCHANGED vars
      BY <2>1 DEF Boot, Connect, Inetd, NewConnection, Scan, Url, Auth, vars, pathVars
    <2>2. CASE Answering
      BY <2>2, AnsweringStays
    <2>3. ~Authenticate
      BY DEF Authenticate
    <2> QED
      BY <2>1, <2>2, <2>3 DEF Next, Answering
  <1> QED
    BY <1>7, <1>8, <1>9

LEMMA RootedNext ==
  ASSUME Flow, Serves, Rooted, [Next]_vars
  PROVE  Rooted'
  <1>1. CASE Authenticate
    <2>1. PICK a \in Asks(plan.topic) : ask' = a /\ basedir' = GetBasedir(a.host)
      BY <1>1 DEF Authenticate
    <2>2. conf' = conf /\ env' = env
      BY <1>1 DEF Authenticate, bootVars
    <2>3. \A host : GetBasedir(host)' = GetBasedir(host)
      BY <2>2 DEF GetBasedir
    <2>4. GetBasedir(ask.host)' = GetBasedir(a.host)
      BY <2>1, <2>2 DEF GetBasedir
    <2> QED
      BY <2>1, <2>4 DEF Rooted
  <1>2. CASE Again
    BY <1>2 DEF Again, Rooted
  <1>3. CASE ~Authenticate /\ ~Again /\ answer = "idle"
    <2>1. ~Script
      BY <1>3 DEF Script, Granted, Decided
    <2>2. answer' = "idle"
      BY <1>3, <2>1, PathMoves
    <2> QED
      BY <2>2 DEF Rooted
  <1>4. CASE ~Again /\ answer # "idle"
    <2>1. ~Authenticate
      BY <1>4 DEF Authenticate
    <2>2. basedir' = basedir
      BY <1>4, <2>1, PathMoves DEF Script, Stay
    <2>3. ask' = ask /\ \A host : GetBasedir(host)' = GetBasedir(host)
      BY <1>4, NamesStay
    <2>4. GetBasedir(ask.host)' = GetBasedir(ask.host)
      <3>1. scan # "idle"
        BY <1>4 DEF Flow
      <3>2. conf' = conf /\ env' = env
        BY <3>1, ConfStill DEF bootVars
      <3> QED
        BY <2>3, <3>2 DEF GetBasedir
    <2> QED
      BY <1>4, <2>2, <2>4 DEF Rooted
  <1> QED
    BY <1>1, <1>2, <1>3, <1>4

LEMMA ChosenNext ==
  ASSUME Flow, Serves, Chosen, [Next]_vars
  PROVE  Chosen'
  <1>1. CASE Authenticate
    <2>1. answer = "idle" /\ answer' = "dispatch" /\ executor' = executor
      BY <1>1 DEF Authenticate
    <2> QED
      BY <2>1 DEF Chosen
  <1>2. CASE Again
    BY <1>2 DEF Again, Chosen
  <1>3. CASE answer' = answer /\ executor' = executor /\ ~Again /\ UNCHANGED <<auth, result>>
    <2>1. CASE answer = "idle"
      BY <1>3, <2>1 DEF Chosen
    <2>2. CASE answer # "idle"
      <3>1. ByName' = ByName /\ ask' = ask
        BY <1>3, <2>2, NamesStay
      <3> QED
        BY <1>3, <3>1 DEF Chosen
    <2> QED
      BY <2>1, <2>2
  <1>4. CASE Auth
    <2>1. answer' = answer /\ executor' = executor
      BY <1>4 DEF Auth, pathVars
    <2>2. auth = "done" => UNCHANGED <<auth, result>>
      BY <1>4 DEF Auth, AuthStep, AuthConnect, AuthWrite, AuthRead, AuthClose, ProviderReads, ProviderDecides,
                  ProviderDies
    <2>3. CASE answer \in {"idle", "dispatch"}
      BY <2>1, <2>3 DEF Chosen
    <2>4. CASE answer \notin {"idle", "dispatch"}
      <3>1. UNCHANGED <<auth, result>>
        BY <2>2, <2>4 DEF Chosen
      <3>2. ~Again
        BY <2>1, <2>4 DEF Again
      <3> QED
        BY <1>3, <2>1, <3>1, <3>2
    <2> QED
      BY <2>3, <2>4
  <1>5. CASE Boot \/ Connect \/ Inetd \/ Scan \/ Url \/ Cgi \/ Copy \/ List \/ PropertiesStep \/ UNCHANGED vars
    <2>1. answer' = answer /\ executor' = executor /\ UNCHANGED <<auth, result>>
      BY <1>5 DEF Boot, Connect, Inetd, NewConnection, Scan, Url, Cgi, Copy, List, PropertiesStep, vars, pathVars,
                  authVars
    <2> QED
      BY <1>2, <1>3, <2>1
  <1>6. CASE ~Again /\ (Refused \/ Missing \/ Directory \/ Properties \/ Script \/ File)
    <2>1. answer = "dispatch" /\ auth = "done" /\ executor = Unset
      BY <1>6 DEF Refused, Missing, Directory, Properties, Script, File, Granted, Decided, Chosen
    <2>2. ByName' = ByName /\ ask' = ask
      BY <1>6, <2>1, NamesStay
    <2>3. UNCHANGED <<auth, result>>
      BY <1>6, AnsweringStays DEF Answering, authVars
    <2>4. CASE Refused \/ Missing
      <3>1. answer' = "done" /\ (result # "granted" \/ ask.what = "missing")
        BY <2>4 DEF Refused, Missing, Answer
      <3> QED
        BY <2>1, <2>2, <2>3, <3>1 DEF Chosen
    <2>5. CASE Directory
      <3>1. answer' \in {"done", "list"} /\ ask.what = "directory"
        BY <2>5 DEF Directory, Answer
      <3> QED
        BY <2>1, <2>2, <2>3, <3>1 DEF Chosen
    <2>6. CASE Properties
      <3>1. answer' = "properties" /\ ask.what = "properties"
        BY <2>6 DEF Properties
      <3> QED
        BY <2>1, <2>2, <2>3, <3>1 DEF Chosen
    <2>7. CASE Script \/ File
      <3>1. answer' \in {"file", "script"} /\ executor' = ByName
        BY <2>1, <2>7 DEF Script, File, ByName
      <3> QED
        BY <2>1, <2>2, <2>3, <3>1 DEF Chosen
    <2> QED
      BY <1>6, <2>4, <2>5, <2>6, <2>7
  <1>7. CASE ~Again /\ (ScriptRun \/ FileSent \/ ListSent \/ PropertiesSent)
    <2>1. /\ answer' = "done" /\ executor' = executor
          /\ answer \in {"script", "file"} \/ ask.what \in {"directory", "properties"}
          /\ answer \notin {"idle", "dispatch"}
      BY <1>7 DEF ScriptRun, FileSent, ListSent, PropertiesSent, Answer, Chosen
    <2>2. ByName' = ByName /\ ask' = ask
      BY <1>7, <2>1, NamesStay
    <2>3. UNCHANGED <<auth, result>>
      BY <1>7, AnsweringStays DEF Answering, authVars
    <2> QED
      BY <2>1, <2>2, <2>3 DEF Chosen
  <1> QED
    BY <1>1, <1>2, <1>4, <1>5, <1>6, <1>7 DEF Next

LEMMA ScriptChosen ==
  ASSUME HeadInv, Flow, Booted, FrontCut, Chosen
  PROVE  ScriptRecognized
  <1> SUFFICES ASSUME answer \in {"file", "script", "done"}, ask.what = "file", result = "granted",
                      ~PageLenStale, \A k \in Extensions : conf.c[k][1] # SP
               PROVE  LET ends == {k \in Extensions : PageEnds(conf.c[k])}
                      IN  IF conf.Y /\ ends # {}
                          THEN executor = conf.c[(CHOOSE k \in ends : \A j \in ends : k <= j) + 1]
                          ELSE executor = Unset
    BY DEF ScriptRecognized
  <1> DEFINE ends == {k \in Extensions : PageEnds(conf.c[k])}
  <1>1. url # "idle"
    BY DEF Flow
  <1>2. ASSUME NEW k \in Extensions PROVE Matches(k) <=> PageEnds(conf.c[k])
    <2>1. conf["c"] \in Seq(Seq(0 .. 255)) /\ k \in DOMAIN conf.c
      BY DEF Booted, BootTyped, ConfTyped, Texted, Bytes, Extensions
    <2>2. conf.c[k] \in Seq(0 .. 255)
      <3> DEFINE cs == conf.c
      <3>1. cs \in Seq(Seq(0 .. 255)) /\ k \in DOMAIN cs
        BY <2>1
      <3> HIDE DEF cs
      <3>2. cs[k] \in Seq(0 .. 255)
        BY <3>1
      <3> QED
        BY <3>2 DEF cs
    <2> DEFINE ext == conf.c[k]
    <2>3. ext \in Seq(0 .. 255) /\ ext[1] # SP
      BY <2>2
    <2>4. Matches(k) <=> page + page_len - Len(ext) >= 0 /\ EndsWith(buf, page + page_len - Len(ext), ext)
      BY DEF Matches
    <2> HIDE DEF ext
    <2>5. page + page_len - Len(ext) >= 0 /\ EndsWith(buf, page + page_len - Len(ext), ext) <=> PageEnds(ext)
      BY <1>1, <2>3, EndFound
    <2> QED
      BY <2>4, <2>5 DEF ext
  <1>3. Hits = ends
    BY <1>2 DEF Hits
  <1>4. executor = ByName
    BY DEF Chosen
  <1> HIDE DEF ends
  <1>5. IF conf.Y /\ ends # {} THEN executor = conf.c[(CHOOSE k \in ends : \A j \in ends : k <= j) + 1]
        ELSE executor = Unset
    BY <1>3, <1>4 DEF ByName, FirstHit, Program
  <1> QED
    BY <1>5 DEF ends

LEMMA HostFound ==
  ASSUME Driven, Flow, Booted, Serves, Rooted, HostEnv
  PROVE  HostServed
  <1> SUFFICES ASSUME answer # "idle"
               PROVE  IF ~Given("V") \/ ask.host \in {Unset, <<>>} THEN basedir = conf.b
                      ELSE (PlainHost(ask.host) /\ \A k \in Uses("V") : Keyed(cmdline[k][2])) =>
                        IF Naming(ask.host) # {} THEN basedir = GivenDir(ask.host)
                        ELSE basedir = conf.b \/ <<ask.host, basedir>> \in world.env
    BY DEF HostServed
  <1> DEFINE host == ask.host
  <1> DEFINE dirs == {p[2] : p \in {q \in env : q[1] = host}}
  <1>1. boot \in {"serving", "inetd"} /\ argi = Len(cmdline) /\ BootTyped /\ Configured
    BY DEF Flow, Serves, Booted, Stage, Taken
  <1>2. conf.V <=> Given("V")
    <2>1. "V" \in Keys /\ DefaultConf["V"] = FALSE /\ Value("V", cmdline[Latest(Uses("V"))][2]) = TRUE
      BY DefaultsAre DEF Keys, Value
    <2> QED
      BY <1>1, <2>1, FinalConf
  <1>3. basedir = IF ~conf.V \/ host \in {Unset, <<>>} \/ dirs = {} THEN conf.b ELSE CHOOSE d \in dirs : TRUE
    BY DEF Rooted, GetBasedir
  <1>4. CASE ~Given("V") \/ host \in {Unset, <<>>}
    BY <1>2, <1>3, <1>4
  <1>5. CASE Given("V") /\ host \notin {Unset, <<>>}
    <2> SUFFICES ASSUME PlainHost(host), \A k \in Uses("V") : Keyed(cmdline[k][2])
                 PROVE  IF Naming(host) # {} THEN basedir = GivenDir(host)
                        ELSE basedir = conf.b \/ <<host, basedir>> \in world.env
      BY <1>5
    <2>1. ReadTo("V") = Uses("V")
      <3>1. Len(cmdline) \in Nat /\ DOMAIN cmdline = 1 .. Len(cmdline)
        BY <1>1 DEF BootTyped, CommandLine
      <3> QED
        BY <1>1, <3>1 DEF ReadTo, Uses
    <2>2. NamingTo(host) = Naming(host) /\ ListsKeyed
      BY <2>1 DEF NamingTo, Naming, ListsKeyed
    <2>3. host \in Seq(0 .. 255)
      BY <1>5 DEF Driven, AskType
    <2>4. HostFrom(host)
      BY <1>1, <2>2, <2>3 DEF HostEnv
    <2>5. dirs = {p[2] : p \in PairsFor(env, host)}
      BY DEF PairsFor
    <2> HIDE DEF dirs
    <2>6. CASE Naming(host) # {}
      <3> DEFINE pair == <<host, GivenDir(host)>>
      <3>1. PairsFor(env, host) = {pair}
        BY <2>2, <2>4, <2>6 DEF HostFrom, GivenDir
      <3>2. pair[2] = GivenDir(host)
        OBVIOUS
      <3> HIDE DEF pair
      <3>3. dirs = {GivenDir(host)}
        BY <2>5, <3>1, <3>2
      <3> QED
        BY <1>2, <1>3, <1>5, <2>6, <3>3
    <2>7. CASE Naming(host) = {}
      <3>1. PairsFor(env, host) = PairsFor(world.env, host)
        BY <2>2, <2>4, <2>7 DEF HostFrom
      <3>2. ASSUME NEW d \in dirs PROVE <<host, d>> \in world.env
        <4>1. PICK p \in world.env : p[1] = host /\ p[2] = d
          BY <2>5, <3>1 DEF PairsFor
        <4>2. p \in Seq(0 .. 255) \X Seq(0 .. 255)
          BY <1>1 DEF BootTyped, BootTypeOK, WorldType
        <4>3. p = <<p[1], p[2]>>
          BY <4>2
        <4> QED
          BY <4>1, <4>3
      <3>3. basedir = conf.b \/ basedir \in dirs
        BY <1>3
      <3> QED
        BY <2>7, <3>2, <3>3
    <2> QED
      BY <2>6, <2>7
  <1> QED
    BY <1>4, <1>5

(* A request is served from the directory given for its host, and a script *)
(* run by the program given for its extension, for every command line,     *)
(* every client and every history of connections: the directories pass     *)
(* through the environment, the programs through the list -c was cut into  *)
(* (get_basedir, get_or_post, configuration_set_virtualhost and            *)
(* configuration_set_cgi).                                                 *)
THEOREM ServedCorrect == Spec => []ServedAsConfigured
  <1> DEFINE Inv == FrontCut /\ Serves /\ HostEnv /\ Rooted /\ Chosen
  <1>1. Init => Inv
    <2> SUFFICES ASSUME Init PROVE Inv
      OBVIOUS
    <2>1. scan = "idle" /\ answer = "idle" /\ executor = Unset
      BY DEF Init, ScanInit
    <2>2. BootTyped /\ argi = 0 /\ env = world.env
      BY BootedInit DEF Init, BootInit, Booted
    <2>3. ReadTo("V") = {}
      <3>1. \A k \in Uses("V") : k \in 1 .. Len(cmdline) /\ Len(cmdline) \in Nat
        BY <2>2 DEF Uses, BootTyped, CommandLine
      <3> QED
        BY <2>2, <3>1 DEF ReadTo
    <2>4. \A host : NamingTo(host) = {}
      BY <2>3 DEF NamingTo
    <2>5. HostEnv
      BY <2>2, <2>4 DEF HostEnv, HostFrom
    <2> QED
      BY <2>1, <2>5 DEF FrontCut, Serves, Rooted, Chosen
  <1>2. WorkerInv /\ WorkerInv' /\ Inv /\ [Next]_vars => Inv'
    <2> SUFFICES ASSUME WorkerInv, WorkerInv', Inv, [Next]_vars PROVE Inv'
      OBVIOUS
    <2>1. HeadInv /\ HeadInv' /\ Flow /\ Driven /\ BootTyped
      BY DEF WorkerInv, Booted
    <2>2. FrontCut'
      BY <2>1, WorkerSteps, FrontCutNext DEF Parts
    <2>3. HostEnv'
      <3>1. CASE Boot
        BY <2>1, <3>1, HostEnvBoot DEF Boot
      <3>2. CASE UNCHANGED bootVars
        <4>1. cmdline' = cmdline /\ world' = world /\ env' = env /\ argi' = argi /\ boot' = boot
          BY <3>2 DEF bootVars
        <4>2. ReadTo("V")' = ReadTo("V")
          BY <4>1 DEF ReadTo, Uses
        <4> QED
          BY <4>1, <4>2, HostEnvStill DEF HostEnv
      <3> QED
        BY <3>1, <3>2, BootMoves
    <2> QED
      BY <2>1, <2>2, <2>3, ServesNext, RootedNext, ChosenNext
  <1>3. WorkerInv /\ Inv => ServedAsConfigured
    BY ScriptChosen, HostFound DEF WorkerInv, ServedAsConfigured
  <1> QED
    BY <1>1, <1>2, <1>3, WorkerInvHolds, PTL DEF Spec
-----------------------------------------------------------------------------
(* Where the links of an answer lead: the names of a directory, and the    *)
(* hrefs of a PROPFIND answer, spelled as RequestProofs has it.            *)

LEMMA NameTyped ==
  ASSUME NEW n \in Names
  PROVE  /\ n \in Seq(1 .. 255) /\ n \in Seq(0 .. 255) /\ Len(n) \in Nat /\ NoParent(n)
         /\ FNAMELEN \in Nat /\ FNAMELEN > 0 /\ 3 * Len(n) < FNAMELEN
  <1>1. n \in Seq((1 .. 255) \ {SLASH}) /\ FNAMELEN \in Nat /\ 3 * Len(n) < FNAMELEN
    BY NamesFit
  <1>2. Len(n) \in Nat /\ n \in [1 .. Len(n) -> (1 .. 255) \ {SLASH}]
    BY <1>1, LenProperties
  <1>3. n \in [1 .. Len(n) -> 1 .. 255] /\ \A i \in 1 .. Len(n) : n[i] # SLASH
    BY <1>2
  <1>4. n \in Seq(1 .. 255)
    <2>1. \E k \in Nat : n \in [1 .. k -> 1 .. 255]
      BY <1>2, <1>3, Zenon
    <2>2. n \in UNION {[1 .. k -> 1 .. 255] : k \in Nat}
      BY <2>1, Zenon
    <2>3. Seq(1 .. 255) = UNION {[1 .. k -> 1 .. 255] : k \in Nat}
      BY SeqDef
    <2> QED
      BY <2>2, <2>3, Zenon
  <1>5. n \in Seq(0 .. 255)
    BY <1>4, Wider
  <1>6. NoParent(n)
    <2>1. ASSUME NEW i \in 1 .. Len(n) - 2 PROVE ~ParentAt(n, i)
      <3>1. i + 2 \in 1 .. Len(n)
        BY <1>2
      <3> QED
        BY <1>3, <3>1 DEF ParentAt
    <2> QED
      BY <2>1 DEF NoParent
  <1>7. FNAMELEN > 0
    BY <1>1, <1>2
  <1> QED
    BY <1>1, <1>2, <1>4, <1>5, <1>6, <1>7

LEMMA Slashes ==
  /\ Spells(<<SLASH>>, <<SLASH>>) /\ <<SLASH>> \in Seq(1 .. 255)
  /\ \A p \in Seq(1 .. 255), q \in Seq(1 .. 255) : p \o q \in Seq(1 .. 255)
  <1>1. SLASH \in 1 .. 255 /\ SLASH \notin {PERCENT, QMARK, SP}
    BY DEF SLASH, PERCENT, QMARK, SP
  <1>2. Spells(<<SLASH>>, <<SLASH>>)
    BY <1>1, PlainSpelled
  <1>3. <<SLASH>> \in Seq(1 .. 255)
    BY <1>1
  <1>4. ASSUME NEW p \in Seq(1 .. 255), NEW q \in Seq(1 .. 255) PROVE p \o q \in Seq(1 .. 255)
    BY ConcatProperties
  <1> QED
    BY <1>2, <1>3, <1>4

LEMMA LinksRight ==
  ASSUME UrlDecoded
  PROVE  LinksLeadBack
  <1> SUFFICES ASSUME url = "done", NEW n \in Names
               PROVE  /\ Len(Links[n]) < FNAMELEN /\ Len(Shows[n]) < FNAMELEN
                      /\ RawUrl = <<SLASH>> \o Links[n] => CText(buf, page) = <<SLASH>> \o n
                      /\ RawUrl = <<SLASH>> \o Links[n] \o <<SLASH>> =>
                           \/ CText(buf, page) = <<SLASH>> \o n \o <<SLASH>>
                           \/ Before(n \o <<SLASH>>, ParentDir) # n \o <<SLASH>>
    BY Zenon DEF LinksLeadBack
  <1> DEFINE link == UriEncode(n, FNAMELEN)
  <1> DEFINE s == <<SLASH>>
  <1>1. Links[n] = link /\ Shows[n] = HtmlEncode(n, FNAMELEN)
    BY DEF Links, Shows
  <1>2. /\ n \in Seq(1 .. 255) /\ n \in Seq(0 .. 255) /\ NoParent(n)
        /\ FNAMELEN \in Nat /\ FNAMELEN > 0 /\ 3 * Len(n) < FNAMELEN
    BY NameTyped
  <1>3. Spells(link, n) /\ Len(link) < FNAMELEN
    BY <1>2, UriSpells
  <1>4. Len(HtmlEncode(n, FNAMELEN)) < FNAMELEN
    BY <1>2, HtmlFits
  <1> HIDE DEF link
  <1>5. /\ Spells(s, s) /\ s \in Seq(1 .. 255)
        /\ \A p \in Seq(1 .. 255), q \in Seq(1 .. 255) : p \o q \in Seq(1 .. 255)
    BY Slashes
  <1>6. \A t \in Seq(0 .. 255) : NoParent(t) => NoParent(s \o t)
    BY SlashBefore
  <1>7. (s \o n) \o s = s \o (n \o s)
    <2>1. s \in Seq(0 .. 255)
      BY <1>5, Wider
    <2> HIDE DEF s
    <2> QED
      BY <1>2, <2>1, ConcatAssociative
  <1> HIDE DEF s
  <1>8. ASSUME RawUrl = s \o link PROVE CText(buf, page) = s \o n
    <2>1. Spells(s \o link, s \o n) /\ s \o n \in Seq(1 .. 255) /\ NoParent(s \o n)
      BY <1>2, <1>3, <1>5, <1>6, SpellsJoined
    <2> QED
      BY <1>8, <2>1, LeadsBack
  <1>9. ASSUME RawUrl = (s \o link) \o s, Before(n \o s, ParentDir) = n \o s
        PROVE  CText(buf, page) = (s \o n) \o s
    <2>1. n \o s \in Seq(1 .. 255) /\ s \o n \in Seq(1 .. 255) /\ (s \o n) \o s \in Seq(1 .. 255)
      BY <1>2, <1>5
    <2>2. n \o s \in Seq(0 .. 255)
      BY <2>1, Wider
    <2>3. NoParent(n \o s)
      BY <1>9, <2>2, ParentAbsent
    <2>4. NoParent((s \o n) \o s)
      BY <1>6, <1>7, <2>2, <2>3
    <2>5. Spells((s \o link) \o s, (s \o n) \o s)
      <3>1. Spells(s \o link, s \o n)
        BY <1>3, <1>5, SpellsJoined
      <3> QED
        BY <1>5, <3>1, SpellsJoined
    <2> QED
      BY <1>9, <2>1, <2>4, <2>5, LeadsBack
  <1> QED
    BY <1>1, <1>3, <1>4, <1>8, <1>9, Zenon DEF s

(* One response of a PROPFIND answer.                                      *)
LeadsTo(h, p) ==
  \/ \E k \in DOMAIN p : p[k] > 127
  \/ 3 * Len(p) + 4 > URILEN
  \/ Before(p, ParentDir) # p
  \/ /\ CompleteEscapes(h) /\ Before(h, <<QMARK>>) = h /\ Before(h, <<SP>>) = h
     /\ Before(Meaning(h), ParentDir) = p
Small(p) == p \in Seq(1 .. 255) /\ 3 * Len(p) + 4 <= URILEN /\ \A i \in 1 .. Len(p) : ~(p[i] > 127)

LEMMA HrefsAre == HrefsLeadBack <=> \A i \in DOMAIN xml : Text # <<>> => LeadsTo(xml[i].href, xml[i].path)
  BY Zenon DEF HrefsLeadBack, LeadsTo

LEMMA SmallSpelled ==
  ASSUME NEW p, Small(p)
  PROVE  Spells(EscapeUri(p, URILEN), p)
  BY EscSpells, PropCountPositive DEF Small

LEMMA SpelledLeads ==
  ASSUME NEW h, NEW p \in Seq(1 .. 255), Small(p) => Spells(h, p)
  PROVE  LeadsTo(h, p)
  <1> SUFFICES ASSUME ~\E k \in DOMAIN p : p[k] > 127, ~(3 * Len(p) + 4 > URILEN), Before(p, ParentDir) = p
               PROVE  /\ CompleteEscapes(h) /\ Before(h, <<QMARK>>) = h /\ Before(h, <<SP>>) = h
                      /\ Before(Meaning(h), ParentDir) = p
    BY Zenon DEF LeadsTo
  <1>1. Len(p) \in Nat /\ DOMAIN p = 1 .. Len(p) /\ URILEN \in Nat
    BY PropCountPositive, LenProperties
  <1>2. Small(p)
    <2>1. 3 * Len(p) + 4 <= URILEN
      BY <1>1
    <2>2. \A i \in 1 .. Len(p) : ~(p[i] > 127)
      BY <1>1, Zenon
    <2> QED
      BY <2>1, <2>2 DEF Small
  <1>3. Spells(h, p)
    BY <1>2
  <1>4. CompleteEscapes(h) /\ Before(h, <<QMARK>>) = h /\ Before(h, <<SP>>) = h /\ Meaning(h) = p
    BY <1>3, SpelledMeans
  <1> QED
    BY <1>4

LEMMA SmallParts ==
  ASSUME NEW p \in Seq(1 .. 255), NEW q \in Seq(1 .. 255), Small(p \o q)
  PROVE  Small(p) /\ Small(q)
  <1> DEFINE t == p \o q
  <1>1. /\ Len(p) \in Nat /\ Len(q) \in Nat /\ Len(t) = Len(p) + Len(q)
        /\ \A i \in 1 .. Len(p) + Len(q) : t[i] = IF i <= Len(p) THEN p[i] ELSE q[i - Len(p)]
    BY ConcatProperties
  <1>2. 3 * Len(t) + 4 <= URILEN /\ \A i \in 1 .. Len(t) : ~(t[i] > 127)
    BY DEF Small
  <1> HIDE DEF t
  <1>3. URILEN \in Nat
    BY PropCountPositive
  <1>4. 3 * Len(p) + 4 <= URILEN /\ 3 * Len(q) + 4 <= URILEN
    BY <1>1, <1>2, <1>3
  <1>5. ASSUME NEW i \in 1 .. Len(p) PROVE ~(p[i] > 127)
    <2>1. i \in 1 .. Len(p) + Len(q) /\ i <= Len(p)
      BY <1>1
    <2>2. t[i] = p[i] /\ i \in 1 .. Len(t)
      BY <1>1, <2>1
    <2> QED
      BY <1>2, <2>2
  <1>6. ASSUME NEW i \in 1 .. Len(q) PROVE ~(q[i] > 127)
    <2>1. i + Len(p) \in 1 .. Len(p) + Len(q) /\ ~(i + Len(p) <= Len(p)) /\ i + Len(p) - Len(p) = i
      BY <1>1
    <2>2. t[i + Len(p)] = q[i] /\ i + Len(p) \in 1 .. Len(t)
      BY <1>1, <2>1
    <2> QED
      BY <1>2, <2>2
  <1> QED
    BY <1>4, <1>5, <1>6 DEF Small

(* The page while it is answered: bytes without a NUL.                     *)
LEMMA TextTyped ==
  ASSUME HeadInv, url # "idle"
  PROVE  Text \in Seq(1 .. 255)
  <1> DEFINE e == StrEnd(buf, page)
  <1>1. /\ INBUFFER \in Nat /\ page \in Nat /\ PageEnd \in Nat /\ buf \in Memory
        /\ page <= PageEnd /\ PageEnd <= INBUFFER /\ buf[PageEnd] = NUL
    <2>1. /\ INBUFFER \in Nat /\ page \in Nat /\ PageEnd \in Nat /\ UrlEnd \in Nat /\ buf \in Memory
          /\ page <= PageEnd /\ PageEnd <= UrlEnd /\ UrlEnd + 1 <= INBUFFER /\ buf[PageEnd] = NUL
      BY UrlBounds DEF HeadInv
    <2> QED
      BY <2>1
  <1>2. page \in 0 .. INBUFFER /\ PageEnd \in page .. INBUFFER
    BY <1>1
  <1>3. e \in page .. PageEnd /\ \A j \in page .. e - 1 : buf[j] # NUL
    BY <1>1, <1>2, StrEndFacts
  <1> HIDE DEF e
  <1>4. e \in page .. INBUFFER /\ e \in Nat
    BY <1>1, <1>3
  <1> DEFINE t == Text
  <1> DEFINE n == e - page
  <1>5. t \in Seq(0 .. 255) /\ Len(t) = n /\ \A i \in 1 .. n : t[i] = buf[page + i - 1]
    BY <1>1, <1>2, <1>4, CTextFacts DEF e, Text
  <1> HIDE DEF t
  <1>6. ASSUME NEW i \in 1 .. n PROVE t[i] \in 1 .. 255
    <2>1. page + i - 1 \in page .. e - 1 /\ page + i - 1 \in 0 .. INBUFFER
      BY <1>1, <1>4
    <2>2. buf[page + i - 1] \in 0 .. 255 /\ buf[page + i - 1] # NUL
      BY <1>1, <1>3, <2>1 DEF Memory
    <2>3. \A x \in 0 .. 255 : x # NUL => x \in 1 .. 255
      BY DEF NUL
    <2>4. t[i] = buf[page + i - 1]
      BY <1>5, Zenon
    <2> QED
      BY <2>2, <2>3, <2>4, Zenon
  <1>7. t \in Seq(1 .. 255)
    <2>1. t \in [1 .. Len(t) -> 0 .. 255] /\ Len(t) \in Nat
      BY <1>5, LenProperties
    <2>2. n = Len(t) /\ \A i \in 1 .. Len(t) : t[i] \in 1 .. 255
      BY <1>5, <1>6, Zenon
    <2>3. t \in [1 .. Len(t) -> 1 .. 255]
      BY <2>1, <2>2
    <2>4. \E k \in Nat : t \in [1 .. k -> 1 .. 255]
      BY <2>1, <2>3, Zenon
    <2>5. t \in UNION {[1 .. k -> 1 .. 255] : k \in Nat}
      BY <2>4, Zenon
    <2>6. Seq(1 .. 255) = UNION {[1 .. k -> 1 .. 255] : k \in Nat}
      BY SeqDef
    <2> QED
      BY <2>5, <2>6, Zenon
  <1> QED
    BY <1>7 DEF t

(* One more response.                                                      *)
LEMMA HrefsGrow ==
  ASSUME HrefsLeadBack, \E R : xml \in Seq(R), NEW r, xml' = Append(xml, r), Text' = Text,
         Text # <<>> => LeadsTo(r.href, r.path)
  PROVE  HrefsLeadBack'
  <1> DEFINE n == Len(xml)
  <1>1. /\ n \in Nat /\ (\E R : xml' \in Seq(R)) /\ Len(xml') = n + 1
        /\ \A i \in 1 .. n : xml'[i] = xml[i]
        /\ xml'[n + 1] = r
    <2> DEFINE s == xml
    <2> DEFINE a == Append(s, r)
    <2>1. /\ (\E R : a \in Seq(R)) /\ Len(s) \in Nat /\ Len(a) = Len(s) + 1
          /\ \A i \in 1 .. Len(s) : a[i] = s[i]
          /\ a[Len(s) + 1] = r
      BY AppendAny, ZenonT(60)
    <2>2. xml' = a
      OBVIOUS
    <2> HIDE DEF a
    <2> QED
      BY <2>1, <2>2
  <1>2. DOMAIN xml = 1 .. n /\ DOMAIN xml' = 1 .. n + 1
    BY <1>1, LenProperties
  <1>3. ASSUME NEW i \in 1 .. n + 1, Text # <<>> PROVE LeadsTo(xml'[i].href, xml'[i].path)
    <2>1. CASE i = n + 1
      BY <1>1, <1>3, <2>1
    <2>2. CASE i # n + 1
      <3>1. i \in 1 .. n
        BY <1>1, <2>2
      <3>2. LeadsTo(xml[i].href, xml[i].path)
        BY <1>2, <1>3, <3>1, HrefsAre, Zenon
      <3> QED
        BY <1>1, <3>1, <3>2
    <2> QED
      BY <2>1, <2>2
  <1>4. \A i \in DOMAIN xml' : Text' # <<>> => LeadsTo(xml'[i].href, xml'[i].path)
    BY <1>2, <1>3, Zenon
  <1> QED
    BY <1>4, Zenon DEF HrefsLeadBack, LeadsTo

LEMMA HrefsSelf ==
  ASSUME HrefsLeadBack, PropInv, HeadInv, url # "idle", PrintSelf, UNCHANGED <<buf, page>>
  PROVE  HrefsLeadBack'
  <1>1. Text' = Text
    BY DEF Text
  <1>2. CASE xml' = xml
    BY <1>1, <1>2, ZenonT(60) DEF HrefsLeadBack
  <1>3. CASE \E h \in EscapedPage : xml' = Append(xml, Response(h, Text))
    <2>1. PICK h \in EscapedPage : xml' = Append(xml, Response(h, Text))
      BY <1>3
    <2> DEFINE r == Response(h, Text)
    <2>2. r.href = h /\ r.path = Text
      BY DEF Response
    <2> HIDE DEF r
    <2>3. ASSUME Text # <<>> PROVE LeadsTo(r.href, r.path)
      <3>1. h = EscapeUri(Text, URILEN)
        BY <2>3 DEF EscapedPage
      <3>2. Text \in Seq(1 .. 255)
        BY TextTyped
      <3>3. Small(Text) => Spells(h, Text)
        BY <3>1, SmallSpelled
      <3> QED
        BY <2>2, <3>2, <3>3, SpelledLeads
    <2>4. \E R : xml \in Seq(R)
      BY DEF PropInv, PropTyped
    <2>5. xml' = Append(xml, r)
      BY <2>1 DEF r
    <2> QED
      BY <1>1, <2>3, <2>4, <2>5, HrefsGrow
  <1> QED
    BY <1>2, <1>3 DEF PrintSelf

LEMMA HrefsChild ==
  ASSUME HrefsLeadBack, PropInv, HeadInv, url # "idle", PrintChild, UNCHANGED <<buf, page>>
  PROVE  HrefsLeadBack'
  <1> DEFINE name == pq.kids[child + 1].name
  <1>1. Text' = Text
    BY DEF Text
  <1>2. /\ child < Len(pq.kids)
        /\ \/ xml' = xml
           \/ \E h \in EscapedPage :
                xml' = Append(xml, Response(h \o EscapeUri(name, URILEN), Text \o name))
    BY DEF PrintChild
  <1>3. name \in Seq(1 .. 255)
    <2>1. QueryType(pq) /\ child \in 0 .. Len(pq.kids)
      BY DEF PropInv, PropTyped, PropTypeOK
    <2>2. pq.kids \in Seq(KidType)
      BY <2>1 DEF QueryType
    <2>3. Len(pq.kids) \in Nat
      BY <2>2
    <2>4. child + 1 \in 1 .. Len(pq.kids)
      BY <1>2, <2>1, <2>3
    <2>5. pq.kids[child + 1] \in KidType
      BY <2>2, <2>4
    <2> QED
      BY <2>5 DEF KidType
  <1> HIDE DEF name
  <1>4. CASE xml' = xml
    BY <1>1, <1>4, ZenonT(60) DEF HrefsLeadBack
  <1>5. CASE xml' # xml
    <2>1. PICK h \in EscapedPage : xml' = Append(xml, Response(h \o EscapeUri(name, URILEN), Text \o name))
      BY <1>2, <1>5
    <2> DEFINE g == h \o EscapeUri(name, URILEN)
    <2> DEFINE r == Response(g, Text \o name)
    <2>2. r.href = g /\ r.path = Text \o name
      BY DEF Response
    <2>5. xml' = Append(xml, r)
      BY <2>1
    <2> HIDE DEF r
    <2>3. ASSUME Text # <<>> PROVE LeadsTo(r.href, r.path)
      <3>1. h = EscapeUri(Text, URILEN)
        BY <2>3 DEF EscapedPage
      <3>2. Text \in Seq(1 .. 255)
        BY TextTyped
      <3>3. ASSUME Small(Text \o name) PROVE Spells(g, Text \o name)
        <4>1. Small(Text) /\ Small(name)
          BY <1>3, <3>2, <3>3, SmallParts
        <4>2. Spells(h, Text) /\ Spells(EscapeUri(name, URILEN), name)
          BY <3>1, <4>1, SmallSpelled
        <4> QED
          BY <4>2, SpellsJoined
      <3>4. Text \o name \in Seq(1 .. 255)
        BY <1>3, <3>2, Slashes
      <3> HIDE DEF g
      <3> QED
        BY <2>2, <3>3, <3>4, SpelledLeads
    <2>4. \E R : xml \in Seq(R)
      BY DEF PropInv, PropTyped
    <2> QED
      BY <1>1, <2>3, <2>4, <2>5, HrefsGrow
  <1> QED
    BY <1>4, <1>5

LEMMA HrefsNext ==
  ASSUME HrefsLeadBack, WorkerInv, [Next]_vars
  PROVE  HrefsLeadBack'
  <1>0. HeadInv /\ Flow /\ PropInv
    BY DEF WorkerInv
  <1>1. ASSUME xml' = <<>> PROVE HrefsLeadBack'
    <2>1. DOMAIN xml' = {}
      BY <1>1
    <2> QED
      BY <2>1, Zenon DEF HrefsLeadBack
  <1>2. pf = "idle" => xml = <<>>
    BY <1>0 DEF PropInv, PropStage, Unsaid
  <1>3. pf # "idle" => answer # "idle" /\ url # "idle"
    BY <1>0 DEF Flow
  <1>4. CASE Properties
    <2>1. pf = "idle" /\ xml' = xml
      BY <1>4 DEF Properties, Propfind
    <2> QED
      BY <1>1, <1>2, <2>1
  <1>5. CASE Again
    BY <1>1, <1>5 DEF Again, PropReset
  <1>6. CASE PropertiesStep
    <2>1. PropStep /\ buf' = buf /\ page' = page
      BY <1>6 DEF PropertiesStep, headVars
    <2>2. CASE PrintSelf
      <3>1. url # "idle"
        BY <1>3, <2>2 DEF PrintSelf
      <3> QED
        BY <1>0, <2>1, <2>2, <3>1, HrefsSelf
    <2>3. CASE PrintChild
      <3>1. url # "idle"
        BY <1>3, <2>3 DEF PrintChild
      <3> QED
        BY <1>0, <2>1, <2>3, <3>1, HrefsChild
    <2>4. CASE Depth \/ SplitProp \/ SplitFails \/ SplitDone \/ PrintEnd
      <3>1. xml' = xml
        BY <2>4 DEF Depth, SplitProp, SplitFails, SplitDone, PrintEnd
      <3>2. Text' = Text
        BY <2>1 DEF Text
      <3> QED
        BY <3>1, <3>2, Zenon DEF HrefsLeadBack
    <2> QED
      BY <2>1, <2>2, <2>3, <2>4 DEF PropStep
  <1>7. CASE UNCHANGED propVars /\ ~Again
    <2>1. xml' = xml
      BY <1>7 DEF propVars
    <2>2. CASE pf = "idle"
      BY <1>1, <1>2, <2>1, <2>2
    <2>3. CASE pf # "idle"
      <3>1. HeadStill
        BY <1>0, <1>3, <1>7, <2>3, HeadMoves
      <3>2. Text' = Text
        BY <3>1 DEF HeadStill, headVars, Text
      <3> QED
        BY <2>1, <3>2, Zenon DEF HrefsLeadBack
    <2> QED
      BY <2>2, <2>3
  <1> QED
    BY <1>4, <1>5, <1>6, <1>7, PropMoves

(* A client that follows a link of a listing, or asks for an href of a     *)
(* PROPFIND answer, gets what the link was written for, whatever bytes the *)
(* names have: what uri_encode and escape_uri write is given back by       *)
(* replaceEscape, is not cut at a question mark, a blank or a "../", and   *)
(* fits in its buffer.                                                     *)
THEOREM NamesCorrect == Spec => []NamesLeadBack
  <1>1. Init => HrefsLeadBack
    <2> SUFFICES ASSUME Init PROVE HrefsLeadBack
      OBVIOUS
    <2>1. xml = <<>>
      BY DEF Init, PropInit
    <2>2. DOMAIN xml = {}
      BY <2>1
    <2> QED
      BY <2>2, Zenon DEF HrefsLeadBack
  <1>2. UrlRight /\ HrefsLeadBack => NamesLeadBack
    BY LinksRight DEF UrlRight, NamesLeadBack
  <1> QED
    BY <1>1, <1>2, HrefsNext, WorkerInvHolds, WorkerCorrect, PTL DEF Spec
=============================================================================

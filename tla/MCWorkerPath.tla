---------------------------- MODULE MCWorkerPath ----------------------------
(* Small instances of a worker.  A topic varies one part of the path and   *)
(* takes the rest as plain as it can be.                                   *)
EXTENDS WorkerPath

Upto(S, n) == UNION {[1 .. k -> S] : k \in 0 .. n}
Concat(ss) == LET all[k \in 0 .. Len(ss)] == IF k = 0 THEN <<>> ELSE all[k - 1] \o ss[k]
              IN  all[Len(ss)]

(* Letters.                                                                *)
a_ == 97
e_ == 101
h_ == 104
p_ == 112
x_ == 120
MCIndex == <<h_>>
MCCgis == << <<DOT, x_>>, <<p_>> >>
MCBasedir == <<SLASH>>
MCAddress == <<49>>
Home == << <<e_>>, <<SLASH, e_>> >>

(* ------------------------------------------------------ starting up *)
World(uid, gid, busy) == [uid |-> uid, gid |-> gid, busy |-> busy, env |-> {Home},
                          socket |-> TRUE, fork |-> TRUE, memory |-> TRUE]
Root == World(0, 0, {})
Worlds == {Root, World(5, 6, {}), World(0, 0, {5}), [Root EXCEPT !.fork = FALSE],
           [Root EXCEPT !.socket = FALSE], [Root EXCEPT !.memory = FALSE]}

O(o, arg) == <<o, arg>>
F(o) == <<o, <<>> >>
Path(is) == [path |-> <<SLASH, a_>>, is |-> is]
Here == [path |-> <<DOT>>, is |-> "dir"]
Lists == {<<>>, <<a_>>, <<a_, COMMA, e_>>, <<a_, COMMA, e_, COMMA, h_, COMMA, p_>>,
          <<COMMA, a_>>, <<a_, COMMA, COMMA, e_>>, <<a_, COMMA>>,
          <<a_, COMMA, e_, COMMA, h_, COMMA, p_, COMMA, x_>>}
Hosts == {<<a_, EQUALS, SLASH>>, <<a_, EQUALS, h_, COMMA, p_, EQUALS, x_, COMMA, a_, EQUALS, p_>>}
Options == {F(o) : o \in Flags \cup {"k", "unknown"}}
           \cup {O("p", n) : n \in {0, 1, 5, 8, 17}} \cup {O("i", v) : v \in {"good", "bad"}}
           \cup {O("u", 5), O("u", 9), O("g", 6), O("g", 7)}
           \cup {O(o, v) : o \in {"S", "K"}, v \in {"good", "bad"}}
           \cup {O("b", Path(is)) : is \in {"dir", "file", "missing"}}
           \cup {O("C", v) : v \in {"dir", "file"}} \cup {O("a", v) : v \in {"socket", "file"}}
           \cup {O(o, l) : o \in {"c", "I"}, l \in Lists} \cup {O("V", l) : l \in Hosts}
Privileged == {O("p", 1), O("p", 5), O("u", 5), O("u", 9), O("g", 6), F("d"), F("T")}

Start(argv, topic) == [argv |-> argv, world |-> Root, topic |-> topic]
BootCases == {[argv |-> v, world |-> w, topic |-> "boot"] :
                v \in Upto(Options, 1) \cup [1 .. 3 -> Privileged], w \in Worlds}
             \cup {Start(v, "boot") : v \in [1 .. 2 -> Options]}

(* ------------------------------------------------------------- heads *)
Request(target) == <<G, SP>> \o target \o <<SP, h_>> \o CRLFCRLF
Said(text, slow) == [text |-> text, stall |-> slow]
Long(n) == Request(<<SLASH>> \o [i \in 1 .. n |-> a_])
Tails == Upto({CR, LF, h_}, 5)
HeadTexts ==
  {Said(<<G, SP, SLASH, SP>> \o t, TRUE) : t \in Tails}
  \cup {Said(Long(i) \o Long(j) \o Long(k), TRUE) : i \in 0 .. 1, j \in 0 .. 1, k \in 0 .. 1}
  \cup {Said(Long(n), TRUE) : n \in INBUFFER - 12 .. INBUFFER - 6}
  \cup {Said(t, FALSE) : t \in {<<h_, SP>> \o CRLFCRLF, <<G>> \o CRLFCRLF, <<G, SP>> \o CRLFCRLF,
                                <<G, SP, SP, SLASH>> \o CRLFCRLF,
                                <<G, SP, NUL>> \o CRLFCRLF \o Long(0), Long(0) \o <<NUL>> \o Long(0)}}

(* -------------------------------------------------------------- URLs *)
Pieces == {<<a_>>, <<SLASH>>, <<DOT>>, <<DOT, DOT, SLASH>>, <<QMARK>>, <<DOT, x_>>, <<PERCENT>>,
           <<PERCENT, 50>>, <<PERCENT, 50, 101>>, <<PERCENT, 50, 102>>, <<PERCENT, 50, 53>>,
           <<PERCENT, 48, 48>>, <<PERCENT, 51, 102>>, <<PERCENT, x_, 45>>, <<50, 53>>}
Urls == {<<SLASH>> \o Concat(ps) : ps \in Upto(Pieces, 3)}

(* ------------------------------------------------------- credentials *)
Zeros == <<NUL, NUL, NUL, NUL>>
Claim(form, text, stale) == [form |-> form, text |-> text, stale |-> stale \o Zeros]
MCClaims ==
  {Anonymous, Claim("open", <<a_>>, <<>>)}
  \cup {Claim("base64", t, <<a_>>) : t \in Upto({a_, COLON}, 3) \cup
          {<<a_, 255, COLON, 240, 15>>, <<1, COLON, 63, 64>>, [i \in 1 .. 12 |-> COLON],
           <<a_, COLON, e_, NUL, a_>>, <<a_, NUL, COLON>>, <<a_, COLON, CR, LF>>}}
  \cup {Claim("base64", <<>>, <<a_, COLON>>)}
  \cup {Claim("bytes", SubSeq(<<89, 84, 112, 104, 89, 84>>, 1, n), s) :      \* "YTphYT"
          n \in 1 .. 6, s \in {<<>>, <<89, 84, 112, 104>>}}
  \cup {Claim("bytes", <<61, 1, 255, 59>>, <<>>)}

(* ------------------------------------------------------------ ranges *)
Bounds == {[kind |-> "bounds", from |-> f, to |-> t] :
             f \in {Empty, 0, 1, 3, HALF - 1}, t \in {Empty, 0, 1, 2, 3, HALF - 1, Word - 2, Word - 1}}
Rng(v) == [name |-> "Range", value |-> v]
IfRange(n) == [name |-> "If-Range", value |-> [kind |-> "etag", etag |-> n]]
IfNoneMatch(n) == [name |-> "If-None-Match", value |-> [kind |-> "etag", etag |-> n]]
FieldLists == {<<>>, <<IfNoneMatch(1)>>, <<IfNoneMatch(2)>>, <<IfNoneMatch(1), IfRange(2)>>,
               <<IfNoneMatch(2), IfNoneMatch(1)>>,
               <<IfNoneMatch(2), Rng([kind |-> "bad"])>>, <<IfRange(1)>>, <<IfRange(2)>>}
              \cup UNION {{<<Rng(v)>>, <<Rng(v), IfRange(1)>>, <<Rng(v), IfRange(2)>>,
                           <<IfRange(1), Rng(v)>>, <<IfRange(2), Rng(v)>>} :
                             v \in Bounds \cup {[kind |-> "bad"]}}
Files == {[size |-> n, mtime |-> 1, mime |-> FALSE, threaded |-> TRUE, fields |-> fs] :
            n \in {0, 1, 3}, fs \in FieldLists}

(* ---------------------------------------------------------- listings *)
Rows == [kind : {"file"}, len : 1 .. ROWMAX]
        \cup {[kind |-> k, len |-> 2] : k \in {"dir", "special", "hidden"}}

(* ------------------------------------------------- names and scripts *)
MCNames == (Upto({a_, PERCENT, QMARK, SP, DOT, 195}, 3) \ {<<>>, <<DOT>>, <<DOT, DOT>>})
           \cup {<<34, 38, 60, 62>>, <<33, 39, 42, 92>>, <<91, 35, 93, 58>>}
MCHost == <<72>>                   \* H
MCLength == <<67, 95, 76>>         \* C_L
MCType == <<67, 95, 84>>           \* C_T
Field(name, value) == name \o <<COLON, SP>> \o value
Lines == {Field(<<h_>>, <<a_, COLON, SP>>), Field(<<72>>, <<e_>>), Field(<<99, 45, 108>>, <<49>>),
          Field(<<67, 45, 84>>, <<a_>>), Field(<<a_, 45, 45, e_>>, <<>>), <<a_, COLON, e_>>, <<a_>>}
Heads == {<< <<p_>> >> \o ls : ls \in Upto(Lines, 2)}

(* -------------------------------------------------------- properties *)
Element(name, pair, blank) == [name |-> name, pair |-> pair, blank |-> blank]
Elems == {Element(n, FALSE, FALSE) : n \in {"getetag", "getcontenttype", "other"}}
         \cup {Element("resourcetype", p, b) : p \in BOOLEAN, b \in BOOLEAN}
Bodies == {NoBody} \cup {[empty |-> FALSE, tags |-> t, items |-> es] :
                           t \in BOOLEAN, es \in Upto(Elems, 1) \cup [1 .. 2 -> Elems]}
          \cup {[empty |-> FALSE, tags |-> TRUE, items |-> es] :
                  es \in {f \in Upto(Elems, 4) : Len(f) \in {3, 4} /\ \A i \in 2 .. Len(f) : f[i] # f[i - 1]
                                                 /\ (Len(f) = 4 => \A j \in 1 .. 4 : ~f[j].blank /\ ~f[j].pair)}}
Kids == {Kid(<<DOT>>, TRUE), Kid(<<DOT, DOT>>, TRUE), Kid(<<DOT, h_>>, TRUE), Kid(<<a_>>, TRUE),
         Kid(<<e_>>, FALSE), Kid(<<PERCENT, QMARK>>, TRUE), Kid(<<SP, 195, 169>>, TRUE)}
AskBody(b) == [NoQuery EXCEPT !.body = b, !.is = "file"]
AskTree(is, depth, kids, l) == [NoQuery EXCEPT !.is = is, !.depth = depth, !.kids = kids, !.listable = l]
Trees == {AskTree("dir", "1", ks, TRUE) : ks \in Upto(Kids, 2)}
         \cup {AskTree(is, d, <<Kid(<<a_>>, TRUE)>>, l) :
                 is \in {"dir", "file", "missing"}, d \in {"0", "1", "infinity"}, l \in BOOLEAN}
         \cup {[AskTree(is, d, <<Kid(<<a_>>, TRUE), Kid(<<h_>>, TRUE)>>, l) EXCEPT !.open = FALSE] :
                 is \in {"dir", "file"}, d \in {"0", "1"}, l \in BOOLEAN}
Typed == AskBody([empty |-> FALSE, tags |-> TRUE,
                  items |-> <<Element("getcontenttype", FALSE, FALSE)>>])

(* ------------------------------------------------------------ topics *)
One == [NoAsk EXCEPT !.what = "file"]
Kept == [One EXCEPT !.keep = TRUE]
MCCases ==
  BootCases
  \cup {Start(<<>>, "head"), Start(<<F("Y")>>, "url"), Start(<<O("a", "socket")>>, "auth")}
  \cup {Start(v, "range") : v \in {<<>>, <<F("m")>>, <<F("m"), F("T")>>}}
  \cup {Start(v, "list") : v \in {<<>>, <<O("b", Path("dir"))>>}}
  \cup {Start(v, "directory") : v \in {<<>>, <<F("t")>>, <<O("I", <<a_, COMMA, e_>>)>>}}
  \cup {Start(v, "script") : v \in {<<>>, <<F("Y")>>,
           <<F("Y"), O("c", <<x_, COMMA, p_, COMMA, DOT, x_, COMMA, h_>>)>>}}
  \cup {Start(<<>>, "links"), Start(<<>>, "forbidden")}
  \cup {Start(<<O("a", "socket")>>, t) : t \in {"bodies", "trees"}}
  \cup {Start(<<O("a", "socket"), O("b", Path("dir"))>>, "trees")}
  \cup {Start(<<O("a", "socket"), F("T")>>, "typed")}
  \cup {Start(<<F("Y"), O("c", <<x_, COMMA>>), O("b", b)>>, "environment") :
          b \in {Path("dir"), Here}}
  \cup {Start(<<F("Y"), O("V", <<a_, EQUALS, SLASH>>)>>, "environment")}
  \cup {Start(v, "host") : v \in {<<>>} \cup {<<O("V", l)>> : l \in Hosts}
                                  \cup {<<O("V", l), O("V", m)>> : l \in Hosts, m \in Hosts}}

MCTexts(topic, k) ==
  CASE topic = "boot"      -> {}
    [] topic = "head"      -> IF k = 1 THEN HeadTexts ELSE {Said(Long(1), FALSE), Said(<<G>>, FALSE)}
    [] topic = "url"       -> IF k = 1 THEN {Said(Request(u), FALSE) : u \in Urls} ELSE {}
    [] topic = "auth"      -> IF k = 1 THEN {Said(Long(0) \o Long(1), FALSE),
                                           Said(Request(<<SLASH, PERCENT, 48, 100, PERCENT, 48, 97>>), FALSE)} ELSE {}
    [] topic \in {"list", "directory"} ->
         IF k = 1 THEN {Said(Request(u), FALSE) : u \in {<<SLASH>>, <<SLASH, a_, SLASH>>, <<SLASH, a_>>, ParentDir}}
         ELSE {}
    [] topic = "script"    ->
         IF k = 1 THEN {Said(Request(<<SLASH>> \o Concat(ps)), FALSE) :
                          ps \in Upto({<<x_>>, <<DOT>>, <<p_>>, <<PERCENT, 50, 101>>}, 3)}
         ELSE {}
    [] topic = "links"     ->
         IF k = 1 THEN {Said(Request(<<SLASH>> \o UriEncode(n, FNAMELEN) \o s), FALSE) :
                          n \in Names, s \in {<<>>, <<SLASH>>}}
         ELSE {}
    [] topic = "environment" ->
         IF k = 1 THEN {Said(Request(<<SLASH>> \o u), FALSE) :
                          u \in {<<DOT, x_>>, <<DOT, x_, QMARK>>, <<DOT, x_, QMARK, a_, PERCENT, 50, 53>>,
                                 <<PERCENT, 50, 53, DOT, x_, QMARK, a_>>}}
                       \cup {Said(Request(<<a_, DOT, x_>>), FALSE)}
         ELSE {}
    [] topic = "trees" ->
         IF k = 1 THEN {Said(Request(u), FALSE) : u \in {<<SLASH>>, <<SLASH, a_, PERCENT, 50, 53, SLASH>>,
                                                        <<SLASH, a_>>, ParentDir}}
         ELSE {}
    [] OTHER               -> IF k = 1 THEN {Said(Long(0), FALSE)} ELSE {}

MCAsks(topic) ==
  CASE topic = "head"      -> {Kept}
    [] topic = "auth"      -> {[Kept EXCEPT !.who = c] : c \in MCClaims}
    [] topic = "range"     -> {[One EXCEPT !.want = f] : f \in Files}
    [] topic = "list"      -> {[NoAsk EXCEPT !.what = "directory", !.entries = es] : es \in Upto(Rows, 3)}
    [] topic = "directory" -> {[NoAsk EXCEPT !.what = "directory", !.found = f, !.memory = m, !.readable = r,
                                   !.want.fields = w] : w \in {<<>>, <<IfNoneMatch(0)>>, <<IfNoneMatch(1)>>},
                                 f \in SUBSET {<<h_>>, <<e_>>}, m \in BOOLEAN, r \in BOOLEAN}
    [] topic = "environment" -> {[One EXCEPT !.lines = ls] : ls \in Heads}
    [] topic = "links"     -> {NoAsk}
    [] topic \in {"bodies", "trees", "typed", "forbidden"} ->
         {[NoAsk EXCEPT !.what = "properties", !.query = q] :
            q \in CASE topic = "bodies" -> {AskBody(b) : b \in Bodies}
                   [] topic = "trees"  -> Trees
                   [] OTHER -> {Typed, [Typed EXCEPT !.is = "dir", !.open = FALSE, !.depth = "1",
                                                     !.kids = <<Kid(<<a_>>, TRUE)>>]}}
    [] topic = "host"      -> {[NoAsk EXCEPT !.host = h] : h \in {Unset, <<a_>>, <<p_>>, <<e_>>, <<h_>>}}
    [] OTHER               -> {One, NoAsk}
=============================================================================

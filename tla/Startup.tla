------------------------------ MODULE Startup -------------------------------
(***************************************************************************)
(* From the command line to the first connection: configuration_load and   *)
(* its setters (configuration.c), cache_init, auth_set_socket, main with   *)
(* set_new_gid and set_new_uid (listener.c), net_bind_and_listen (mynet.c) *)
(* and daemonize (utils.c).  An option is a pair: its letter and its       *)
(* argument.  A path is what is found there (with its name, when that is   *)
(* used), a number its value, a list its characters.                       *)
(***************************************************************************)
EXTENDS CStrings, FiniteSets

CONSTANTS MAXINDEXCOUNT,        \* size of the arrays of indexes and of CGIs
          MAXPORT, UINT,        \* 65535, and 2 to the bits of unsigned int
          PRIVPORT,             \* 1024: ports below it are for root
          PORT, BASEDIR, INDEX, CGIS,    \* defaults
          Unset                 \* a null pointer in the configuration

ASSUME PortsOrdered == {MAXPORT, UINT, PRIVPORT, PORT} \subseteq Nat /\ MAXPORT < UINT
ASSUME IndexCountPositive == MAXINDEXCOUNT \in Nat \ {0, 1}
ASSUME DefaultsTyped == /\ {BASEDIR, INDEX} \subseteq Seq(0 .. 255) /\ CGIS \in Seq(Seq(0 .. 255))
                        /\ Len(CGIS) < MAXINDEXCOUNT /\ Len(CGIS) % 2 = 0

NOMEM == 7

VARIABLES cmdline,      \* the options
          world,        \* what the process finds: see WorldType
          boot,         \* where main is
          argi,         \* options read
          conf,         \* weborf_conf
          env,          \* environment: name -> value, as a set of pairs
          cred,         \* user and group of the process
          bound,        \* port the server listens on, or 0
          code          \* exit code

bootVars == <<cmdline, world, boot, argi, conf, env, cred, bound, code>>

(* uid, gid: who starts it; busy: ports in use; env: its environment; the  *)
(* rest: what succeeds.                                                    *)
WorldType(w) ==
  /\ w.uid \in Nat /\ w.gid \in Nat /\ w.busy \subseteq 1 .. MAXPORT
  /\ {w.socket, w.fork, w.memory} \subseteq BOOLEAN
  /\ \A p \in w.env : p \in Seq(0 .. 255) \X Seq(0 .. 255)

(* A command line: any options, with arguments of their kinds.             *)
OptionType(o) ==
  /\ o[1] \in {"c", "I", "V"} => o[2] \in Seq(0 .. 255)
  /\ o[1] = "b" => o[2].path \in Seq(0 .. 255)
  /\ o[1] \in {"p", "u", "g"} => o[2] \in Nat
  /\ o[1] \in {"S", "K"} => o[2] # Unset
CommandLine(argv) ==
  Len(argv) \in Nat /\ DOMAIN argv = 1 .. Len(argv) /\ \A k \in DOMAIN argv : OptionType(argv[k])

BootTypeOK ==
  /\ WorldType(world) /\ argi \in 0 .. Len(cmdline)
  /\ boot \in {"options", "net", "gid", "uid", "daemon", "queue", "serving", "inetd",
               "exited"}
  /\ bound \in 0 .. MAXPORT /\ code \in {0, 1, 2, 3, 4, 5, 6, NOMEM, 9, 10, 19}
  /\ cred \in [uid : Nat, gid : Nat]

Flags == {"t", "T", "Y", "d", "m"}
Informs == {"k", "v", "h", "M"}
Values == {"p", "i", "u", "g", "S", "K"}

DefaultConf ==
  [o \in Flags \cup Values \cup {"b", "C", "a", "V", "c", "I"} |->
     CASE o \in Flags \cup {"V"} -> FALSE
       [] o = "p"                -> PORT
       [] o \in {"u", "g"}       -> 0
       [] o = "b"                -> BASEDIR
       [] o = "c"                -> CGIS
       [] o = "I"                -> <<INDEX>>
       [] OTHER                  -> Unset]

BootInit(argv, w) ==
  /\ cmdline = argv /\ world = w /\ boot = "options" /\ argi = 0
  /\ conf = DefaultConf /\ env = w.env /\ cred = [uid |-> w.uid, gid |-> w.gid]
  /\ bound = 0 /\ code = 0

Exit(n) == boot' = "exited" /\ code' = n
Continue == UNCHANGED <<boot, code>>

(* The option getopt_long returns next.                                    *)
Opt == cmdline[argi + 1][1]
Arg == cmdline[argi + 1][2]
Reads(options) ==
  /\ boot = "options" /\ argi < Len(cmdline) /\ Opt \in options
  /\ argi' = argi + 1 /\ UNCHANGED <<cmdline, world, cred, bound>>
Set(o, v) == conf' = [conf EXCEPT ![o] = v]

OptInforms == Reads(Informs) /\ Exit(0) /\ UNCHANGED <<conf, env>>
OptFlag == Reads(Flags) /\ Set(Opt, TRUE) /\ Continue /\ UNCHANGED env
OptValue == Reads(Values) /\ Set(Opt, Arg) /\ Continue /\ UNCHANGED env
OptUnknown == Reads({"unknown"}) /\ Exit(19) /\ UNCHANGED <<conf, env>>

(* configuration_set_basedir reads what stat left in stat_buf even when it *)
(* failed, so a path that does not exist may be taken for anything.        *)
OptBasedir ==
  /\ Reads({"b"}) /\ UNCHANGED env
  /\ \/ Arg.is \in {"dir", "missing"} /\ Set("b", Arg.path) /\ Continue
     \/ Arg.is # "dir" /\ Exit(1) /\ UNCHANGED conf

OptCache ==
  /\ Reads({"C"}) /\ UNCHANGED env /\ Set("C", Arg)
  /\ IF Arg = "dir" THEN Continue ELSE Exit(10)
OptAuth ==
  /\ Reads({"a"}) /\ UNCHANGED env
  /\ IF Arg = "socket" THEN Set("a", Arg) /\ Continue ELSE Exit(5) /\ UNCHANGED conf

(* The places where a list is cut.  The loop of configuration_set_cgi      *)
(* looks at every character but the first; the ones of the index list and  *)
(* of the virtual hosts also skip the character behind a comma they cut.   *)
CgiCuts(list) == {i \in 2 .. Len(list) : list[i] = COMMA}
ListCuts(list) ==
  LET cut[i \in 1 .. Len(list)] == i > 1 /\ list[i] = COMMA /\ ~cut[i - 1]
  IN  {i \in 1 .. Len(list) : cut[i]}

(* The strings a list is cut into; the n-th number of a set has n smaller  *)
(* ones.                                                                   *)
Nth(set, n) == CHOOSE i \in set : Cardinality({j \in set : j < i}) = n
Items(list, cuts) ==
  LET ends == cuts \cup {0, Len(list) + 1}
  IN  [k \in 1 .. Cardinality(cuts) + 1 |-> SubSeq(list, Nth(ends, k - 1) + 1, Nth(ends, k) - 1)]

(* configuration_set_cgi: extensions and the programs to run them with.    *)
OptCgi ==
  LET items == Items(Arg, CgiCuts(Arg))
  IN /\ Reads({"c"}) /\ UNCHANGED env
     /\ IF Arg = <<>> THEN Set("c", <<>>) /\ Continue
        ELSE IF \/ Len(items) >= MAXINDEXCOUNT \/ Len(items) % 2 = 1
                \/ \E k \in DOMAIN items : k % 2 = 1 /\ items[k] = <<>>
        THEN Exit(6) /\ UNCHANGED conf
        ELSE Set("c", items) /\ Continue

(* configuration_set_index_list                                            *)
OptIndex ==
  LET items == Items(Arg, ListCuts(Arg))
  IN /\ Reads({"I"}) /\ UNCHANGED env
     /\ IF Len(items) >= MAXINDEXCOUNT THEN Exit(6) /\ UNCHANGED conf
                                       ELSE Set("I", items) /\ Continue

(* configuration_set_virtualhost puts every item into the environment, one *)
(* after the other, so that the last one for a name counts; putenv of a    *)
(* name alone removes it.                                                  *)
EQUALS == 61
Splits(item) == {i \in DOMAIN item : item[i] = EQUALS}
SplitAt(item) == CHOOSE i \in Splits(item) : \A j \in Splits(item) : i <= j
Key(item) == IF Splits(item) = {} THEN item ELSE SubSeq(item, 1, SplitAt(item) - 1)
PutEnv(e, items) ==
  {p \in e : \A k \in DOMAIN items : p[1] # Key(items[k])}
  \cup {<<Key(items[k]), SubSeq(items[k], SplitAt(items[k]) + 1, Len(items[k]))>> :
           k \in {j \in DOMAIN items : /\ Splits(items[j]) # {}
                                       /\ \A l \in DOMAIN items : l > j => Key(items[l]) # Key(items[j])}}
OptVirtual ==
  /\ Reads({"V"}) /\ Set("V", TRUE) /\ Continue
  /\ env' = PutEnv(env, Items(Arg, ListCuts(Arg)))

ReadOption ==
  \/ OptInforms \/ OptFlag \/ OptValue \/ OptUnknown \/ OptBasedir \/ OptCache \/ OptAuth
  \/ OptCgi \/ OptIndex \/ OptVirtual

(* The end of configuration_load: the certificate and the key are loaded,  *)
(* then inetd() serves its one connection as the process is.               *)
OptionsDone ==
  /\ boot = "options" /\ argi = Len(cmdline)
  /\ IF conf.S # Unset \/ conf.K # Unset
     THEN IF conf.t \/ conf.S # "good" \/ conf.K # "good"
          THEN Exit(19)
          ELSE boot' = (IF conf.T THEN "inetd" ELSE "net") /\ UNCHANGED code
     ELSE boot' = (IF conf.T THEN "inetd" ELSE "net") /\ UNCHANGED code
  /\ UNCHANGED <<cmdline, world, argi, conf, env, cred, bound>>

(* net_create_server_socket and net_bind_and_listen.  A socket that could  *)
(* not be set up is -1 and fails in bind.                                  *)
Port == conf.p % UINT
BindAndListen ==
  /\ boot = "net"
  /\ IF Port < 1 \/ Port > MAXPORT THEN Exit(4) /\ UNCHANGED bound
     ELSE IF conf.i = "bad" THEN Exit(2) /\ UNCHANGED bound
     ELSE IF ~world.socket \/ Port \in world.busy \/ (Port < PRIVPORT /\ cred.uid # 0)
     THEN Exit(3) /\ UNCHANGED bound
     ELSE boot' = "gid" /\ bound' = Port /\ UNCHANGED code
  /\ UNCHANGED <<cmdline, world, argi, conf, env, cred>>

(* setgid and setuid: root may take any, others only what they have.  The  *)
(* mutant sets the user first.                                             *)
SetUidFirst ==
  /\ boot = "gid"
  /\ IF conf.g = 0 THEN boot' = "uid" /\ UNCHANGED <<cred, code>>
     ELSE IF (cred.uid = 0 /\ conf.u = 0) \/ conf.g = cred.gid
     THEN boot' = "uid" /\ cred' = [cred EXCEPT !.gid = conf.g] /\ UNCHANGED code
     ELSE Exit(9) /\ UNCHANGED cred
  /\ UNCHANGED <<cmdline, world, argi, conf, env, bound>>
SetNewGid ==
  /\ boot = "gid"
  /\ IF conf.g = 0 THEN boot' = "uid" /\ UNCHANGED <<cred, code>>
     ELSE IF cred.uid = 0 \/ conf.g = cred.gid
     THEN boot' = "uid" /\ cred' = [cred EXCEPT !.gid = conf.g] /\ UNCHANGED code
     ELSE Exit(9) /\ UNCHANGED cred
  /\ UNCHANGED <<cmdline, world, argi, conf, env, bound>>
SetNewUid ==
  /\ boot = "uid"
  /\ IF conf.u = 0 THEN boot' = "daemon" /\ UNCHANGED <<cred, code>>
     ELSE IF cred.uid \in {0, conf.u}
     THEN boot' = "daemon" /\ cred' = [cred EXCEPT !.uid = conf.u] /\ UNCHANGED code
     ELSE Exit(9) /\ UNCHANGED cred
  /\ UNCHANGED <<cmdline, world, argi, conf, env, bound>>

(* The parent exits, and so does a process that could not fork.            *)
Daemonize ==
  /\ boot = "daemon"
  /\ IF conf.d /\ ~world.fork THEN Exit(0) ELSE boot' = "queue" /\ UNCHANGED code
  /\ UNCHANGED <<cmdline, world, argi, conf, env, cred, bound>>

QInit ==
  /\ boot = "queue"
  /\ IF world.memory THEN boot' = "serving" /\ UNCHANGED code ELSE Exit(NOMEM)
  /\ UNCHANGED <<cmdline, world, argi, conf, env, cred, bound>>

BootStep == ReadOption \/ OptionsDone \/ BindAndListen \/ SetNewGid \/ SetNewUid \/ Daemonize
            \/ QInit
-----------------------------------------------------------------------------
(* Where the options o are on the command line, and the argument of the    *)
(* last of them.                                                           *)
Uses(o) == {k \in DOMAIN cmdline : cmdline[k][1] = o}
Given(o) == Uses(o) # {}
Latest(set) == CHOOSE k \in set : \A j \in set : j <= k
Final(o, default) == IF Given(o) THEN cmdline[Latest(Uses(o))][2] ELSE default
AllArgs(o, set) == \A k \in Uses(o) : cmdline[k][2] \in set

(* The list of strings a user means: no comma in any, none empty.          *)
NoEmpty(list) == /\ list # <<>> /\ list[1] # COMMA /\ list[Len(list)] # COMMA
                 /\ \A i \in 1 .. Len(list) - 1 : ~(list[i] = COMMA /\ list[i + 1] = COMMA)
Commas(list) == Cardinality({i \in DOMAIN list : list[i] = COMMA})
CgiGood(list) == list = <<>> \/ (NoEmpty(list) /\ Commas(list) % 2 = 1
                                 /\ Commas(list) + 1 < MAXINDEXCOUNT)

(* What a user can expect to be served, whatever the order of the options. *)
OptionsGood ==
  /\ ~\E o \in Informs \cup {"unknown"} : Given(o)
  /\ \A k \in Uses("b") : cmdline[k][2].is = "dir"
  /\ AllArgs("C", {"dir"}) /\ AllArgs("a", {"socket"})
  /\ \A k \in Uses("c") : CgiGood(cmdline[k][2])
  /\ \A k \in Uses("I") : Commas(cmdline[k][2]) + 1 < MAXINDEXCOUNT
  /\ (Given("S") \/ Given("K")) =>
       ~Given("t") /\ Final("S", Unset) = "good" /\ Final("K", Unset) = "good"
NetworkGood ==
  LET p == Final("p", PORT)
  IN  /\ p \in 1 .. MAXPORT /\ p \notin world.busy /\ (p < PRIVPORT => world.uid = 0)
      /\ Final("i", Unset) # "bad" /\ world.socket
OwnersGood ==
  /\ Final("g", 0) = 0 \/ world.uid = 0 \/ Final("g", 0) = world.gid
  /\ Final("u", 0) = 0 \/ world.uid \in {0, Final("u", 0)}
MayServe ==
  OptionsGood /\ (Given("T") \/ (NetworkGood /\ OwnersGood /\ world.memory))

(* Cases the code leaves open: a base directory that does not exist, lists *)
(* with empty items, and a port that is in range only once it has been     *)
(* reduced to an unsigned int.                                             *)
Undefined ==
  \/ \E k \in Uses("b") : cmdline[k][2].is = "missing"
  \/ \E k \in Uses("c") \cup Uses("I") : cmdline[k][2] # <<>> /\ ~NoEmpty(cmdline[k][2])
  \/ Final("p", PORT) >= UINT

(* The server comes up exactly when everything asked of it is possible, on *)
(* the port it was given, and a failure is reported by an exit code.  The  *)
(* order of the steps matters: root's rights are needed to bind the port   *)
(* and to change the group, and are gone once the user is changed.         *)
(* Excepted: Undefined, and a daemon whose fork fails, which exits with 0. *)
ServesWhenPossible ==
  ~Undefined =>
    /\ boot \in {"serving", "inetd"} => MayServe
    /\ boot = "exited" /\ MayServe => Given("d") /\ ~world.fork
    /\ boot = "exited" /\ code = 0 =>
         (\E o \in Informs : Given(o)) \/ (Given("d") /\ ~world.fork)
    /\ boot = "serving" => bound = Final("p", PORT)

(* No connection is served with more rights than were asked for: once the  *)
(* threads start, the user and the group are those of the options.         *)
(* Excepted: under inetd they are never changed.                           *)
RightsDropped ==
  boot = "serving" =>
    /\ cred.uid = IF Final("u", 0) = 0 THEN world.uid ELSE Final("u", 0)
    /\ cred.gid = IF Final("g", 0) = 0 THEN world.gid ELSE Final("g", 0)

(* The strings of a list joined again by commas.                           *)
Joined(items) ==
  LET upto[k \in 1 .. Len(items)] ==
        IF k = 1 THEN items[1] ELSE upto[k - 1] \o <<COMMA>> \o items[k]
  IN  upto[Len(items)]

(* The lists in use are the lists given: cut at every comma and nowhere    *)
(* else, in order, within the arrays that hold them.  Stated for lists     *)
(* without empty items.                                                    *)
ListsKept ==
  boot \in {"serving", "inetd"} =>
    /\ Len(conf.c) < MAXINDEXCOUNT /\ Len(conf.I) < MAXINDEXCOUNT
    /\ Given("I") /\ NoEmpty(Final("I", <<>>)) =>
         /\ Joined(conf.I) = Final("I", <<>>)
         /\ Len(conf.I) = Commas(Final("I", <<>>)) + 1
    /\ Given("c") /\ NoEmpty(Final("c", <<>>)) =>
         /\ Joined(conf.c) = Final("c", <<>>)
         /\ Len(conf.c) = Commas(Final("c", <<>>)) + 1

(* All three: the server that comes up is the one the command line asks    *)
(* for.                                                                    *)
StartsAsAsked == ServesWhenPossible /\ RightsDropped /\ ListsKept
=============================================================================

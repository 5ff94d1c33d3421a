------------------------------- MODULE CgiEnv -------------------------------
(***************************************************************************)
(* The environment of a script: what cgi_execute_child (cgi.c) sets in the *)
(* child before it runs the script.  A variable is <<kind, name>>; names   *)
(* and values are texts.  The child works on its own copy of the buffer,   *)
(* so nothing of this is seen by the worker.                               *)
(***************************************************************************)
EXTENDS UrlPath

CONSTANTS HOST, CLENGTH, CTYPE      \* the names HOST, CONTENT_LENGTH and CONTENT_TYPE

VARIABLES cgi,          \* where cgi_execute_child is
          lines,        \* http_param, the line with the protocol first
          line_no,      \* lines that strtok_r has passed
          cenv,         \* environ
          exec          \* what is run, in which directory, with which argument

cgiVars == <<cgi, lines, line_no, cenv, exec>>

NoExec == [program |-> <<>>, dir |-> <<>>, file |-> <<>>]

EnvTypeOK ==
  /\ cgi \in {"idle", "http", "vars", "length", "exec", "done"}
  /\ line_no \in 0 .. Len(lines)
  /\ \A v \in DOMAIN cenv : cenv[v] \in Seq(0 .. 255)

CgiInit == cgi = "idle" /\ lines = <<>> /\ line_no = 0 /\ cenv = <<>> /\ exec = NoExec

Var(name) == <<name, <<>> >>
HttpVar(name) == <<"HTTP", name>>

(* setenv for every variable of new.                                       *)
SetEnv(e, new) == [v \in DOMAIN e \cup DOMAIN new |-> IF v \in DOMAIN new THEN new[v] ELSE e[v]]

(* cgi_execute_child: environ is emptied, and the first line is the        *)
(* protocol.                                                               *)
CgiStart(head) ==
  /\ cgi = "idle" /\ cgi' = "http" /\ lines' = head /\ line_no' = 1
  /\ cenv' = [v \in {Var("SERVER_PROTOCOL")} |-> head[1]]
  /\ UNCHANGED exec

(* strToUpper and strReplace(param, "-", '_').                             *)
Upper(c) == IF c \in 97 .. 122 THEN c - 32 ELSE c
EnvName(name) == [i \in DOMAIN name |-> IF name[i] = 45 THEN 95 ELSE Upper(name[i])]

(* cgi_set_http_env_vars: a line is split at its first ": ", and one       *)
(* without is left out.                                                    *)
Colons(text) == {i \in 1 .. Len(text) - 1 : text[i] = COLON /\ text[i + 1] = SP}
CgiHttpVar ==
  LET text == lines[line_no + 1]
      at == CHOOSE i \in Colons(text) : \A j \in Colons(text) : i <= j
  IN /\ cgi = "http" /\ line_no < Len(lines)
     /\ cenv' = IF Colons(text) = {} THEN cenv
                ELSE SetEnv(cenv, [v \in {HttpVar(EnvName(SubSeq(text, 1, at - 1)))} |->
                                     SubSeq(text, at + 2, Len(text))])
     /\ line_no' = line_no + 1
     /\ UNCHANGED <<cgi, lines, exec>>
CgiHttpDone ==
  /\ cgi = "http" /\ line_no = Len(lines) /\ cgi' = "vars"
  /\ UNCHANGED <<lines, line_no, cenv, exec>>

(* REQUEST_URI joins page and parameters again by a question mark at       *)
(* page_len, where it was.  The mutant puts it one behind.                 *)
RejoinedBehind(mem) == CText([mem EXCEPT ![page + page_len + 1] = QMARK], page)
Rejoined(mem) == CText([mem EXCEPT ![page + page_len] = QMARK], page)

(* cgi_set_env_vars; SERVER_NAME only if there is a Host.                  *)
FixedVars == {Var("SCRIPT_FILENAME"), Var("DOCUMENT_ROOT"), Var("SCRIPT_NAME"),
              Var("REQUEST_URI"), Var("QUERY_STRING")}
CgiSetVars(strfile, root) ==
  /\ cgi = "vars" /\ cgi' = "length"
  /\ cenv' = SetEnv(cenv,
       [v \in FixedVars \cup (IF HttpVar(HOST) \in DOMAIN cenv THEN {Var("SERVER_NAME")} ELSE {}) |->
          CASE v = Var("SCRIPT_FILENAME") -> strfile
            [] v = Var("DOCUMENT_ROOT")   -> root
            [] v = Var("SCRIPT_NAME")     -> CText(buf, page)
            [] v = Var("SERVER_NAME")     -> cenv[HttpVar(HOST)]
            [] v = Var("REQUEST_URI")     -> IF get_params = NULL THEN CText(buf, page) ELSE Rejoined(buf)
            [] v = Var("QUERY_STRING")    -> IF get_params = NULL THEN <<>> ELSE CText(buf, get_params)])
  /\ UNCHANGED <<lines, line_no, exec>>

(* cgi_set_env_content_length: both fields, or none.                       *)
CgiLength ==
  /\ cgi = "length" /\ cgi' = "exec"
  /\ cenv' = IF {HttpVar(CLENGTH), HttpVar(CTYPE)} \subseteq DOMAIN cenv
             THEN SetEnv(cenv, [v \in {Var("CONTENT_LENGTH"), Var("CONTENT_TYPE")} |->
                                  cenv[HttpVar(IF v = Var("CONTENT_LENGTH") THEN CLENGTH ELSE CTYPE)]])
             ELSE cenv
  /\ UNCHANGED <<lines, line_no, exec>>

(* cgi_child_chdir and execl: in the directory of the script, the executor *)
(* or, when that is empty, the script itself is run with the name of the   *)
(* script as its argument.  strfile is cut at its last slash for chdir and *)
(* mended afterwards; without one, rindex gives a null pointer and the     *)
(* child dies before it runs anything.                                     *)
HasSlash(text) == \E i \in DOMAIN text : text[i] = SLASH
LastSlash(text) == CHOOSE i \in DOMAIN text :
                      text[i] = SLASH /\ \A j \in i + 1 .. Len(text) : text[j] # SLASH
ProgramRun(executor_, strfile) == IF executor_ = <<>> THEN strfile ELSE executor_
CgiExecl(executor_, strfile) ==
  /\ cgi = "exec" /\ cgi' = "done"
  /\ exec' = IF ~HasSlash(strfile) THEN NoExec
             ELSE [program |-> ProgramRun(executor_, strfile),
                   dir |-> SubSeq(strfile, 1, LastSlash(strfile) - 1),
                   file |-> SubSeq(strfile, LastSlash(strfile) + 1, Len(strfile))]
  /\ UNCHANGED <<lines, line_no, cenv>>

CgiStep(executor_, strfile, root) ==
  \/ CgiHttpVar \/ CgiHttpDone \/ CgiSetVars(strfile, root) \/ CgiLength
  \/ CgiExecl(executor_, strfile)

CgiReset == cgi' = "idle" /\ lines' = <<>> /\ line_no' = 0 /\ cenv' = <<>> /\ exec' = NoExec
-----------------------------------------------------------------------------
(* The lines that are fields, the variables they ask for, and the value of *)
(* the last field that asks for one.                                       *)
NameIn(text) == Before(text, <<COLON, SP>>)
FieldLines == {k \in 2 .. Len(lines) : NameIn(lines[k]) # lines[k]}
Wanted == {EnvName(NameIn(lines[k])) : k \in FieldLines}
LastValue(n) ==
  LET giving == {k \in FieldLines : EnvName(NameIn(lines[k])) = n}
      text == lines[CHOOSE k \in giving : \A j \in giving : j <= k]
  IN  SubSeq(text, Len(NameIn(text)) + 3, Len(text))

(* A script sees the fields of its own request and the variables of the    *)
(* protocol and nothing else: nothing of the environment of the server, in *)
(* which virtual hosts are kept, and the last value where two fields get   *)
(* the same name.  The length of the body is told only with its type.      *)
ScriptEnvExact ==
  cgi = "done" =>
    /\ DOMAIN cenv =
         {HttpVar(n) : n \in Wanted}
         \cup {Var(n) : n \in {"SERVER_PROTOCOL", "SCRIPT_FILENAME", "DOCUMENT_ROOT",
                               "SCRIPT_NAME", "REQUEST_URI", "QUERY_STRING"}}
         \cup (IF HOST \in Wanted THEN {Var("SERVER_NAME")} ELSE {})
         \cup (IF {CLENGTH, CTYPE} \subseteq Wanted
               THEN {Var("CONTENT_LENGTH"), Var("CONTENT_TYPE")} ELSE {})
    /\ \A n \in Wanted : cenv[HttpVar(n)] = LastValue(n)
    /\ HOST \in Wanted => cenv[Var("SERVER_NAME")] = LastValue(HOST)

(* REQUEST_URI is the decoded page, the question mark and the decoded      *)
(* query, put together from a buffer that was cut and decoded in place.    *)
(* Excepted: when the page became shorter, page_len is stale, and the      *)
(* query is missing from REQUEST_URI.                                      *)
RequestUriWhole ==
  cgi = "done" =>
    cenv[Var("REQUEST_URI")] =
      IF get_params = NULL \/ PageLenStale THEN CText(buf, page)
      ELSE CText(buf, page) \o <<QMARK>> \o CText(buf, get_params)
=============================================================================

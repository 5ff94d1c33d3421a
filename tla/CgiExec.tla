------------------------------ MODULE CgiExec -------------------------------
(***************************************************************************)
(* exec_page and cgi_waitfor_child (cgi.c): worker threads that fork a     *)
(* script each, feed it POST data through ipipe and pass its output from   *)
(* wpipe on to the client.                                                 *)
(*                                                                         *)
(* A pipe end is the set of processes that hold it: the pipes are not      *)
(* close-on-exec, so every fork of the server copies the ends of all       *)
(* requests being served, and a script keeps what it inherited until it    *)
(* ends.  Data is counted in units, HEADER of which are the header of a    *)
(* script.  The kernel's pipes and the scripts are external.               *)
(***************************************************************************)
EXTENDS Integers, FiniteSets

CONSTANTS Jobs,         \* worker threads, each executing one script
          POST,         \* units of POST data; 0: none, and no ipipe
          CAP,          \* capacity of a pipe
          OUT,          \* bound: units a script writes
          HEADER,       \* units of the header
          MAXFAULTS,    \* bound: failing system calls
          Server        \* the server process

ASSUME JobsFinite == IsFiniteSet(Jobs) /\ Server \notin Jobs
ASSUME UnitsNat == {POST, OUT, HEADER, MAXFAULTS} \subseteq Nat /\ CAP \in Nat \ {0}

VARIABLES pc,           \* where the thread of a job is
          child,        \* script of a job: none, running, ended, reaped
          wR, wW,       \* processes holding wpipe[0], wpipe[1]
          iR, iW,       \* processes holding ipipe[0], ipipe[1]
          inpipe, outpipe,      \* units in ipipe and wpipe
          fed,          \* units of POST data written to ipipe
          wrote,        \* units the script wrote
          sent,         \* units of output that went to the client
          answer,       \* none, script (its header), broken off, error (500, 503)
          faults

vars == <<pc, child, wR, wW, iR, iW, inpipe, outpipe, fed, wrote, sent, answer, faults>>
ends == <<wR, wW, iR, iW>>
datavars == <<inpipe, outpipe, fed, wrote, sent>>

Init == /\ pc = [j \in Jobs |-> "start"]
        /\ child = [j \in Jobs |-> "none"]
        /\ wR = [j \in Jobs |-> {}] /\ wW = [j \in Jobs |-> {}]
        /\ iR = [j \in Jobs |-> {}] /\ iW = [j \in Jobs |-> {}]
        /\ inpipe = [j \in Jobs |-> 0] /\ outpipe = [j \in Jobs |-> 0]
        /\ fed = [j \in Jobs |-> 0] /\ wrote = [j \in Jobs |-> 0]
        /\ sent = [j \in Jobs |-> 0]
        /\ answer = [j \in Jobs |-> "none"]
        /\ faults = 0

Goto(j, p) == pc' = [pc EXCEPT ![j] = p]
Fault == faults < MAXFAULTS /\ faults' = faults + 1
Answer(j, a) == answer' = [answer EXCEPT ![j] = a]

(* close() by the server of an end of job j.                               *)
Closed(f, j) == [f EXCEPT ![j] = @ \ {Server}]
Has(f, p) == [j \in Jobs |-> IF Server \in f[j] THEN f[j] \cup {p} ELSE f[j]]
Without(f, p) == [j \in Jobs |-> f[j] \ {p}]
-----------------------------------------------------------------------------
(* ipipe only if there is POST data; wpipe always.                         *)
MakePipes(j) == /\ pc[j] = "start"
                /\ wR' = [wR EXCEPT ![j] = {Server}] /\ wW' = [wW EXCEPT ![j] = {Server}]
                /\ IF POST > 0
                   THEN /\ iR' = [iR EXCEPT ![j] = {Server}]
                        /\ iW' = [iW EXCEPT ![j] = {Server}]
                   ELSE UNCHANGED <<iR, iW>>
                /\ Goto(j, "fork")
                /\ UNCHANGED <<child, datavars, answer, faults>>

(* pipe() fails, with ipipe closed again: 503.                             *)
PipeFails(j) == /\ pc[j] = "start"
                /\ Fault
                /\ Answer(j, "error")
                /\ Goto(j, "done")
                /\ UNCHANGED <<child, ends, datavars>>

(* fork() copies every end the server holds; the child closes wpipe[0] of  *)
(* its own job.                                                            *)
Fork(j) == /\ pc[j] = "fork"
           /\ child' = [child EXCEPT ![j] = "running"]
           /\ wR' = [Has(wR, j) EXCEPT ![j] = @ \ {j}]
           /\ wW' = Has(wW, j) /\ iR' = Has(iR, j) /\ iW' = Has(iW, j)
           /\ Goto(j, "parent")
           /\ UNCHANGED <<datavars, answer, faults>>

(* A failing fork that leaves the pipes open.                              *)
ForkFailsOpen(j) == /\ pc[j] = "fork"
                    /\ Fault
                    /\ Answer(j, "error")
                    /\ Goto(j, "done")
                    /\ UNCHANGED <<child, ends, datavars>>

ForkFails(j) == /\ pc[j] = "fork"
                /\ Fault
                /\ wR' = Closed(wR, j) /\ wW' = Closed(wW, j)
                /\ iR' = Closed(iR, j) /\ iW' = Closed(iW, j)
                /\ Answer(j, "error")
                /\ Goto(j, "done")
                /\ UNCHANGED <<child, datavars>>

(* cgi_waitfor_child: closes wpipe[1].                                     *)
CloseOutput(j) == /\ pc[j] = "parent"
                  /\ wW' = Closed(wW, j)
                  /\ Goto(j, IF POST > 0 THEN "feed" ELSE "header")
                  /\ UNCHANGED <<child, wR, iR, iW, datavars, answer, faults>>

(* No buffer: the pipes are closed, the script is killed and awaited.      *)
NoBuffer(j) == /\ pc[j] = "parent"
               /\ Fault
               /\ wR' = Without(Closed(wR, j), j) /\ wW' = Without(Closed(wW, j), j)
               /\ iR' = Without(Closed(iR, j), j) /\ iW' = Without(Closed(iW, j), j)
               /\ child' = [child EXCEPT ![j] = "reaped"]
               /\ Answer(j, "error")
               /\ Goto(j, "done")
               /\ UNCHANGED datavars

(* write() of the POST data blocks while the pipe is full; the server      *)
(* itself holds the reading end, so it never fails with EPIPE.             *)
Feed(j) == /\ pc[j] = "feed"
           /\ fed[j] < POST /\ inpipe[j] < CAP /\ iR[j] # {}
           /\ fed' = [fed EXCEPT ![j] = @ + 1]
           /\ inpipe' = [inpipe EXCEPT ![j] = @ + 1]
           /\ UNCHANGED <<pc, child, ends, outpipe, wrote, sent, answer, faults>>

(* All written: both ends of ipipe are closed.                             *)
CloseInput(j) == /\ pc[j] = "feed"
                 /\ fed[j] = POST
                 /\ iR' = Closed(iR, j) /\ iW' = Closed(iW, j)
                 /\ Goto(j, "header")
                 /\ UNCHANGED <<child, wR, wW, datavars, answer, faults>>

(* A read() of wpipe returns what is there, or 0 at the end.               *)
Readable(j) == outpipe[j] > 0
AtEnd(j) == outpipe[j] = 0 /\ wW[j] = {}

(* Output that is sent and stays to be sent again.                         *)
TakeTwice(j) == /\ outpipe' = outpipe
                /\ sent' = [sent EXCEPT ![j] = @ + outpipe[j]]

Take(j) == /\ outpipe' = [outpipe EXCEPT ![j] = 0]
           /\ sent' = [sent EXCEPT ![j] = @ + outpipe[j]]

(* The first read holds the whole header: it is sent, and what follows it. *)
ReadHeader(j) == /\ pc[j] = "header"
                 /\ Readable(j) /\ outpipe[j] >= HEADER
                 /\ Take(j)
                 /\ Answer(j, "script")
                 /\ Goto(j, "copy")
                 /\ UNCHANGED <<child, ends, inpipe, fed, wrote, faults>>

(* It does not, or there is no output: 500, and the rest is not read.      *)
ReadNoHeader(j) == /\ pc[j] = "header"
                   /\ AtEnd(j) \/ (Readable(j) /\ outpipe[j] < HEADER)
                   /\ outpipe' = [outpipe EXCEPT ![j] = 0]
                   /\ Answer(j, "error")
                   /\ Goto(j, "wait")
                   /\ UNCHANGED <<child, ends, inpipe, fed, wrote, sent, faults>>

(* A copy that stops after what was in the pipe.                           *)
CopyOutputOnce(j) == /\ pc[j] = "copy" /\ Readable(j)
                     /\ Take(j)
                     /\ wR' = Closed(wR, j)
                     /\ Goto(j, "wait")
                     /\ UNCHANGED <<child, wW, iR, iW, inpipe, fed, wrote, answer, faults>>

CopyOutput(j) == /\ pc[j] = "copy" /\ Readable(j)
                 /\ Take(j)
                 /\ UNCHANGED <<pc, child, ends, inpipe, fed, wrote, answer, faults>>

(* The client is gone: the write fails, and the rest is not read.          *)
CopyBreaks(j) == /\ pc[j] = "copy" /\ Readable(j)
                 /\ Fault
                 /\ outpipe' = [outpipe EXCEPT ![j] = 0]
                 /\ wR' = Closed(wR, j)
                 /\ Answer(j, "broken")
                 /\ Goto(j, "wait")
                 /\ UNCHANGED <<child, wW, iR, iW, inpipe, fed, wrote, sent>>

(* A loop that does not end with the output.                               *)
CopyEndsNever(j) == /\ pc[j] = "copy" /\ AtEnd(j)
                    /\ UNCHANGED vars

CopyEnds(j) == /\ pc[j] = "copy" /\ AtEnd(j)
               /\ wR' = Closed(wR, j)
               /\ Goto(j, "wait")
               /\ UNCHANGED <<child, wW, iR, iW, datavars, answer, faults>>

(* waitpid(wpid).                                                          *)
WaitChild(j) == /\ pc[j] = "wait" /\ child[j] = "ended"
                /\ child' = [child EXCEPT ![j] = "reaped"]
                /\ Goto(j, "done")
                /\ UNCHANGED <<ends, datavars, answer, faults>>
-----------------------------------------------------------------------------
(* The script reads, writes, and ends by itself or by its alarm.           *)
ScriptReads(j) == /\ child[j] = "running" /\ inpipe[j] > 0
                  /\ inpipe' = [inpipe EXCEPT ![j] = @ - 1]
                  /\ UNCHANGED <<pc, child, ends, outpipe, fed, wrote, sent, answer, faults>>

(* Output nobody can read any more is lost.                                *)
ScriptWrites(j) == /\ child[j] = "running" /\ wrote[j] < OUT
                   /\ IF wR[j] = {}
                      THEN UNCHANGED outpipe
                      ELSE outpipe[j] < CAP /\ outpipe' = [outpipe EXCEPT ![j] = @ + 1]
                   /\ wrote' = [wrote EXCEPT ![j] = @ + 1]
                   /\ UNCHANGED <<pc, child, ends, inpipe, fed, sent, answer, faults>>

ScriptEnds(j) == /\ child[j] = "running"
                 /\ child' = [child EXCEPT ![j] = "ended"]
                 /\ wR' = Without(wR, j) /\ wW' = Without(wW, j)
                 /\ iR' = Without(iR, j) /\ iW' = Without(iW, j)
                 /\ UNCHANGED <<pc, datavars, answer, faults>>

Parent(j) == \/ MakePipes(j) \/ PipeFails(j) \/ Fork(j) \/ ForkFails(j)
             \/ CloseOutput(j) \/ NoBuffer(j) \/ Feed(j) \/ CloseInput(j)
             \/ ReadHeader(j) \/ ReadNoHeader(j) \/ CopyOutput(j) \/ CopyBreaks(j)
             \/ CopyEnds(j) \/ WaitChild(j)

Script(j) == ScriptReads(j) \/ ScriptWrites(j) \/ ScriptEnds(j)

(* The write of POST data that nobody will ever read: the pipe is full,    *)
(* its script is gone, and the server itself holds the reading end.        *)
Stuck(j) == pc[j] = "feed" /\ fed[j] < POST /\ inpipe[j] = CAP /\ child[j] # "running"

AllDone == (\A j \in Jobs : pc[j] = "done" \/ Stuck(j)) /\ UNCHANGED vars

Next == (\E j \in Jobs : Parent(j) \/ Script(j)) \/ AllDone

Spec == Init /\ [][Next]_vars

(* Threads run, and alarm(SCRPT_TIMEOUT) ends a script that does not end   *)
(* by itself.                                                              *)
FairSpec == Spec /\ \A j \in Jobs : WF_vars(Parent(j)) /\ WF_vars(ScriptEnds(j))
-----------------------------------------------------------------------------
(* Types; units are neither lost nor made in the pipes.                    *)
CgiTypeOK ==
  /\ pc \in [Jobs -> {"start", "fork", "parent", "feed", "header", "copy", "wait", "done"}]
  /\ child \in [Jobs -> {"none", "running", "ended", "reaped"}]
  /\ \A f \in {wR, wW, iR, iW} : f \in [Jobs -> SUBSET (Jobs \cup {Server})]
  /\ \A j \in Jobs : /\ inpipe[j] \in 0 .. CAP /\ outpipe[j] \in 0 .. CAP
                     /\ fed[j] \in inpipe[j] .. POST
                     /\ wrote[j] \in sent[j] + outpipe[j] .. OUT
  /\ answer \in [Jobs -> {"none", "script", "error", "broken"}]

(* exec_page leaves nothing behind in the server, whichever of its calls   *)
(* fails and whatever other threads fork meanwhile: no zombie, no end of a *)
(* pipe.  The exception is wpipe[0] after a script without header.         *)
NothingLeftBehind ==
  \A j \in Jobs : pc[j] = "done" =>
     /\ child[j] \in {"none", "reaped"}
     /\ Server \notin wW[j] \cup iR[j] \cup iW[j]
     /\ Server \in wR[j] => child[j] = "reaped" /\ answer[j] = "error"

(* A client that got the header of a script, and stays, gets all of its    *)
(* output.                                                                 *)
OutputComplete ==
  \A j \in Jobs : pc[j] \in {"wait", "done"} /\ answer[j] = "script" => sent[j] = wrote[j]

(* exec_page returns, whatever the script does and whatever other scripts  *)
(* inherited of its pipes: "Will also set an alarm to try to prevent the   *)
(* script from running forever".  The exception is POST data larger than   *)
(* the pipe for a script that ended without reading it.                    *)
ExecPageReturns == \A j \in Jobs : pc[j] = "fork" ~> (pc[j] = "done" \/ Stuck(j))
=============================================================================

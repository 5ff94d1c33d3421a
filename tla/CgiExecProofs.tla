--------------------------- MODULE CgiExecProofs ----------------------------
(***************************************************************************)
(* exec_page leaves nothing behind and passes on all output, for every     *)
(* number of scripts at once, all sizes of pipes, POST data, headers and   *)
(* output, and any number of failing calls.                                *)
(***************************************************************************)
EXTENDS CgiExec, TLAPS

PCs == {"start", "fork", "parent", "feed", "header", "copy", "wait", "done"}
Holders == SUBSET (Jobs \cup {Server})

(* CgiTypeOK, and the domains that the updates of single entries need.     *)
Types == /\ pc \in [Jobs -> PCs]
         /\ child \in [Jobs -> {"none", "running", "ended", "reaped"}]
         /\ wR \in [Jobs -> Holders] /\ wW \in [Jobs -> Holders]
         /\ iR \in [Jobs -> Holders] /\ iW \in [Jobs -> Holders]
         /\ inpipe \in [Jobs -> Int] /\ outpipe \in [Jobs -> Int]
         /\ fed \in [Jobs -> Int] /\ wrote \in [Jobs -> Int] /\ sent \in [Jobs -> Int]
         /\ answer \in [Jobs -> {"none", "script", "error", "broken"}]

Units(j) == /\ inpipe[j] \in 0 .. CAP /\ outpipe[j] \in 0 .. CAP
            /\ fed[j] \in inpipe[j] .. POST
            /\ wrote[j] \in sent[j] + outpipe[j] .. OUT

(* The script of a job lives as long as its thread is between fork and     *)
(* waitpid, and holds the writing end of its own pipe while it runs.       *)
Lives(j) ==
  /\ pc[j] \in {"start", "fork"} => child[j] = "none"
  /\ pc[j] \in {"parent", "feed", "header", "copy", "wait"} => child[j] \in {"running", "ended"}
  /\ pc[j] = "done" => child[j] \in {"none", "reaped"}
  /\ child[j] = "running" => j \in wW[j]

(* Which ends of its pipes the server holds, by where the thread is.       *)
Holds(j) ==
  /\ pc[j] = "fork" => Server \in wW[j]
  /\ Server \in wW[j] => pc[j] \in {"fork", "parent"}
  /\ Server \in iR[j] \cup iW[j] => POST > 0 /\ pc[j] \in {"fork", "parent", "feed"}
  /\ pc[j] \in {"fork", "parent", "feed", "header", "copy"} => Server \in wR[j]
  /\ Server \in wR[j] => pc[j] # "start"
  /\ pc[j] \in {"wait", "done"} /\ Server \in wR[j] => child[j] # "none" /\ answer[j] = "error"

(* Nothing of the output is lost while the server holds the reading end,   *)
(* and when the loop ended at the end of the output nobody writes any more.*)
Output(j) ==
  /\ pc[j] \in {"start", "fork", "parent", "feed", "header"} => answer[j] = "none"
  /\ pc[j] = "copy" => answer[j] = "script"
  /\ pc[j] \notin {"wait", "done"} => wrote[j] = sent[j] + outpipe[j]
  /\ pc[j] \in {"wait", "done"} /\ answer[j] = "script" =>
       child[j] # "running" /\ sent[j] = wrote[j]

JobInv(j) == Units(j) /\ Lives(j) /\ Holds(j) /\ Output(j)

CgiInv == Types /\ \A j \in Jobs : JobInv(j)
-----------------------------------------------------------------------------
LEMMA InitInv == Init => CgiInv
  BY UnitsNat, JobsFinite DEF Init, CgiInv, Types, PCs, Holders, JobInv, Units, Lives, Holds, Output

(* What close, fork and the end of a process do to the holders of an end.  *)
LEMMA EndFacts ==
  ASSUME NEW f \in [Jobs -> Holders], NEW j \in Jobs
  PROVE  /\ Closed(f, j) \in [Jobs -> Holders] /\ Has(f, j) \in [Jobs -> Holders]
         /\ Without(f, j) \in [Jobs -> Holders]
         /\ Closed(f, j)[j] = f[j] \ {Server}
         /\ Without(f, j)[j] = f[j] \ {j}
         /\ Without(Closed(f, j), j) \in [Jobs -> Holders]
         /\ Without(Closed(f, j), j)[j] = f[j] \ {Server, j}
         /\ \A i \in Jobs :
              /\ Server \in Has(f, j)[i] <=> Server \in f[i]
              /\ Server \in Without(f, j)[i] <=> Server \in f[i]
              /\ i # j => /\ Closed(f, j)[i] = f[i]
                          /\ i \in Has(f, j)[i] <=> i \in f[i]
                          /\ i \in Without(f, j)[i] <=> i \in f[i]
                          /\ Without(Closed(f, j), j)[i] = f[i] \ {j}
         /\ Server \in f[j] => j \in Has(f, j)[j]
  BY JobsFinite DEF Closed, Has, Without, Holders

LEMMA StepTypes ==
  ASSUME Types, NEW j \in Jobs, Parent(j) \/ Script(j)
  PROVE  Types'
<1> USE DEF Types, Goto, Answer, ends, datavars
<1>0. ASSUME NEW f \in [Jobs -> Holders]
      PROVE  /\ [f EXCEPT ![j] = {Server}] \in [Jobs -> Holders]
             /\ [f EXCEPT ![j] = @ \ {j}] \in [Jobs -> Holders]
             /\ Closed(f, j) \in [Jobs -> Holders] /\ Has(f, j) \in [Jobs -> Holders]
             /\ Without(f, j) \in [Jobs -> Holders]
             /\ Without(Closed(f, j), j) \in [Jobs -> Holders]
  BY EndFacts DEF Holders
<1>1. CASE MakePipes(j)
  <2>1. (wR \in [Jobs -> Holders] /\ wW \in [Jobs -> Holders])'  BY <1>1, <1>0 DEF MakePipes
  <2>2. (iR \in [Jobs -> Holders] /\ iW \in [Jobs -> Holders])'
    <3>1. CASE POST > 0
      <4>1. iR' = [iR EXCEPT ![j] = {Server}] /\ iW' = [iW EXCEPT ![j] = {Server}]
        BY <1>1, <3>1 DEF MakePipes
      <4> QED  BY <4>1, <1>0
    <3>2. CASE ~(POST > 0)  BY <1>1, <3>2 DEF MakePipes
    <3> QED  BY <3>1, <3>2
  <2> QED  BY <1>1, <2>1, <2>2 DEF MakePipes, PCs
<1>2. CASE PipeFails(j)  BY <1>2, <1>0 DEF PipeFails, PCs
<1>3. CASE Fork(j)
  BY <1>3, <1>0 DEF Fork, PCs
<1>4. CASE ForkFails(j)  BY <1>4, <1>0 DEF ForkFails, PCs
<1>5. CASE CloseOutput(j)  BY <1>5, <1>0 DEF CloseOutput, PCs
<1>6. CASE NoBuffer(j)  BY <1>6, <1>0 DEF NoBuffer, PCs
<1>7. CASE Feed(j)  BY <1>7, <1>0 DEF Feed
<1>8. CASE CloseInput(j)  BY <1>8, <1>0 DEF CloseInput, PCs
<1>9. CASE ReadHeader(j)  BY <1>9, <1>0 DEF ReadHeader, Take, PCs
<1>10. CASE ReadNoHeader(j)  BY <1>10, <1>0 DEF ReadNoHeader, PCs
<1>11. CASE CopyOutput(j)  BY <1>11, <1>0 DEF CopyOutput, Take
<1>12. CASE CopyBreaks(j)
  <2>1. (wR \in [Jobs -> Holders])'  BY <1>12, <1>0 DEF CopyBreaks
  <2>2. (pc \in [Jobs -> PCs])'  BY <1>12 DEF CopyBreaks, PCs
  <2>3. (outpipe \in [Jobs -> Int])'  BY <1>12 DEF CopyBreaks
  <2> QED  BY <1>12, <2>1, <2>2, <2>3 DEF CopyBreaks
<1>13. CASE CopyEnds(j)  BY <1>13, <1>0 DEF CopyEnds, PCs
<1>14. CASE WaitChild(j)  BY <1>14, <1>0 DEF WaitChild, PCs
<1>15. CASE ScriptReads(j)  BY <1>15, <1>0 DEF ScriptReads
<1>16. CASE ScriptWrites(j)  BY <1>16, <1>0 DEF ScriptWrites
<1>17. CASE ScriptEnds(j)  BY <1>17, <1>0 DEF ScriptEnds
<1> QED
  BY <1>1, <1>2, <1>3, <1>4, <1>5, <1>6, <1>7, <1>8, <1>9, <1>10, <1>11, <1>12, <1>13,
     <1>14, <1>15, <1>16, <1>17 DEF Parent, Script
(* A step of one job changes nothing that the invariant says about another *)
(* one, although its fork copies the ends of all pipes.                    *)
Same(i) == /\ pc'[i] = pc[i] /\ child'[i] = child[i] /\ answer'[i] = answer[i]
           /\ inpipe'[i] = inpipe[i] /\ outpipe'[i] = outpipe[i] /\ fed'[i] = fed[i]
           /\ wrote'[i] = wrote[i] /\ sent'[i] = sent[i]
SameEnd(f, g, i) == (Server \in g[i] <=> Server \in f[i]) /\ (i \in g[i] <=> i \in f[i])

LEMMA OtherJob ==
  ASSUME CgiInv, NEW j \in Jobs, Parent(j) \/ Script(j), NEW i \in Jobs, i # j
  PROVE  JobInv(i)'
<1> DEFINE SameEnds == SameEnd(wR, wR', i) /\ SameEnd(wW, wW', i)
                       /\ SameEnd(iR, iR', i) /\ SameEnd(iW, iW', i)
<1>0. ASSUME NEW f \in [Jobs -> Holders], NEW x
      PROVE  /\ SameEnd(f, f, i) /\ SameEnd(f, [f EXCEPT ![j] = x], i)
             /\ SameEnd(f, Closed(f, j), i)
             /\ SameEnd(f, Has(f, j), i) /\ SameEnd(f, [Has(f, j) EXCEPT ![j] = x], i)
             /\ SameEnd(f, Without(f, j), i) /\ SameEnd(f, Without(Closed(f, j), j), i)
  BY EndFacts, JobsFinite DEF SameEnd
<1>t. Types /\ JobInv(i)  BY DEF CgiInv
<1>a. Same(i)
  BY <1>t DEF Types, Same, Goto, Answer, ends, datavars, Take, Parent, Script,
     MakePipes, PipeFails, Fork, ForkFails, CloseOutput, NoBuffer, Feed, CloseInput, ReadHeader,
     ReadNoHeader, CopyOutput, CopyBreaks, CopyEnds, WaitChild, ScriptReads, ScriptWrites, ScriptEnds
<1>b. SameEnds
  <2> USE <1>0, <1>t DEF Types, ends
  <2>1. CASE MakePipes(j)
    <3>1. CASE POST > 0
      <4>1. /\ wR' = [wR EXCEPT ![j] = {Server}] /\ wW' = [wW EXCEPT ![j] = {Server}]
            /\ iR' = [iR EXCEPT ![j] = {Server}] /\ iW' = [iW EXCEPT ![j] = {Server}]
        BY <2>1, <3>1 DEF MakePipes
      <4> QED  BY <4>1
    <3>2. CASE ~(POST > 0)  BY <2>1, <3>2 DEF MakePipes
    <3> QED  BY <3>1, <3>2
  <2>2. CASE PipeFails(j)  BY <2>2 DEF PipeFails
  <2>3. CASE Fork(j)  BY <2>3 DEF Fork
  <2>4. CASE ForkFails(j)  BY <2>4 DEF ForkFails
  <2>5. CASE CloseOutput(j)  BY <2>5 DEF CloseOutput
  <2>6. CASE NoBuffer(j)  BY <2>6 DEF NoBuffer
  <2>7. CASE Feed(j)  BY <2>7 DEF Feed
  <2>8. CASE CloseInput(j)  BY <2>8 DEF CloseInput
  <2>9. CASE ReadHeader(j)  BY <2>9 DEF ReadHeader
  <2>10. CASE ReadNoHeader(j)  BY <2>10 DEF ReadNoHeader
  <2>11. CASE CopyOutput(j)  BY <2>11 DEF CopyOutput
  <2>12. CASE CopyBreaks(j)  BY <2>12 DEF CopyBreaks
  <2>13. CASE CopyEnds(j)  BY <2>13 DEF CopyEnds
  <2>14. CASE WaitChild(j)  BY <2>14 DEF WaitChild
  <2>15. CASE ScriptReads(j)  BY <2>15 DEF ScriptReads
  <2>16. CASE ScriptWrites(j)  BY <2>16 DEF ScriptWrites
  <2>17. CASE ScriptEnds(j)  BY <2>17 DEF ScriptEnds
  <2> QED
    BY <2>1, <2>2, <2>3, <2>4, <2>5, <2>6, <2>7, <2>8, <2>9, <2>10, <2>11, <2>12, <2>13,
       <2>14, <2>15, <2>16, <2>17 DEF Parent, Script
<1> QED
  BY <1>t, <1>a, <1>b DEF Same, SameEnd, JobInv, Units, Lives, Holds, Output

(* The job that takes the step.                                            *)
LEMMA OwnJob ==
  ASSUME CgiInv, NEW j \in Jobs, Parent(j) \/ Script(j)
  PROVE  JobInv(j)'
<1> USE UnitsNat DEF Goto, Answer, ends, datavars
<1>0. Types /\ Units(j) /\ Lives(j) /\ Holds(j) /\ Output(j)  BY DEF CgiInv, JobInv
<1>e. ASSUME NEW f \in [Jobs -> Holders]
      PROVE  /\ Closed(f, j)[j] = f[j] \ {Server} /\ Without(f, j)[j] = f[j] \ {j}
             /\ Without(Closed(f, j), j)[j] = f[j] \ {Server, j}
             /\ Server \in Has(f, j)[j] <=> Server \in f[j]
             /\ Server \in f[j] => j \in Has(f, j)[j]
             /\ Has(f, j) \in [Jobs -> Holders]
  BY EndFacts
<1>s. Server # j  BY JobsFinite
<1>1. CASE MakePipes(j)
  <2> USE <1>1, <1>0, <1>e, <1>s DEF MakePipes, Types
  <2>1. Units(j)'  BY DEF Units, Output
  <2>2. Lives(j)'  BY DEF Lives, Holds
  <2>3. Holds(j)'  BY DEF Holds, Lives, Output
  <2>4. Output(j)'  BY DEF Output, Units, Lives, Holds
  <2> QED  BY <2>1, <2>2, <2>3, <2>4 DEF JobInv
<1>2. CASE PipeFails(j)
  <2> USE <1>2, <1>0, <1>e, <1>s DEF PipeFails, Types
  <2>1. Units(j)'  BY DEF Units, Output
  <2>2. Lives(j)'  BY DEF Lives, Holds
  <2>3. Holds(j)'  BY DEF Holds, Lives, Output
  <2>4. Output(j)'  BY DEF Output, Units, Lives, Holds
  <2> QED  BY <2>1, <2>2, <2>3, <2>4 DEF JobInv
<1>3. CASE Fork(j)
  <2> USE <1>3, <1>0, <1>e, <1>s DEF Fork, Types
  <2>1. Units(j)'  BY DEF Units, Output
  <2>2. Lives(j)'  BY DEF Lives, Holds
  <2>3. Holds(j)'  BY DEF Holds, Lives, Output
  <2>4. Output(j)'  BY DEF Output, Units, Lives, Holds
  <2> QED  BY <2>1, <2>2, <2>3, <2>4 DEF JobInv
<1>4. CASE ForkFails(j)
  <2> USE <1>4, <1>0, <1>e, <1>s DEF ForkFails, Types
  <2>1. Units(j)'  BY DEF Units, Output
  <2>2. Lives(j)'  BY DEF Lives, Holds
  <2>3. Holds(j)'  BY DEF Holds, Lives, Output
  <2>4. Output(j)'  BY DEF Output, Units, Lives, Holds
  <2> QED  BY <2>1, <2>2, <2>3, <2>4 DEF JobInv
<1>5. CASE CloseOutput(j)
  <2> USE <1>5, <1>0, <1>e, <1>s DEF CloseOutput, Types
  <2>1. Units(j)'  BY DEF Units, Output
  <2>2. Lives(j)'  BY DEF Lives, Holds
  <2>3. Holds(j)'
    <3>1. /\ pc'[j] \in {"feed", "header"} /\ wR' = wR /\ iR' = iR /\ iW' = iW
          /\ pc'[j] = "header" => ~(POST > 0)
          /\ Server \notin wW'[j]
      BY DEF Holds
    <3> QED  BY <3>1 DEF Holds, Lives, Output
  <2>4. Output(j)'  BY DEF Output, Units, Lives, Holds
  <2> QED  BY <2>1, <2>2, <2>3, <2>4 DEF JobInv
<1>6. CASE NoBuffer(j)
  <2> USE <1>6, <1>0, <1>e, <1>s DEF NoBuffer, Types
  <2>1. Units(j)'  BY DEF Units, Output
  <2>2. Lives(j)'  BY DEF Lives, Holds
  <2>3. Holds(j)'  BY DEF Holds, Lives, Output
  <2>4. Output(j)'  BY DEF Output, Units, Lives, Holds
  <2> QED  BY <2>1, <2>2, <2>3, <2>4 DEF JobInv
<1>7. CASE Feed(j)
  <2> USE <1>7, <1>0, <1>e, <1>s DEF Feed, Types
  <2>1. Units(j)'  BY DEF Units, Output
  <2>2. Lives(j)'  BY DEF Lives, Holds
  <2>3. Holds(j)'  BY DEF Holds, Lives, Output
  <2>4. Output(j)'  BY DEF Output, Units, Lives, Holds
  <2> QED  BY <2>1, <2>2, <2>3, <2>4 DEF JobInv
<1>8. CASE CloseInput(j)
  <2> USE <1>8, <1>0, <1>e, <1>s DEF CloseInput, Types
  <2>1. Units(j)'  BY DEF Units, Output
  <2>2. Lives(j)'  BY DEF Lives, Holds
  <2>3. Holds(j)'
    <3>1. /\ pc'[j] = "header" /\ wR' = wR /\ wW' = wW
          /\ Server \notin iR'[j] \cup iW'[j]
      OBVIOUS
    <3> QED  BY <3>1 DEF Holds, Lives, Output
  <2>4. Output(j)'  BY DEF Output, Units, Lives, Holds
  <2> QED  BY <2>1, <2>2, <2>3, <2>4 DEF JobInv
<1>9. CASE ReadHeader(j)
  <2> USE <1>9, <1>0, <1>e, <1>s DEF ReadHeader, Take, Types
  <2>1. Units(j)'  BY DEF Units, Output
  <2>2. Lives(j)'  BY DEF Lives, Holds
  <2>3. Holds(j)'  BY DEF Holds, Lives, Output
  <2>4. Output(j)'  BY DEF Output, Units, Lives, Holds
  <2> QED  BY <2>1, <2>2, <2>3, <2>4 DEF JobInv
<1>10. CASE ReadNoHeader(j)
  <2> USE <1>10, <1>0, <1>e, <1>s DEF ReadNoHeader, Types
  <2>1. Units(j)'  BY DEF Units, Output
  <2>2. Lives(j)'  BY DEF Lives, Holds
  <2>3. Holds(j)'  BY DEF Holds, Lives, Output
  <2>4. Output(j)'  BY DEF Output, Units, Lives, Holds
  <2> QED  BY <2>1, <2>2, <2>3, <2>4 DEF JobInv
<1>11. CASE CopyOutput(j)
  <2> USE <1>11, <1>0, <1>e, <1>s DEF CopyOutput, Take, Types
  <2>1. Units(j)'  BY DEF Units, Output
  <2>2. Lives(j)'  BY DEF Lives, Holds
  <2>3. Holds(j)'  BY DEF Holds, Lives, Output
  <2>4. Output(j)'  BY DEF Output, Units, Lives, Holds
  <2> QED  BY <2>1, <2>2, <2>3, <2>4 DEF JobInv
<1>12. CASE CopyBreaks(j)
  <2> USE <1>12, <1>0, <1>e, <1>s DEF CopyBreaks, Types
  <2>1. Units(j)'  BY DEF Units, Output
  <2>2. Lives(j)'  BY DEF Lives, Holds
  <2>3. Holds(j)'  BY DEF Holds, Lives, Output
  <2>4. Output(j)'  BY DEF Output, Units, Lives, Holds
  <2> QED  BY <2>1, <2>2, <2>3, <2>4 DEF JobInv
<1>13. CASE CopyEnds(j)
  <2> USE <1>13, <1>0, <1>e, <1>s DEF CopyEnds, AtEnd, Types
  <2>1. Units(j)'  BY DEF Units, Output
  <2>2. Lives(j)'  BY DEF Lives, Holds
  <2>3. Holds(j)'  BY DEF Holds, Lives, Output
  <2>4. Output(j)'  BY DEF Output, Units, Lives, Holds
  <2> QED  BY <2>1, <2>2, <2>3, <2>4 DEF JobInv
<1>14. CASE WaitChild(j)
  <2> USE <1>14, <1>0, <1>e, <1>s DEF WaitChild, Types
  <2>1. Units(j)'  BY DEF Units, Output
  <2>2. Lives(j)'  BY DEF Lives, Holds
  <2>3. Holds(j)'  BY DEF Holds, Lives, Output
  <2>4. Output(j)'  BY DEF Output, Units, Lives, Holds
  <2> QED  BY <2>1, <2>2, <2>3, <2>4 DEF JobInv
<1>15. CASE ScriptReads(j)
  <2> USE <1>15, <1>0, <1>e, <1>s DEF ScriptReads, Types
  <2>1. Units(j)'  BY DEF Units, Output
  <2>2. Lives(j)'  BY DEF Lives, Holds
  <2>3. Holds(j)'  BY DEF Holds, Lives, Output
  <2>4. Output(j)'  BY DEF Output, Units, Lives, Holds
  <2> QED  BY <2>1, <2>2, <2>3, <2>4 DEF JobInv
<1>16. CASE ScriptWrites(j)
  <2> USE <1>16, <1>0, <1>e, <1>s DEF ScriptWrites, Types
  <2>1. Units(j)'  BY DEF Units, Output
  <2>2. Lives(j)'  BY DEF Lives, Holds
  <2>3. Holds(j)'  BY DEF Holds, Lives, Output
  <2>4. Output(j)'
    <3>1. CASE pc[j] \in {"wait", "done"}  BY <3>1 DEF Output
    <3>2. CASE pc[j] \notin {"wait", "done"}
      <4>1. wR[j] # {}  BY <3>2 DEF Holds, Lives, PCs
      <4> QED  BY <3>2, <4>1 DEF Output, Units
    <3> QED  BY <3>1, <3>2
  <2> QED  BY <2>1, <2>2, <2>3, <2>4 DEF JobInv
<1>17. CASE ScriptEnds(j)
  <2> USE <1>17, <1>0, <1>e, <1>s DEF ScriptEnds, Types
  <2>1. Units(j)'  BY DEF Units, Output
  <2>2. Lives(j)'  BY DEF Lives, Holds
  <2>3. Holds(j)'
    <3>1. /\ wR'[j] = wR[j] \ {j} /\ wW'[j] = wW[j] \ {j}
          /\ iR'[j] = iR[j] \ {j} /\ iW'[j] = iW[j] \ {j}
      OBVIOUS
    <3>2. pc' = pc /\ answer' = answer /\ child'[j] = "ended"
      OBVIOUS
    <3> HIDE DEF ScriptEnds, Types
    <3> QED  BY <3>1, <3>2, <1>0, <1>s DEF Holds, Lives, Output
  <2>4. Output(j)'  BY DEF Output, Units, Lives, Holds
  <2> QED  BY <2>1, <2>2, <2>3, <2>4 DEF JobInv
<1> QED
  BY <1>1, <1>2, <1>3, <1>4, <1>5, <1>6, <1>7, <1>8, <1>9, <1>10, <1>11, <1>12, <1>13,
     <1>14, <1>15, <1>16, <1>17 DEF Parent, Script

LEMMA NextInv == CgiInv /\ [Next]_vars => CgiInv'
<1> SUFFICES ASSUME CgiInv, [Next]_vars
             PROVE  CgiInv'
  OBVIOUS
<1>1. CASE UNCHANGED vars
  BY <1>1 DEF vars, CgiInv, Types, JobInv, Units, Lives, Holds, Output
<1>2. ASSUME NEW j \in Jobs, Parent(j) \/ Script(j)
      PROVE  CgiInv'
  <2>1. Types'  BY <1>2, StepTypes DEF CgiInv
  <2>2. \A i \in Jobs : JobInv(i)'  BY <1>2, OwnJob, OtherJob
  <2> QED  BY <2>1, <2>2 DEF CgiInv
<1> QED  BY <1>1, <1>2 DEF Next, AllDone

LEMMA CgiInvariant == Spec => []CgiInv
  BY InitInv, NextInv, PTL DEF Spec

(* The fields of all jobs stay in range, and no unit of POST data or of    *)
(* output is made in the pipes, for any number of jobs and all sizes.      *)
THEOREM CgiTypeCorrect == Spec => []CgiTypeOK
<1>1. CgiInv => CgiTypeOK
  BY DEF CgiInv, Types, PCs, Holders, JobInv, Units, CgiTypeOK
<1> QED  BY <1>1, CgiInvariant, PTL

(* exec_page returns without zombies and without ends of its pipes, for    *)
(* any number of scripts that inherit each other's pipes and whichever of  *)
(* its calls fail; but for wpipe[0] after a script without header.         *)
THEOREM LeavesNothing == Spec => []NothingLeftBehind
<1>1. CgiInv => NothingLeftBehind
  BY DEF CgiInv, JobInv, Lives, Holds, NothingLeftBehind
<1> QED  BY <1>1, CgiInvariant, PTL

(* A client that got the header of a script and stays gets all that the    *)
(* script wrote, for all sizes of pipes and pieces: the loop ends only     *)
(* when no process, the script included, can write any more.               *)
THEOREM OutputDelivered == Spec => []OutputComplete
<1>1. CgiInv => OutputComplete
  BY DEF CgiInv, JobInv, Output, OutputComplete
<1> QED  BY <1>1, CgiInvariant, PTL
=============================================================================

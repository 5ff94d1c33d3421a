------------------------------ MODULE DavTree -------------------------------
(***************************************************************************)
(* What the methods that change files do to the served tree: copy_move and *)
(* mkcol (webdav.c), read_file and delete_file (instance.c), and the       *)
(* functions of myio.c they use, one system call at a time, with calls     *)
(* that fail and a server that stops in the middle.                        *)
(*                                                                         *)
(* The request is about the path S, its destination is D.  A file is the   *)
(* sequence of its blocks.  The file system is external: each system call  *)
(* is atomic, and rename fails with EXDEV across devices.                  *)
(***************************************************************************)
EXTENDS Integers, Sequences, FiniteSets

CONSTANTS Paths,        \* paths of the tree, as sequences of names
          S, D,         \* source and destination
          Cases,        \* requests and the trees they find: [tree, op], with
                        \* op a record [method, over, body]
          CROSSDEV,     \* may S and D be on different devices: subset of BOOLEAN
          FAULTS,       \* system calls that may fail
          MAXFAULTS,    \* bound: kinds of failures during a request
          Blocks,       \* contents of a block; "zero" is a hole
          None          \* no Overwrite header

Under(p) == {q \in Paths : Len(q) >= Len(p) /\ SubSeq(q, 1, Len(p)) = p}
Children(p) == {q \in Under(p) : Len(q) = Len(p) + 1}
Rebase(q, s, d) == d \o SubSeq(q, Len(s) + 1, Len(q))

Absent == [kind |-> "absent", data |-> <<>>]
Dir == [kind |-> "dir", data |-> <<>>]
File(b) == [kind |-> "file", data |-> b]
Nodes == {Absent, Dir} \cup [kind : {"file"}, data : Seq(Blocks)]

(* Only directories contain anything.                                      *)
Shape(t) == \A p \in Paths : \A q \in Under(p) \ {p} :
              t[q].kind # "absent" => t[p].kind = "dir"

(* The part of the tree a request is about: what is below S and below D,   *)
(* neither of which contains the other.                                    *)
ASSUME PathsApart == /\ Paths \subseteq Seq(STRING)
                     /\ Paths = Under(S) \cup Under(D) /\ Under(S) \cap Under(D) = {}
                     /\ \A q \in Under(S) : \A n \in Len(S) .. Len(q) :
                          SubSeq(q, 1, n) \in Paths
ASSUME CasesAreTrees ==
  \A c \in Cases : /\ c.tree \in [Paths -> Nodes] /\ Shape(c.tree)
                   /\ c.op.method \in {"COPY", "MOVE", "DELETE", "MKCOL", "PUT"}
                   /\ c.op.body \in Seq(Blocks)
ASSUME HolesAreBlocks == "zero" \in Blocks
ASSUME PathsClosed == /\ {S, D} \subseteq Paths
                      /\ \A q \in Under(S) : Rebase(q, S, D) \in Paths
                      /\ \A q \in Under(D) : Rebase(q, D, S) \in Paths
ASSUME FaultsKnown == FAULTS \subseteq {"mkdir", "open", "opendir", "write", "read",
                                        "unlink", "rename", "crash"}
ASSUME CrossdevBoolean == CROSSDEV \subseteq BOOLEAN
ASSUME MaxFaultsNat == MAXFAULTS \in Nat

OK_CREATED == 1
OK_NOCONTENT == 2
ERR_BRKPIPE == -1
ERR_FILENOTFOUND == -2
ERR_NOMEM == -3
ERR_NOTHTTP == -6
ERR_FORBIDDEN == -9
ERR_INSUFFICIENT_STORAGE == -12
ERR_NOT_ALLOWED == -13
ERR_PRECONDITION_FAILED == -14

VARIABLES tree,         \* the file system
          orig,         \* the tree when the request came
          op,           \* the request
          crossdev,     \* S and D are on different devices
          existed,      \* what file_exists said of the destination
          pc, stack,    \* where the handler is; frames of dir_move_copy
          cp,           \* file being copied: [src, dst, pos]
          kept,         \* paths dir_remove could not remove
          retval,       \* the int of the code
          faults        \* kinds of calls that have failed, each once

vars == <<tree, orig, op, crossdev, existed, pc, stack, cp, kept, retval, faults>>
request == <<orig, op, crossdev>>

Present(p) == tree[p].kind # "absent"
IsDir(p) == tree[p].kind = "dir"
Entries(p) == {q \in Children(p) : Present(q)}
NoCopy == [src |-> S, dst |-> D, pos |-> 0]

Init == /\ \E c \in Cases : tree = c.tree /\ op = c.op
        /\ orig = tree
        /\ existed = FALSE
        /\ pc = "start" /\ stack = <<>> /\ cp = NoCopy /\ kept = {}
        /\ crossdev \in CROSSDEV
        /\ retval = 0 /\ faults = {}

Goto(p) == pc' = p
Fault(f) == /\ f \in FAULTS \ faults /\ Cardinality(faults) < MAXFAULTS
            /\ faults' = faults \cup {f}
Return(r) == retval' = r /\ Goto("return")
Set(p, n) == tree' = [tree EXCEPT ![p] = n]

(* rename(s, d): the whole subtree at once.                                *)
Moved(s, d) == [q \in Paths |-> IF q \in Under(d) THEN tree[Rebase(q, d, s)]
                                ELSE IF q \in Under(s) THEN Absent
                                ELSE tree[q]]
-----------------------------------------------------------------------------
(* check_exists: any Overwrite header that is not F.                       *)
RefusesOverwrite == op.over # None /\ op.over # "F"

(* copy_move up to the choice between file and directory; stat of a source *)
(* that is not there leaves the choice to an uninitialised struct.         *)
CopyMove == /\ pc = "start" /\ op.method \in {"COPY", "MOVE"}
            /\ existed' = Present(D)
            /\ IF RefusesOverwrite /\ Present(D)
               THEN Return(ERR_PRECONDITION_FAILED)
               ELSE /\ \/ (IsDir(S) \/ ~Present(S)) /\ Goto("dir")
                       \/ ~IsDir(S) /\ Goto("file")
                    /\ UNCHANGED retval
            /\ UNCHANGED <<tree, request, stack, cp, kept, faults>>

(* A header is missing or makes no sense, S and D are the same, or there   *)
(* is no memory: nothing was done.                                         *)
CopyMoveRefused == /\ pc = "start" /\ op.method \in {"COPY", "MOVE"}
                   /\ retval' \in {ERR_NOTHTTP, ERR_FORBIDDEN, ERR_NOMEM}
                   /\ Goto("answer")
                   /\ UNCHANGED <<tree, request, existed, stack, cp, kept, faults>>

(* dir_copy, or dir_move across devices: dir_move_copy.                    *)
DirByCopy == /\ pc = "dir"
             /\ op.method = "COPY" \/ (crossdev)
             /\ stack' = <<[src |-> S, dst |-> D, todo |-> {}]>>
             /\ Goto("mkdir")
             /\ UNCHANGED <<tree, request, existed, cp, kept, retval, faults>>

(* dir_move with rename, which replaces nothing or an empty directory; a   *)
(* failure other than EXDEV returns 1.                                     *)
DirByRename == /\ pc = "dir" /\ op.method = "MOVE" /\ (~crossdev \/ ~Present(S))
               /\ IF Present(S) /\ (~Present(D) \/ (IsDir(D) /\ Entries(D) = {}))
                  THEN tree' = Moved(S, D) /\ Return(0)
                  ELSE Return(1) /\ UNCHANGED tree
               /\ UNCHANGED <<request, existed, stack, cp, kept, faults>>

DirRenameFails == /\ pc = "dir" /\ op.method = "MOVE" /\ ~crossdev
                  /\ Fault("rename") /\ Return(1)
                  /\ UNCHANGED <<tree, request, existed, stack, cp, kept>>

TopFile == /\ pc = "file"
           /\ cp' = NoCopy
           /\ Goto("filecopy")
           /\ UNCHANGED <<tree, request, existed, stack, kept, retval, faults>>
-----------------------------------------------------------------------------
Top == stack[Len(stack)]
Pop == SubSeq(stack, 1, Len(stack) - 1)

(* dir_move_copy: mkdir of the destination, which must be new.             *)
MkDir == /\ pc = "mkdir"
         /\ IF Present(Top.dst)
            THEN stack' = Pop /\ Return(ERR_FORBIDDEN) /\ UNCHANGED tree
            ELSE Set(Top.dst, Dir) /\ Goto("opendir") /\ UNCHANGED <<stack, retval>>
         /\ UNCHANGED <<request, existed, cp, kept, faults>>

MkDirFails == /\ pc = "mkdir" /\ Fault("mkdir")
              /\ stack' = Pop /\ Return(ERR_FORBIDDEN)
              /\ UNCHANGED <<tree, request, existed, cp, kept>>

OpenDir == /\ pc = "opendir" /\ IsDir(Top.src)
           /\ stack' = [stack EXCEPT ![Len(stack)].todo = Entries(Top.src)]
           /\ Goto("loop")
           /\ UNCHANGED <<tree, request, existed, cp, kept, retval, faults>>

OpenDirFails == /\ pc = "opendir"
                /\ IF IsDir(Top.src) THEN Fault("opendir") ELSE UNCHANGED faults
                /\ stack' = Pop
                /\ \E r \in {ERR_FILENOTFOUND, ERR_NOMEM} : Return(r)
                /\ UNCHANGED <<tree, request, existed, cp, kept>>

(* The name of the destination built from the one of the whole request.    *)
NextEntryFlat(q) ==
  /\ pc = "loop" /\ q \in Top.todo
  /\ LET dst == Rebase(q, Top.src, D)
         rest == [stack EXCEPT ![Len(stack)].todo = @ \ {q}]
     IN IF IsDir(q)
        THEN /\ stack' = Append(rest, [src |-> q, dst |-> dst, todo |-> {}])
             /\ Goto("mkdir") /\ UNCHANGED cp
        ELSE /\ stack' = rest
             /\ cp' = [src |-> q, dst |-> dst, pos |-> 0]
             /\ Goto("filecopy")
  /\ UNCHANGED <<tree, request, existed, kept, retval, faults>>

(* The next entry: a directory is a call of its own, a file is copied or   *)
(* moved.                                                                  *)
NextEntry(q) ==
  /\ pc = "loop" /\ q \in Top.todo
  /\ LET dst == Rebase(q, Top.src, Top.dst)
         rest == [stack EXCEPT ![Len(stack)].todo = @ \ {q}]
     IN IF IsDir(q)
        THEN /\ stack' = Append(rest, [src |-> q, dst |-> dst, todo |-> {}])
             /\ Goto("mkdir") /\ UNCHANGED cp
        ELSE /\ stack' = rest
             /\ cp' = [src |-> q, dst |-> dst, pos |-> 0]
             /\ Goto("filecopy")
  /\ UNCHANGED <<tree, request, existed, kept, retval, faults>>

(* All entries done; MOVE removes the source directory.                    *)
LoopEnds == /\ pc = "loop" /\ Top.todo = {}
            /\ stack' = Pop
            /\ IF op.method = "MOVE"
               THEN IF Entries(Top.src) = {}
                    THEN Set(Top.src, Absent) /\ Return(0)
                    ELSE Return(-1) /\ UNCHANGED tree
               ELSE Return(0) /\ UNCHANGED tree
            /\ UNCHANGED <<request, existed, cp, kept, faults>>

RmDirFails == /\ pc = "loop" /\ Top.todo = {} /\ op.method = "MOVE"
              /\ Fault("unlink")
              /\ stack' = Pop /\ Return(-1)
              /\ UNCHANGED <<tree, request, existed, cp, kept>>
-----------------------------------------------------------------------------
(* file_move within a device is a rename; it replaces a file.              *)
FileRename == /\ pc = "filecopy" /\ op.method = "MOVE" /\ (~crossdev \/ ~Present(cp.src))
              /\ IF Present(cp.src) /\ ~IsDir(cp.dst)
                 THEN tree' = Moved(cp.src, cp.dst) /\ Return(0)
                 ELSE Return(-1) /\ UNCHANGED tree
              /\ UNCHANGED <<request, existed, stack, cp, kept, faults>>

FileRenameFails == /\ pc = "filecopy" /\ op.method = "MOVE" /\ ~crossdev
                   /\ Fault("rename") /\ Return(-1)
                   /\ UNCHANGED <<tree, request, existed, stack, cp, kept>>

(* file_copy: the destination is opened first, and not truncated.          *)
CopyOpens == /\ pc = "filecopy"
             /\ op.method = "COPY" \/ (crossdev)
             /\ IF IsDir(cp.dst)
                THEN Return(ERR_FORBIDDEN) /\ UNCHANGED tree
                ELSE /\ IF Present(cp.dst) THEN UNCHANGED tree ELSE Set(cp.dst, File(<<>>))
                     /\ IF Present(cp.src)
                        THEN Goto("copy") /\ UNCHANGED retval
                        ELSE Return(ERR_FILENOTFOUND)
             /\ UNCHANGED <<request, existed, stack, cp, kept, faults>>

(* One of the two opens fails, or there is no buffer: behind the first,    *)
(* the destination has been created.                                       *)
OpenFails == /\ pc = "filecopy"
             /\ op.method = "COPY" \/ (crossdev)
             /\ Fault("open")
             /\ \/ Return(ERR_FORBIDDEN) /\ UNCHANGED tree
                \/ /\ ~IsDir(cp.dst)
                   /\ IF Present(cp.dst) THEN UNCHANGED tree ELSE Set(cp.dst, File(<<>>))
                   /\ \E r \in {ERR_FILENOTFOUND, ERR_NOMEM} : Return(r)
             /\ UNCHANGED <<request, existed, stack, cp, kept>>

Source == tree[cp.src].data

(* A write of block b at position k: blocks behind it stay.                *)
Written(data, k, b) == [i \in 1 .. (IF Len(data) > k THEN Len(data) ELSE k) |->
                          IF i = k THEN b ELSE data[i]]

CopyBlock == /\ pc = "copy" /\ cp.pos < Len(Source)
             /\ Set(cp.dst, File(Written(tree[cp.dst].data, cp.pos + 1, Source[cp.pos + 1])))
             /\ cp' = [cp EXCEPT !.pos = @ + 1]
             /\ UNCHANGED <<request, existed, pc, stack, kept, retval, faults>>

(* A copy that takes a failed write for the end of the file.               *)
CopyWriteIgnored == /\ pc = "copy" /\ cp.pos < Len(Source)
                    /\ Fault("write")
                    /\ IF op.method = "MOVE"
                       THEN Goto("unlink") /\ UNCHANGED retval
                       ELSE Return(0)
                    /\ UNCHANGED <<tree, request, existed, stack, cp, kept>>

CopyWriteFails == /\ pc = "copy" /\ cp.pos < Len(Source)
                  /\ Fault("write") /\ Return(ERR_BRKPIPE)
                  /\ UNCHANGED <<tree, request, existed, stack, cp, kept>>

(* Copied: file_move goes on to remove the source.                         *)
Copied == IF op.method = "MOVE"
          THEN Goto("unlink") /\ UNCHANGED retval
          ELSE Return(0)

CopyEnds == /\ pc = "copy" /\ cp.pos = Len(Source)
            /\ Copied
            /\ UNCHANGED <<tree, request, existed, stack, cp, kept, faults>>

(* read() returns -1: the loop ends as if the file did.                    *)
CopyReadFails == /\ pc = "copy" /\ cp.pos < Len(Source)
                 /\ Fault("read")
                 /\ Copied
                 /\ UNCHANGED <<tree, request, existed, stack, cp, kept>>

(* The result of this unlink is not looked at.                             *)
UnlinkSource == /\ pc = "unlink"
                /\ \/ Set(cp.src, Absent) /\ UNCHANGED faults
                   \/ UNCHANGED tree /\ Fault("unlink")
                /\ Return(0)
                /\ UNCHANGED <<request, existed, stack, cp, kept>>

(* Back in a frame of dir_move_copy whose result is forgotten.             *)
ReturnIgnored == /\ pc = "return" /\ stack # <<>>
                 /\ Goto("loop")
                 /\ UNCHANGED <<tree, request, existed, stack, cp, kept, retval, faults>>

(* Back in a frame of dir_move_copy: the first failure ends them all.      *)
ReturnToDir == /\ pc = "return" /\ stack # <<>>
               /\ IF retval = 0
                  THEN Goto("loop") /\ UNCHANGED stack
                  ELSE stack' = Pop /\ UNCHANGED pc
               /\ UNCHANGED <<tree, request, existed, cp, kept, retval, faults>>

(* Back in copy_move: 0 becomes the answer, any other number is it.        *)
ReturnToCopyMove ==
  /\ pc = "return" /\ stack = <<>> /\ op.method \in {"COPY", "MOVE"}
  /\ retval' = IF retval # 0 THEN retval ELSE IF existed THEN OK_NOCONTENT ELSE OK_CREATED
  /\ Goto("answer")
  /\ UNCHANGED <<tree, request, existed, stack, cp, kept, faults>>
-----------------------------------------------------------------------------
(* delete_file.                                                            *)
Delete == /\ pc = "start" /\ op.method = "DELETE"
          /\ IF Present(S) THEN Goto("remove") /\ UNCHANGED retval
             ELSE retval' = ERR_FILENOTFOUND /\ Goto("answer")
          /\ UNCHANGED <<tree, request, existed, stack, cp, kept, faults>>

(* dir_remove, depth first: whatever cannot be removed keeps the           *)
(* directories above it, and the rest goes.                                *)
Remaining == {q \in Under(S) : Present(q)} \ kept
Ready(q) == q \in Remaining /\ Entries(q) \subseteq kept

Remove(q) == /\ pc = "remove" /\ Ready(q)
             /\ \/ /\ Entries(q) = {}
                   /\ Set(q, Absent) /\ UNCHANGED <<kept, faults>>
                \/ /\ IF Entries(q) = {} THEN Fault("unlink") ELSE UNCHANGED faults
                   /\ kept' = kept \cup {q} /\ UNCHANGED tree
             /\ UNCHANGED <<request, existed, pc, stack, cp, retval>>

(* A directory that cannot be listed keeps all that is below it.           *)
RemoveSkips(q) == /\ pc = "remove" /\ q \in Remaining /\ IsDir(q)
                  /\ \A r \in Under(q) : tree[r] = orig[r] /\ r \notin kept
                  /\ Fault("opendir")
                  /\ kept' = kept \cup {r \in Under(q) : Present(r)}
                  /\ UNCHANGED <<tree, request, existed, pc, stack, cp, retval>>

Removed == /\ pc = "remove" /\ Remaining = {}
           /\ retval' = IF Present(S) THEN ERR_FORBIDDEN ELSE OK_NOCONTENT
           /\ Goto("answer")
           /\ UNCHANGED <<tree, request, existed, stack, cp, kept, faults>>

MkCol == /\ pc = "start" /\ op.method = "MKCOL"
         /\ IF Present(S) THEN retval' = ERR_NOT_ALLOWED /\ UNCHANGED tree
            ELSE retval' = OK_CREATED /\ Set(S, Dir)
         /\ Goto("answer")
         /\ UNCHANGED <<request, existed, stack, cp, kept, faults>>

MkColFails == /\ pc = "start" /\ op.method = "MKCOL" /\ ~Present(S)
              /\ Fault("mkdir")
              /\ \E r \in {ERR_FORBIDDEN, ERR_INSUFFICIENT_STORAGE} : retval' = r
              /\ Goto("answer")
              /\ UNCHANGED <<tree, request, existed, stack, cp, kept>>

(* read_file: opened or created, then sized by ftruncate to what will      *)
(* come, and overwritten block by block.                                   *)
Sized(data, n) == [i \in 1 .. n |-> IF i <= Len(data) THEN data[i] ELSE "zero"]

PutOpen == /\ pc = "start" /\ op.method = "PUT"
           /\ existed' = Present(S)
           /\ IF IsDir(S)
              THEN retval' = ERR_FILENOTFOUND /\ Goto("answer") /\ UNCHANGED tree
              ELSE /\ Set(S, File(Sized(tree[S].data, Len(op.body))))
                   /\ Goto("put") /\ UNCHANGED retval
           /\ UNCHANGED <<request, stack, cp, kept, faults>>

(* The open fails, the ftruncate, or the malloc behind it.                 *)
PutFails == /\ pc = "start" /\ op.method = "PUT" /\ ~IsDir(S)
            /\ Fault("open")
            /\ \/ UNCHANGED tree /\ retval' = ERR_FILENOTFOUND
               \/ /\ retval' = ERR_NOMEM
                  /\ IF Present(S) THEN UNCHANGED tree ELSE Set(S, File(<<>>))
               \/ retval' = ERR_NOMEM /\ Set(S, File(Sized(tree[S].data, Len(op.body))))
            /\ Goto("answer")
            /\ UNCHANGED <<request, existed, stack, cp, kept>>

PutBlock == /\ pc = "put" /\ cp.pos < Len(op.body)
            /\ Set(S, File(Written(tree[S].data, cp.pos + 1, op.body[cp.pos + 1])))
            /\ cp' = [cp EXCEPT !.pos = @ + 1]
            /\ UNCHANGED <<request, existed, pc, stack, kept, retval, faults>>

PutWriteFails == /\ pc = "put" /\ cp.pos < Len(op.body)
                 /\ Fault("write")
                 /\ retval' = ERR_BRKPIPE /\ Goto("answer")
                 /\ UNCHANGED <<tree, request, existed, stack, cp, kept>>

PutEnds == /\ pc = "put" /\ cp.pos = Len(op.body)
           /\ retval' = IF existed THEN OK_NOCONTENT ELSE OK_CREATED
           /\ Goto("answer")
           /\ UNCHANGED <<tree, request, existed, stack, cp, kept, faults>>

(* The server stops in the middle of a request.                            *)
Crash == /\ pc \notin {"answer", "crashed"} /\ Fault("crash")
         /\ Goto("crashed")
         /\ UNCHANGED <<tree, request, existed, stack, cp, kept, retval>>

Ended == pc \in {"answer", "crashed"} /\ UNCHANGED vars

Next == \/ CopyMove \/ CopyMoveRefused \/ DirByCopy \/ DirByRename \/ DirRenameFails \/ TopFile
        \/ MkDir \/ MkDirFails \/ OpenDir \/ OpenDirFails
        \/ \E q \in Paths : NextEntry(q)
        \/ LoopEnds \/ RmDirFails
        \/ FileRename \/ FileRenameFails \/ CopyOpens \/ OpenFails \/ CopyBlock \/ CopyWriteFails
        \/ CopyEnds \/ CopyReadFails \/ UnlinkSource
        \/ ReturnToDir \/ ReturnToCopyMove
        \/ Delete \/ (\E q \in Paths : Remove(q) \/ RemoveSkips(q)) \/ Removed
        \/ MkCol \/ MkColFails
        \/ PutOpen \/ PutFails \/ PutBlock \/ PutWriteFails \/ PutEnds
        \/ Crash \/ Ended

Spec == Init /\ [][Next]_vars
-----------------------------------------------------------------------------
(* Types; a tree stays a tree; and the recursion keeps its way: each call  *)
(* of dir_move_copy, and the file it copies, goes to the place below the   *)
(* destination that corresponds to its source.                             *)
DavTypeOK ==
  /\ \A p \in Paths : tree[p].kind \in {"absent", "dir", "file"}
  /\ \A p \in Paths : ~IsDir(p) => Entries(p) = {}
  /\ \A k \in DOMAIN stack : /\ stack[k].src \in Under(S)
                             /\ stack[k].dst = Rebase(stack[k].src, S, D)
  /\ cp.src \in Under(S) /\ cp.dst = Rebase(cp.src, S, D)
  /\ kept \subseteq Under(S)
  /\ retval \in {0, -1, 1, 2, -2, -3, -6, -9, -12, -13, -14}

Success == pc = "answer" /\ retval \in {OK_CREATED, OK_NOCONTENT}

(* Answers of success that promise too much: file_copy takes a read error  *)
(* for the end of the file; file_move across devices ignores its unlink; a *)
(* file is not truncated when a shorter one is copied over it; and the 1   *)
(* with which dir_move reports a failed rename is OK_CREATED.              *)
ReadErrorIgnored == "read" \in faults
UnlinkIgnored == op.method = "MOVE" /\ crossdev /\ "unlink" \in faults
TailKept == (op.method = "COPY" \/ crossdev) /\ existed
              /\ Len(orig[D].data) > Len(orig[S].data)
RenameFailed == op.method = "MOVE" /\ retval = OK_CREATED /\ tree = orig

(* An answer of success means that the request was carried out: the        *)
(* destination of a COPY or MOVE is what the source was, block by block    *)
(* and down the tree, the source of a MOVE or DELETE is gone, the file of  *)
(* a PUT is its body; although each is many system calls, any of which may *)
(* fail.  The exceptions are the four above.                               *)
SuccessMeansDone ==
  Success /\ ~ReadErrorIgnored /\ ~TailKept /\ ~RenameFailed =>
    /\ op.method \in {"COPY", "MOVE"} =>
         /\ orig[S].kind # "absent"
         /\ \A q \in Under(S) : tree[Rebase(q, S, D)] = orig[q]
    /\ op.method \in {"MOVE", "DELETE"} =>
         UnlinkIgnored \/ \A q \in Under(S) : ~Present(q)
    /\ op.method = "MKCOL" => IsDir(S)
    /\ op.method = "PUT" => tree[S] = File(op.body)

Begins(long, short) == Len(short) <= Len(long) /\ SubSeq(long, 1, Len(short)) = short

(* A MOVE never loses a file: at every moment, after every failure and     *)
(* after a crash, each file is whole at its old or at its new place (the   *)
(* new one may have the tail of a longer file it replaced).  The exception *)
(* is a read error, after which the source of a partial copy is removed.   *)
NothingLost ==
  op.method = "MOVE" /\ ~ReadErrorIgnored =>
    \A q \in Under(S) : orig[q].kind = "file" =>
       \/ tree[q] = orig[q]
       \/ Begins(tree[Rebase(q, S, D)].data, orig[q].data)

(* "ovewrite header is a boolean where F is false": with F nothing that    *)
(* exists at the destination is changed.                                   *)
OverwriteFKeeps ==
  op.method \in {"COPY", "MOVE"} /\ op.over = "F" =>
    \A q \in Under(D) : orig[q].kind # "absent" => tree[q] = orig[q]
=============================================================================

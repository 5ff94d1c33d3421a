--------------------------- MODULE CacheDirProofs ---------------------------
(***************************************************************************)
(* The locks of the cache files do what cachedir.c wants of them, for any  *)
(* number of threads, files, versions of the directory, faults and         *)
(* changes: what is served does not change under the reader, and nobody    *)
(* sends a mixture of two listings.                                        *)
(***************************************************************************)
EXTENDS CacheDir, SequenceTheorems, TLAPS

(* The chunks that some listing of the directory has.                      *)
Chunks == {c \in Versions \X Nat : c[2] \in 1 .. Length[c[1]]}

Types ==
  /\ listing \in {"html", "xml"}
  /\ dirv \in Versions
  /\ path \in Inodes \cup {None}
  /\ file \in [Inodes -> Seq(Chunks)]
  /\ sh \in [Inodes -> SUBSET Threads] /\ ex \in [Inodes -> SUBSET Threads]
  /\ pc \in [Threads -> PCs]
  /\ fd \in [Threads -> Inodes \cup {None}]
  /\ ver \in [Threads -> Versions \cup {None}]
  /\ pos \in [Threads -> Nat] /\ off \in [Threads -> Nat]
  /\ faults \in Nat /\ changes \in Nat

(* From the exclusive lock to the close.                                   *)
Writer == {"writing", "unlink", "send", "close"}

HasFile(t) ==
  fd[t] \in IF pc[t] \in {"idle", "look", "list", "store", "direct"} THEN {None} ELSE Inodes

(* A reader's file has no writer, and a writer's no other user.            *)
HasLock(t) ==
  /\ pc[t] = "serving" => t \in sh[fd[t]]
  /\ pc[t] \in Writer => ex[fd[t]] = {t} /\ sh[fd[t]] = {}

HasVersion(t) ==
  pc[t] \in Writer \/ (listing = "html" /\ pc[t] \in {"store", "lockex"}) => ver[t] \in Versions

AtStart(t) == listing = "html" \/ pc[t] \notin Writer => pos[t] = 0 /\ off[t] = 0

(* Up to its offset the file holds what this writer wrote, which is its    *)
(* listing without the chunks whose write failed.                          *)
WroteOwn(t) ==
  pc[t] \in Writer =>
     /\ off[t] <= pos[t] /\ pos[t] <= Length[ver[t]] /\ off[t] <= Len(file[fd[t]])
     /\ \A k \in 1 .. off[t] : \E n \in k .. pos[t] :
           /\ file[fd[t]][k] = Chunk(ver[t], n)
           /\ k > 1 => file[fd[t]][k - 1][2] < n

ThreadInv(t) == HasFile(t) /\ HasLock(t) /\ HasVersion(t) /\ AtStart(t) /\ WroteOwn(t)

(* Before the first fault and the first change every file is a beginning   *)
(* of the one listing there is; a proper one only under its writer.        *)
FirstChunks(v, n) == [k \in 1 .. n |-> Chunk(v, k)]

BeingWritten(i, n) ==
  \E t \in Threads : pc[t] = "writing" /\ fd[t] = i /\ listing = "xml" /\ off[t] = n

Undisturbed ==
  faults = 0 /\ changes = 0 =>
     /\ \A t \in Threads : ver[t] \in {None, dirv}
     /\ \A t \in Threads : off[t] = pos[t]
     /\ \A i \in Inodes : \E n \in 0 .. Length[dirv] :
           /\ file[i] = FirstChunks(dirv, n)
           /\ n \in 1 .. Length[dirv] - 1 => BeingWritten(i, n)

CacheInv == Types /\ (\A t \in Threads : ThreadInv(t)) /\ Undisturbed
-----------------------------------------------------------------------------
(* write(2) replaces what is at the offset and keeps the rest.             *)
LEMMA OverwriteProperties ==
  ASSUME NEW S, NEW s \in Seq(S), NEW o \in 0 .. Len(s), NEW new \in Seq(S)
  PROVE  /\ Overwrite(s, o, new) \in Seq(S)
         /\ Len(Overwrite(s, o, new)) = IF Len(s) > o + Len(new) THEN Len(s) ELSE o + Len(new)
         /\ \A k \in 1 .. Len(Overwrite(s, o, new)) :
              Overwrite(s, o, new)[k] = IF k > o /\ k <= o + Len(new) THEN new[k - o] ELSE s[k]
<1>1. Len(s) \in Nat /\ Len(new) \in Nat  BY LenProperties
<1> DEFINE m == IF Len(s) > o + Len(new) THEN Len(s) ELSE o + Len(new)
           e(k) == IF k > o /\ k <= o + Len(new) THEN new[k - o] ELSE s[k]
<1>2. m \in Nat  BY <1>1
<1>3. ASSUME NEW k \in 1 .. m
      PROVE  e(k) \in S
  <2>1. CASE k > o /\ k <= o + Len(new)
    <3>1. k - o \in 1 .. Len(new)  BY <1>1, <2>1
    <3> QED  BY <2>1, <3>1, ElementOfSeq
  <2>2. CASE ~(k > o /\ k <= o + Len(new))
    <3>1. k \in 1 .. Len(s)  BY <1>1, <2>2
    <3> QED  BY <2>2, <3>1, ElementOfSeq
  <2> QED  BY <2>1, <2>2
<1>4. Overwrite(s, o, new) = [k \in 1 .. m |-> e(k)]  BY DEF Overwrite
<1> HIDE DEF m, e
<1>5. /\ [k \in 1 .. m |-> e(k)] \in Seq(S)
      /\ Len([k \in 1 .. m |-> e(k)]) = m
      /\ \A j \in 1 .. m : [k \in 1 .. m |-> e(k)][j] = e(j)
  BY <1>2, <1>3
<1> QED  BY <1>4, <1>5 DEF m, e

(* The listing of a version is a sequence of its chunks.                   *)
LEMMA ListingChunks ==
  ASSUME NEW v \in Versions, NEW n \in 0 .. Length[v]
  PROVE  /\ FirstChunks(v, n) \in Seq(Chunks)
         /\ Len(FirstChunks(v, n)) = n
         /\ \A k \in 1 .. n : FirstChunks(v, n)[k] = Chunk(v, k)
         /\ Length[v] \in Nat \ {0}
<1>1. Length[v] \in Nat \ {0} /\ n \in Nat  BY LengthPositive
<1>2. \A k \in 1 .. n : Chunk(v, k) \in Chunks  BY <1>1 DEF Chunks, Chunk
<1> QED  BY <1>1, <1>2 DEF FirstChunks

LEMMA WholeIsFirst ==
  ASSUME NEW v \in Versions
  PROVE  /\ WholeListing(v) = FirstChunks(v, Length[v])
         /\ \A n \in 0 .. Length[v] - 1 : SubSeq(WholeListing(v), 1, n) = FirstChunks(v, n)
<1>1. Length[v] \in Nat \ {0}  BY LengthPositive
<1>2. WholeListing(v) = FirstChunks(v, Length[v])  BY DEF WholeListing, FirstChunks
<1>3. ASSUME NEW n \in 0 .. Length[v] - 1
      PROVE  SubSeq(WholeListing(v), 1, n) = FirstChunks(v, n)
  <2> DEFINE w == WholeListing(v)
  <2>1. n \in 0 .. Length[v] /\ Length[v] \in 0 .. Length[v]  BY <1>1
  <2>2. w \in Seq(Chunks) /\ Len(w) = Length[v] /\ \A k \in 1 .. Length[v] : w[k] = Chunk(v, k)
    BY <1>2, <2>1, ListingChunks
  <2> HIDE DEF w
  <2>3. \A k \in 1 .. n : w[k] \in Chunks  BY <1>1, <2>2, ElementOfSeq
  <2>4. /\ SubSeq(w, 1, n) \in Seq(Chunks) /\ Len(SubSeq(w, 1, n)) = n
        /\ \A k \in 1 .. n : SubSeq(w, 1, n)[k] = w[k]
    BY <1>1, <2>3, SubSeqProperties
  <2>5. /\ FirstChunks(v, n) \in Seq(Chunks) /\ Len(FirstChunks(v, n)) = n
        /\ \A k \in 1 .. n : FirstChunks(v, n)[k] = Chunk(v, k)
    BY <2>1, ListingChunks
  <2>6. \A k \in 1 .. n : SubSeq(w, 1, n)[k] = FirstChunks(v, n)[k]
    BY <1>1, <2>2, <2>4, <2>5
  <2>7. SubSeq(w, 1, n) = FirstChunks(v, n)  BY <2>4, <2>5, <2>6, SeqEqual
  <2> QED  BY <2>7 DEF w
<1> QED  BY <1>2, <1>3
-----------------------------------------------------------------------------
(* The steps with which a thread closes its file.                          *)
Closing(t) ==
  /\ \E p \in {"idle", "list", "store", "direct"} : CloseTo(t, p) /\ (p = "store" => listing = "xml")
  /\ UNCHANGED <<listing, dirv, path, file, changes>>
  /\ faults' \in {faults, faults + 1}
  /\ pc[t] = "writing" => faults' = faults + 1

LEMMA ClosingSteps ==
  ASSUME Types, NEW t \in Threads,
         \/ LockSharedFails(t) \/ SendCached(t) \/ OpenCreateFails(t) \/ LockExclusiveFails(t)
         \/ CloseWritten(t) \/ OpendirFails(t) \/ SendWritten(t)
  PROVE  Closing(t)
<1> USE DEF Types, envvars, Fault, Missed, NotStored, Closing
<1>1. CASE LockSharedFails(t)  BY <1>1 DEF LockSharedFails
<1>2. CASE SendCached(t)  BY <1>2 DEF SendCached
<1>3. CASE OpenCreateFails(t)  BY <1>3 DEF OpenCreateFails
<1>4. CASE LockExclusiveFails(t)  BY <1>4 DEF LockExclusiveFails
<1>5. CASE CloseWritten(t)  BY <1>5 DEF CloseWritten
<1>6. CASE OpendirFails(t)  BY <1>6 DEF OpendirFails
<1>7. CASE SendWritten(t)  BY <1>7 DEF SendWritten
<1> QED  BY <1>1, <1>2, <1>3, <1>4, <1>5, <1>6, <1>7

(* Every step of a thread.                                                 *)
StepOf(t) ==
  \/ Closing(t)
  \/ Request(t) \/ OpenRead(t) \/ LockShared(t) \/ ListDir(t) \/ OpenCreate(t)
  \/ LockExclusive(t) \/ StoreHtml(t) \/ StoreHtmlShort(t) \/ Unlink(t)
  \/ WriteXml(t) \/ WriteXmlFails(t) \/ XmlWritten(t) \/ SendDirect(t)

LEMMA StepCases ==
  ASSUME Types, NEW t \in Threads, Step(t)
  PROVE  StepOf(t)
  BY ClosingSteps DEF Step, StepOf

(* What a write of thread t makes of its file.                             *)
LEMMA Written ==
  ASSUME Types, NEW t \in Threads, ThreadInv(t), pc[t] = "writing"
  PROVE  /\ fd[t] \in Inodes /\ ver[t] \in Versions
         /\ file[fd[t]] \in Seq(Chunks) /\ Len(file[fd[t]]) \in Nat
         /\ 0 \in 0 .. Len(file[fd[t]]) /\ off[t] \in 0 .. Len(file[fd[t]])
         /\ pos[t] \in Nat /\ Length[ver[t]] \in Nat \ {0}
         /\ WholeListing(ver[t]) \in Seq(Chunks)
         /\ \A n \in 0 .. Length[ver[t]] - 1 : SubSeq(WholeListing(ver[t]), 1, n) \in Seq(Chunks)
         /\ More(t) => <<Chunk(ver[t], pos[t] + 1)>> \in Seq(Chunks)
<1>1. fd[t] \in Inodes /\ ver[t] \in Versions /\ pos[t] \in Nat /\ off[t] \in Nat
  BY DEF Types, ThreadInv, HasFile, HasVersion, Writer
<1>2. file[fd[t]] \in Seq(Chunks) /\ Len(file[fd[t]]) \in Nat
  BY <1>1, LenProperties DEF Types
<1>3. off[t] <= Len(file[fd[t]])  BY DEF ThreadInv, WroteOwn, Writer
<1>4. Length[ver[t]] \in Nat \ {0}  BY <1>1, LengthPositive
<1>5. WholeListing(ver[t]) \in Seq(Chunks)
  BY <1>1, <1>4, WholeIsFirst, ListingChunks
<1>6. \A n \in 0 .. Length[ver[t]] - 1 : SubSeq(WholeListing(ver[t]), 1, n) \in Seq(Chunks)
  BY <1>1, <1>4, WholeIsFirst, ListingChunks
<1>7. More(t) => Chunk(ver[t], pos[t] + 1) \in Chunks
  BY <1>1, <1>4 DEF More, Chunk, Chunks
<1> QED  BY <1>1, <1>2, <1>3, <1>4, <1>5, <1>6, <1>7
-----------------------------------------------------------------------------
LEMMA StepTypes ==
  ASSUME Types, NEW t \in Threads, ThreadInv(t), StepOf(t)
  PROVE  Types'
<1> USE DEF fsvars, envvars, Goto, PCs
<1>1. CASE Closing(t)
  BY <1>1 DEF Closing, CloseTo, Unlocked, Types
<1>2. CASE Request(t)  BY <1>2 DEF Request, Types
<1>3. CASE OpenRead(t)  BY <1>3 DEF OpenRead, Missed, Types
<1>4. CASE LockShared(t)  BY <1>4 DEF LockShared, Types
<1>5. CASE ListDir(t)  BY <1>5 DEF ListDir, Types
<1>6. CASE OpenCreate(t)
  <2>1. \A i \in Inodes : [file EXCEPT ![i] = <<>>] \in [Inodes -> Seq(Chunks)]
    BY EmptySeq DEF Types
  <2>2. file' \in [Inodes -> Seq(Chunks)]
    <3>1. \/ file' = file
          \/ \E i \in Inodes : file' = [file EXCEPT ![i] = <<>>]
      BY <1>6 DEF OpenCreate, FreeInodes
    <3> QED  BY <2>1, <3>1 DEF Types
  <2>3. PICK i \in Inodes \cup {None} : path' = i /\ fd' = [fd EXCEPT ![t] = i]
    BY <1>6 DEF OpenCreate, FreeInodes, Types
  <2> QED  BY <1>6, <2>2, <2>3 DEF OpenCreate, Types
<1>7. CASE LockExclusive(t)
  <2>1. ex' \in [Inodes -> SUBSET Threads]  BY <1>7 DEF LockExclusive, Types
  <2>2. ver' \in [Threads -> Versions \cup {None}]  BY <1>7 DEF LockExclusive, Listed, Types
  <2> QED  BY <1>7, <2>1, <2>2 DEF LockExclusive, Types
<1>8. CASE StoreHtml(t)
  <2>1. Overwrite(file[fd[t]], 0, WholeListing(ver[t])) \in Seq(Chunks)
    BY <1>8, Written, OverwriteProperties DEF StoreHtml
  <2>2. file' \in [Inodes -> Seq(Chunks)]  BY <1>8, <2>1 DEF StoreHtml, Types
  <2> QED  BY <1>8, <2>2 DEF StoreHtml, Types
<1>9. CASE StoreHtmlShort(t)
  <2>1. PICK n \in 0 .. Length[ver[t]] - 1 :
          file' = [file EXCEPT ![fd[t]] = Overwrite(@, 0, SubSeq(WholeListing(ver[t]), 1, n))]
    BY <1>9 DEF StoreHtmlShort
  <2>2. Overwrite(file[fd[t]], 0, SubSeq(WholeListing(ver[t]), 1, n)) \in Seq(Chunks)
    <3>1. SubSeq(WholeListing(ver[t]), 1, n) \in Seq(Chunks)
      BY <1>9, Written DEF StoreHtmlShort
    <3> QED  BY <1>9, <3>1, Written, OverwriteProperties DEF StoreHtmlShort
  <2>3. file' \in [Inodes -> Seq(Chunks)]  BY <2>1, <2>2 DEF Types
  <2> QED  BY <1>9, <2>3 DEF StoreHtmlShort, Fault, Types
<1>10. CASE Unlink(t)  BY <1>10 DEF Unlink, Types
<1>11. CASE WriteXml(t)
  <2>1. Overwrite(file[fd[t]], off[t], <<Chunk(ver[t], pos[t] + 1)>>) \in Seq(Chunks)
    BY <1>11, Written, OverwriteProperties DEF WriteXml
  <2>2. file' \in [Inodes -> Seq(Chunks)]  BY <1>11, <2>1 DEF WriteXml, Types
  <2> QED  BY <1>11, <2>2 DEF WriteXml, Types
<1>12. CASE WriteXmlFails(t)  BY <1>12 DEF WriteXmlFails, Fault, Types
<1>13. CASE XmlWritten(t)  BY <1>13 DEF XmlWritten, Types
<1>14. CASE SendDirect(t)  BY <1>14 DEF SendDirect, Types
<1> QED
  BY <1>1, <1>2, <1>3, <1>4, <1>5, <1>6, <1>7, <1>8, <1>9, <1>10, <1>11, <1>12, <1>13, <1>14
     DEF StepOf

(* A step of thread t leaves to another thread u its locks, and the file   *)
(* they are on as it was.                                                  *)
Keeps(u) ==
  /\ pc'[u] = pc[u] /\ fd'[u] = fd[u] /\ ver'[u] = ver[u]
  /\ pos'[u] = pos[u] /\ off'[u] = off[u] /\ listing' = listing

KeepsFile(u) ==
  /\ pc[u] = "serving" => u \in sh'[fd[u]] /\ file'[fd[u]] = file[fd[u]]
  /\ pc[u] \in Writer => ex'[fd[u]] = {u} /\ sh'[fd[u]] = {} /\ file'[fd[u]] = file[fd[u]]

LEMMA OtherThread ==
  ASSUME Types, NEW t \in Threads, ThreadInv(t), StepOf(t),
         NEW u \in Threads, u # t, ThreadInv(u)
  PROVE  Keeps(u) /\ KeepsFile(u)
<1> USE DEF fsvars, envvars, Goto
<1>1. Keeps(u)
  <2> USE DEF Types, Keeps
  <2>1. CASE Closing(t)  BY <2>1 DEF Closing, CloseTo
  <2>2. CASE Request(t)  BY <2>2 DEF Request
  <2>3. CASE OpenRead(t)  BY <2>3 DEF OpenRead
  <2>4. CASE LockShared(t)  BY <2>4 DEF LockShared
  <2>5. CASE ListDir(t)  BY <2>5 DEF ListDir
  <2>6. CASE OpenCreate(t)  BY <2>6 DEF OpenCreate
  <2>7. CASE LockExclusive(t)  BY <2>7 DEF LockExclusive
  <2>8. CASE StoreHtml(t)  BY <2>8 DEF StoreHtml
  <2>9. CASE StoreHtmlShort(t)  BY <2>9 DEF StoreHtmlShort, Fault
  <2>10. CASE Unlink(t)  BY <2>10 DEF Unlink
  <2>11. CASE WriteXml(t)  BY <2>11 DEF WriteXml
  <2>12. CASE WriteXmlFails(t)  BY <2>12 DEF WriteXmlFails, Fault
  <2>13. CASE XmlWritten(t)  BY <2>13 DEF XmlWritten
  <2>14. CASE SendDirect(t)  BY <2>14 DEF SendDirect
  <2> QED
    BY <2>1, <2>2, <2>3, <2>4, <2>5, <2>6, <2>7, <2>8, <2>9, <2>10, <2>11, <2>12, <2>13, <2>14
       DEF StepOf
<1>2. KeepsFile(u)
  <2>1. /\ pc[u] = "serving" => u \in sh[fd[u]] /\ fd[u] \in Inodes
        /\ pc[u] \in Writer => ex[fd[u]] = {u} /\ sh[fd[u]] = {} /\ fd[u] \in Inodes
    BY DEF ThreadInv, HasLock, HasFile, Writer
  <2>2. ASSUME UNCHANGED <<file, sh, ex>>
        PROVE  KeepsFile(u)
    BY <2>1, <2>2 DEF KeepsFile
  <2>3. CASE Closing(t)
    BY <2>1, <2>3 DEF Closing, CloseTo, Unlocked, KeepsFile, Types
  <2>4. CASE LockShared(t)
    BY <2>1, <2>4 DEF LockShared, KeepsFile, Types
  <2>5. CASE OpenCreate(t)
    <3>1. \A i \in FreeInodes : fd[u] # i  BY DEF FreeInodes
    <3>2. fd[u] \in Inodes => file'[fd[u]] = file[fd[u]]
      BY <2>5, <3>1 DEF OpenCreate, Types
    <3> QED  BY <2>1, <2>5, <3>2 DEF OpenCreate, KeepsFile
  <2>6. CASE LockExclusive(t)
    BY <2>1, <2>6 DEF LockExclusive, KeepsFile, Types
  <2>7. ASSUME pc[t] = "writing", UNCHANGED <<sh, ex>>,
               \A i \in Inodes \ {fd[t]} : file'[i] = file[i]
        PROVE  KeepsFile(u)
    <3>1. ex[fd[t]] = {t} /\ sh[fd[t]] = {}
      BY <2>7 DEF ThreadInv, HasLock, Writer
    <3> QED  BY <2>1, <2>7, <3>1 DEF KeepsFile
  <2>8. CASE StoreHtml(t)  BY <2>7, <2>8 DEF StoreHtml, Types
  <2>9. CASE StoreHtmlShort(t)  BY <2>7, <2>9 DEF StoreHtmlShort, Types
  <2>10. CASE WriteXml(t)  BY <2>7, <2>10 DEF WriteXml, Types
  <2> QED
    BY <2>2, <2>3, <2>4, <2>5, <2>6, <2>8, <2>9, <2>10
       DEF StepOf, Request, OpenRead, ListDir, Unlink, WriteXmlFails, XmlWritten, SendDirect
<1> QED  BY <1>1, <1>2

LEMMA OtherInv ==
  ASSUME NEW u \in Threads, ThreadInv(u), Keeps(u), KeepsFile(u)
  PROVE  ThreadInv(u)'
<1>1. HasFile(u)' /\ HasVersion(u)' /\ AtStart(u)'
  BY DEF ThreadInv, Keeps, HasFile, HasVersion, AtStart
<1>2. HasLock(u)'  BY DEF ThreadInv, Keeps, KeepsFile, HasLock
<1>3. WroteOwn(u)'  BY DEF ThreadInv, Keeps, KeepsFile, WroteOwn
<1> QED  BY <1>1, <1>2, <1>3 DEF ThreadInv

(* The thread that steps keeps its own part of the invariant.              *)
LEMMA OwnInv ==
  ASSUME Types, Types', NEW t \in Threads, ThreadInv(t), StepOf(t)
  PROVE  ThreadInv(t)'
<1> USE DEF fsvars, envvars, Goto
<1>0. /\ pos[t] \in Nat /\ off[t] \in Nat /\ pc[t] \in PCs
      /\ \A v \in Versions : Length[v] \in Nat \ {0}
      /\ \A i \in Inodes : Len(file[i]) \in Nat /\ Len(file'[i]) \in Nat
  <2>1. \A i \in Inodes : file[i] \in Seq(Chunks) /\ file'[i] \in Seq(Chunks)  BY DEF Types
  <2>2. \A i \in Inodes : Len(file[i]) \in Nat /\ Len(file'[i]) \in Nat  BY <2>1, LenProperties
  <2> QED  BY <2>2, LengthPositive DEF Types
<1>a. ASSUME pc'[t] \notin Writer
      PROVE  WroteOwn(t)'
  BY <1>a DEF WroteOwn
<1>b. ASSUME pos'[t] = 0, off'[t] = 0, HasFile(t)', HasVersion(t)'
      PROVE  WroteOwn(t)'
  BY <1>0, <1>b DEF WroteOwn, HasFile, HasVersion, Writer
<1>1. CASE Closing(t)
  <2>1. PICK p \in {"idle", "list", "store", "direct"} :
          CloseTo(t, p) /\ (p = "store" => listing = "xml")
    BY <1>1 DEF Closing
  <2>2. /\ pc'[t] = p /\ fd'[t] = None /\ pos'[t] = 0 /\ off'[t] = 0 /\ listing' = listing
    BY <1>1, <2>1 DEF Closing, CloseTo, Types
  <2> QED
    BY <1>a, <2>1, <2>2 DEF ThreadInv, HasFile, HasLock, HasVersion, AtStart, Writer
<1>2. CASE Request(t)
  BY <1>2, <1>a DEF Request, Types, ThreadInv, HasFile, HasLock, HasVersion, AtStart, Writer
<1>3. CASE OpenRead(t)
  <2>1. /\ fd'[t] = path /\ pc'[t] = IF path = None THEN Missed ELSE "locksh"
        /\ UNCHANGED <<listing, pos, off>>
    BY <1>3 DEF OpenRead, Types
  <2>2. pc'[t] \in {"list", "store", "locksh"} /\ (pc'[t] = "store" => listing = "xml")
    BY <2>1 DEF Missed, Types
  <2>3. HasFile(t)'  BY <2>1, <2>2, NoneFresh DEF HasFile, Missed, Types
  <2> QED
    BY <1>3, <1>a, <2>1, <2>2, <2>3
       DEF OpenRead, ThreadInv, HasLock, HasVersion, AtStart, Writer
<1>4. CASE LockShared(t)
  <2>1. /\ pc'[t] = "serving" /\ fd' = fd /\ fd[t] \in Inodes /\ pc[t] = "locksh"
        /\ UNCHANGED <<listing, pos, off>>
    BY <1>4 DEF LockShared, Types, ThreadInv, HasFile
  <2>2. t \in sh'[fd[t]]  BY <1>4, <2>1 DEF LockShared, Types
  <2> QED
    BY <1>a, <2>1, <2>2 DEF ThreadInv, HasFile, HasLock, HasVersion, AtStart, Writer
<1>5. CASE ListDir(t)
  BY <1>5, <1>a DEF ListDir, Types, ThreadInv, HasFile, HasLock, HasVersion, AtStart, Writer
<1>6. CASE OpenCreate(t)
  <2>1. /\ pc'[t] = "lockex" /\ pc[t] = "store" /\ UNCHANGED <<listing, ver, pos, off>>
    BY <1>6 DEF OpenCreate, Types
  <2>2. fd'[t] \in Inodes  BY <1>6 DEF OpenCreate, FreeInodes, Types
  <2> QED
    BY <1>a, <2>1, <2>2 DEF ThreadInv, HasFile, HasLock, HasVersion, AtStart, Writer
<1>7. CASE LockExclusive(t)
  <2>1. /\ pc'[t] = "writing" /\ pc[t] = "lockex" /\ fd' = fd /\ fd[t] \in Inodes
        /\ UNCHANGED <<listing, pos, off, sh>> /\ ver'[t] = Listed(t) /\ sh[fd[t]] = {}
    BY <1>7 DEF LockExclusive, Types, ThreadInv, HasFile
  <2>2. ex'[fd[t]] = {t}  BY <1>7, <2>1 DEF LockExclusive, Types
  <2>3. ver'[t] \in Versions  BY <2>1 DEF Listed, ThreadInv, HasVersion, Types
  <2>4. pos'[t] = 0 /\ off'[t] = 0  BY <2>1 DEF ThreadInv, AtStart, Writer
  <2>5. HasFile(t)' /\ HasVersion(t)'  BY <2>1, <2>3 DEF HasFile, HasVersion
  <2> QED
    BY <1>b, <2>1, <2>2, <2>4, <2>5 DEF ThreadInv, HasLock, AtStart
<1>8. ASSUME pc[t] = "writing", listing = "html", pc'[t] \in Writer,
             UNCHANGED <<listing, sh, ex, fd, ver, pos, off>>
      PROVE  ThreadInv(t)'
  <2>1. pos'[t] = 0 /\ off'[t] = 0  BY <1>8 DEF ThreadInv, AtStart
  <2>2. HasFile(t)' /\ HasVersion(t)' /\ HasLock(t)'
    BY <1>8 DEF ThreadInv, HasFile, HasVersion, HasLock, Writer
  <2> QED  BY <1>b, <2>1, <2>2 DEF ThreadInv, AtStart
<1>9. CASE StoreHtml(t)  BY <1>8, <1>9 DEF StoreHtml, Writer, Types
<1>10. CASE StoreHtmlShort(t)  BY <1>8, <1>10 DEF StoreHtmlShort, Fault, Writer, Types
<1>11. ASSUME pc[t] \in Writer, pc'[t] \in Writer,
              UNCHANGED <<listing, file, sh, ex, fd, ver, pos, off>>
       PROVE  ThreadInv(t)'
  BY <1>11 DEF ThreadInv, HasFile, HasLock, HasVersion, AtStart, WroteOwn, Writer
<1>12. CASE Unlink(t)  BY <1>11, <1>12 DEF Unlink, Writer, Types
<1>13. CASE XmlWritten(t)  BY <1>11, <1>13 DEF XmlWritten, Writer, Types
<1>14. CASE SendDirect(t)
  BY <1>14, <1>a DEF SendDirect, Types, ThreadInv, HasFile, HasLock, HasVersion, AtStart, Writer
<1>15. CASE WriteXmlFails(t)
  <2>1. /\ UNCHANGED <<file, sh, ex, fd, ver, off, pc, listing>> /\ listing = "xml"
        /\ pos'[t] = pos[t] + 1 /\ pc[t] = "writing" /\ pos[t] < Length[ver[t]]
    BY <1>15 DEF WriteXmlFails, More, Fault, Types
  <2>2. /\ off[t] <= pos[t] /\ off[t] <= Len(file[fd[t]]) /\ Length[ver[t]] \in Nat
        /\ \A k \in 1 .. off[t] : \E n \in k .. pos[t] :
              /\ file[fd[t]][k] = Chunk(ver[t], n)
              /\ k > 1 => file[fd[t]][k - 1][2] < n
    BY <1>0, <2>1 DEF ThreadInv, WroteOwn, HasVersion, Writer
  <2>3. \A k \in 1 .. off[t] : k .. pos[t] \subseteq k .. pos[t] + 1  BY <1>0
  <2>4. \A k \in 1 .. off[t] : \E n \in k .. pos[t] + 1 :
           /\ file[fd[t]][k] = Chunk(ver[t], n)
           /\ k > 1 => file[fd[t]][k - 1][2] < n
    BY <2>2, <2>3
  <2>5. off[t] <= pos[t] + 1 /\ pos[t] + 1 <= Length[ver[t]]  BY <1>0, <2>1, <2>2
  <2>6. WroteOwn(t)'  BY <2>1, <2>2, <2>4, <2>5 DEF WroteOwn
  <2> QED
    BY <2>1, <2>6 DEF ThreadInv, HasFile, HasLock, HasVersion, AtStart, Writer
<1>16. CASE WriteXml(t)
  <2> DEFINE o == off[t]
             p == pos[t]
             v == ver[t]
             old == file[fd[t]]
             now == file'[fd[t]]
  <2>1. /\ UNCHANGED <<sh, ex, fd, ver, pc, listing>> /\ listing = "xml"
        /\ pos'[t] = p + 1 /\ off'[t] = o + 1 /\ pc[t] = "writing" /\ p < Length[v]
    BY <1>16 DEF WriteXml, More, Types
  <2>2. /\ o <= p /\ o <= Len(old) /\ Length[v] \in Nat
        /\ \A k \in 1 .. o : \E n \in k .. p :
              old[k] = Chunk(v, n) /\ (k > 1 => old[k - 1][2] < n)
    BY <1>0, <2>1 DEF ThreadInv, WroteOwn, HasVersion, Writer
  <2>3. o \in Nat /\ p \in Nat  BY <1>0
  <2>4. /\ Len(now) \in Nat /\ Len(now) >= o + 1 /\ now[o + 1] = Chunk(v, p + 1)
        /\ \A k \in 1 .. o : now[k] = old[k]
    <3> DEFINE new == <<Chunk(v, p + 1)>>
    <3>1. /\ fd[t] \in Inodes /\ old \in Seq(Chunks) /\ o \in 0 .. Len(old) /\ new \in Seq(Chunks)
          /\ Len(old) \in Nat
      BY <1>16, Written DEF WriteXml
    <3>2. now = Overwrite(old, o, new)  BY <1>16, <3>1 DEF WriteXml, Types
    <3>3. Len(new) = 1 /\ new[1] = Chunk(v, p + 1)  OBVIOUS
    <3> HIDE DEF new, now, old, o, p, v
    <3>4. /\ Len(now) = IF Len(old) > o + Len(new) THEN Len(old) ELSE o + Len(new)
          /\ \A k \in 1 .. Len(now) :
                now[k] = IF k > o /\ k <= o + Len(new) THEN new[k - o] ELSE old[k]
      BY <3>1, <3>2, OverwriteProperties
    <3>5. Len(now) \in Nat /\ Len(now) >= o + 1  BY <2>3, <3>1, <3>3, <3>4
    <3>6. \A k \in 1 .. Len(now) : k = o + 1 => now[k] = new[1]
      <4>1. \A k \in 1 .. Len(now) : k = o + 1 => k - o = 1 /\ k > o /\ k <= o + Len(new)
        BY <2>3, <3>3
      <4> QED  BY <3>4, <4>1
    <3>7. \A k \in 1 .. o : now[k] = old[k]  BY <2>3, <3>3, <3>4, <3>5
    <3>8. o + 1 \in 1 .. Len(now)  BY <2>3, <3>5
    <3> QED  BY <3>3, <3>5, <3>6, <3>7, <3>8
  <2> HIDE DEF now, old, o, p, v
  <2>5. ASSUME NEW k \in 1 .. o + 1
        PROVE  \E n \in k .. p + 1 : now[k] = Chunk(v, n) /\ (k > 1 => now[k - 1][2] < n)
    <3>1. CASE k \in 1 .. o
      <4>1. PICK n \in k .. p : old[k] = Chunk(v, n) /\ (k > 1 => old[k - 1][2] < n)
        BY <2>2, <3>1
      <4>2. n \in k .. p + 1  BY <2>3
      <4>3. k > 1 => k - 1 \in 1 .. o  BY <2>3, <3>1
      <4> QED  BY <2>4, <3>1, <4>1, <4>2, <4>3
    <3>2. CASE k = o + 1
      <4>1. p + 1 \in k .. p + 1  BY <2>2, <2>3, <3>2
      <4>2. k > 1 => now[k - 1][2] < p + 1
        <5>1. ASSUME k > 1 PROVE now[k - 1][2] < p + 1
          <6>1. k - 1 = o /\ o \in 1 .. o  BY <2>3, <3>2, <5>1
          <6>2. PICK n \in o .. p : old[o] = Chunk(v, n)  BY <2>2, <6>1
          <6>3. now[o] = <<v, n>>  BY <2>4, <6>1, <6>2 DEF Chunk
          <6>4. now[o][2] = n  BY <6>3
          <6> QED  BY <2>3, <6>1, <6>4
        <5> QED  BY <5>1
      <4> QED  BY <2>4, <3>2, <4>1, <4>2
    <3> QED  BY <2>3, <3>1, <3>2
  <2>6. o + 1 <= p + 1 /\ p + 1 <= Length[v]  BY <2>1, <2>2, <2>3
  <2>7. WroteOwn(t)'
    BY <2>1, <2>4, <2>5, <2>6 DEF WroteOwn, now, old, o, p, v
  <2> QED
    BY <2>1, <2>7 DEF ThreadInv, HasFile, HasLock, HasVersion, AtStart, Writer
<1> QED
  BY <1>1, <1>2, <1>3, <1>4, <1>5, <1>6, <1>7, <1>9, <1>10, <1>12, <1>13, <1>14, <1>15, <1>16
     DEF StepOf
-----------------------------------------------------------------------------
(* A page written over a beginning of itself is the page.                  *)
LEMMA WholeOverFirst ==
  ASSUME NEW v \in Versions, NEW n \in 0 .. Length[v]
  PROVE  Overwrite(FirstChunks(v, n), 0, WholeListing(v)) = FirstChunks(v, Length[v])
<1> DEFINE s == FirstChunks(v, n)
           w == WholeListing(v)
           r == Overwrite(s, 0, w)
<1>1. Length[v] \in Nat \ {0} /\ Length[v] \in 0 .. Length[v] /\ n \in Nat  BY LengthPositive
<1>2. w = FirstChunks(v, Length[v])  BY WholeIsFirst
<1>3. s \in Seq(Chunks) /\ Len(s) = n  BY ListingChunks
<1>4. w \in Seq(Chunks) /\ Len(w) = Length[v]  BY <1>1, <1>2, ListingChunks
<1>5. 0 \in 0 .. Len(s)  BY <1>1, <1>3
<1> HIDE DEF s, w
<1>6. /\ r \in Seq(Chunks)
      /\ Len(r) = IF Len(s) > 0 + Len(w) THEN Len(s) ELSE 0 + Len(w)
      /\ \A k \in 1 .. Len(r) : r[k] = IF k > 0 /\ k <= 0 + Len(w) THEN w[k - 0] ELSE s[k]
  BY <1>3, <1>4, <1>5, OverwriteProperties
<1> HIDE DEF r
<1>7. Len(r) = Length[v]  BY <1>1, <1>3, <1>4, <1>6
<1>8. \A k \in 1 .. Len(r) : r[k] = w[k]  BY <1>1, <1>4, <1>6, <1>7
<1>9. r = w  BY <1>4, <1>6, <1>7, <1>8, SeqEqual
<1> QED  BY <1>2, <1>9 DEF r, s, w

(* The next chunk, written behind o of the n chunks that are there.        *)
LEMMA ChunkOverFirst ==
  ASSUME NEW v \in Versions, NEW n \in 0 .. Length[v], NEW o \in 0 .. n, o < Length[v]
  PROVE  Overwrite(FirstChunks(v, n), o, <<Chunk(v, o + 1)>>)
           = FirstChunks(v, IF n = o THEN o + 1 ELSE n)
<1> DEFINE s == FirstChunks(v, n)
           new == <<Chunk(v, o + 1)>>
           m == IF n = o THEN o + 1 ELSE n
           r == Overwrite(s, o, new)
           f == FirstChunks(v, m)
<1>1. Length[v] \in Nat \ {0} /\ n \in Nat /\ o \in Nat /\ m \in 0 .. Length[v] /\ m \in Nat
  BY LengthPositive
<1>2. s \in Seq(Chunks) /\ Len(s) = n /\ \A k \in 1 .. n : s[k] = Chunk(v, k)  BY ListingChunks
<1>3. new \in Seq(Chunks) /\ Len(new) = 1 /\ new[1] = Chunk(v, o + 1)
  <2>1. Chunk(v, o + 1) \in Chunks  BY <1>1 DEF Chunks, Chunk
  <2> QED  BY <2>1
<1> HIDE DEF m
<1>4. f \in Seq(Chunks) /\ Len(f) = m /\ \A k \in 1 .. m : f[k] = Chunk(v, k)
  BY <1>1, ListingChunks
<1>5. s \in Seq(Chunks) /\ new \in Seq(Chunks) /\ o \in 0 .. Len(s)  BY <1>1, <1>2, <1>3
<1> HIDE DEF s, new, f
<1>6. /\ r \in Seq(Chunks)
      /\ Len(r) = IF Len(s) > o + Len(new) THEN Len(s) ELSE o + Len(new)
      /\ \A k \in 1 .. Len(r) : r[k] = IF k > o /\ k <= o + Len(new) THEN new[k - o] ELSE s[k]
  BY <1>5, OverwriteProperties
<1> HIDE DEF r
<1>7. Len(r) = m  BY <1>1, <1>2, <1>3, <1>6 DEF m
<1>8. ASSUME NEW k \in 1 .. m
      PROVE  r[k] = f[k]
  <2>1. CASE k = o + 1
    <3>1. k - o = 1 /\ k > o /\ k <= o + Len(new)  BY <1>1, <1>3, <2>1
    <3> QED  BY <1>3, <1>4, <1>6, <1>7, <2>1, <3>1
  <2>2. CASE k # o + 1
    <3>1. ~(k > o /\ k <= o + Len(new))  BY <1>1, <1>3, <2>2
    <3>2. k \in 1 .. n  BY <1>1, <2>2 DEF m
    <3> QED  BY <1>2, <1>4, <1>6, <1>7, <3>1, <3>2
  <2> QED  BY <2>1, <2>2
<1>9. r = f  BY <1>4, <1>6, <1>7, <1>8, SeqEqual
<1> QED  BY <1>9 DEF r, f, s, new, m

LEMMA StepUndisturbed ==
  ASSUME Types, Types', \A u \in Threads : ThreadInv(u), Undisturbed,
         NEW t \in Threads, StepOf(t)
  PROVE  Undisturbed'
<1> USE DEF fsvars, envvars, Goto
<1> SUFFICES ASSUME faults' = 0, changes' = 0
             PROVE  /\ \A u \in Threads : ver'[u] \in {None, dirv'}
                    /\ \A u \in Threads : off'[u] = pos'[u]
                    /\ \A i \in Inodes : \E n \in 0 .. Length[dirv'] :
                          /\ file'[i] = FirstChunks(dirv', n)
                          /\ n \in 1 .. Length[dirv'] - 1 => BeingWritten(i, n)'
  BY DEF Undisturbed
<1>0. /\ UNCHANGED <<listing, dirv, faults, changes>>
      /\ pc[t] = "writing" => WriteXml(t) \/ StoreHtml(t) \/ XmlWritten(t)
      /\ ~StoreHtmlShort(t) /\ ~WriteXmlFails(t)
  <2>1. faults \in Nat /\ changes \in Nat /\ ~(faults + 1 = 0)  BY DEF Types
  <2>2. CASE Closing(t)
    <3>1. faults' = faults /\ pc[t] # "writing" /\ UNCHANGED <<listing, dirv, changes>>
      BY <2>1, <2>2 DEF Closing
    <3> QED  BY <3>1 DEF StoreHtmlShort, WriteXmlFails
  <2>3. ~StoreHtmlShort(t) /\ ~WriteXmlFails(t)
    BY <2>1 DEF StoreHtmlShort, WriteXmlFails, Fault
  <2> QED
    BY <2>2, <2>3
       DEF StepOf, Request, OpenRead, LockShared, ListDir, OpenCreate, LockExclusive, StoreHtml,
           Unlink, WriteXml, XmlWritten, SendDirect
<1>1. /\ faults = 0 /\ changes = 0 /\ dirv \in Versions
      /\ Length[dirv] \in Nat \ {0}
      /\ \A u \in Threads : ver[u] \in {None, dirv} /\ off[u] = pos[u] /\ ThreadInv(u)
      /\ \A i \in Inodes : \E n \in 0 .. Length[dirv] :
            /\ file[i] = FirstChunks(dirv, n)
            /\ n \in 1 .. Length[dirv] - 1 => BeingWritten(i, n)
  BY <1>0, LengthPositive DEF Undisturbed, Types
<1>2. \A u \in Threads : ver'[u] \in {None, dirv}
  <2>1. \/ ver' = ver
        \/ ver'[t] \in {None, dirv} /\ \A u \in Threads \ {t} : ver'[u] = ver[u]
    BY <1>0, <1>1
       DEF StepOf, Closing, CloseTo, Request, OpenRead, LockShared, ListDir, OpenCreate,
           LockExclusive, Listed, StoreHtml, Unlink, WriteXml, XmlWritten, SendDirect, Types
  <2> QED  BY <1>1, <2>1
<1>3. \A u \in Threads : off'[u] = pos'[u]
  <2>1. CASE Closing(t)  BY <1>1, <2>1 DEF Closing, CloseTo, Types
  <2>2. CASE WriteXml(t)  BY <1>1, <2>2 DEF WriteXml, Types
  <2> QED
    BY <1>0, <1>1, <2>1, <2>2
       DEF StepOf, Request, OpenRead, LockShared, ListDir, OpenCreate, LockExclusive,
           StoreHtml, Unlink, XmlWritten, SendDirect
(* What was being written still is, if thread t is not its writer.         *)
<1>4. ASSUME NEW i \in Inodes, NEW n \in 1 .. Length[dirv] - 1, BeingWritten(i, n),
             pc[t] = "writing" => fd[t] # i \/ off[t] # n
      PROVE  BeingWritten(i, n)'
  <2>1. PICK u \in Threads : pc[u] = "writing" /\ fd[u] = i /\ listing = "xml" /\ off[u] = n
    BY <1>4 DEF BeingWritten
  <2>2. u # t  BY <1>4, <2>1
  <2>3. Keeps(u)  BY <1>1, <2>2, OtherThread
  <2> QED  BY <2>1, <2>3 DEF BeingWritten, Keeps
<1>5. ASSUME NEW i \in Inodes, file'[i] = file[i],
             pc[t] = "writing" => fd[t] # i \/ off[t] = Length[dirv]
      PROVE  \E n \in 0 .. Length[dirv] :
                /\ file'[i] = FirstChunks(dirv, n)
                /\ n \in 1 .. Length[dirv] - 1 => BeingWritten(i, n)'
  <2>1. PICK n \in 0 .. Length[dirv] :
          /\ file[i] = FirstChunks(dirv, n)
          /\ n \in 1 .. Length[dirv] - 1 => BeingWritten(i, n)
    BY <1>1
  <2>2. n \in 1 .. Length[dirv] - 1 => BeingWritten(i, n)'
    BY <1>1, <1>4, <1>5, <2>1
  <2> QED  BY <1>5, <2>1, <2>2
<1>6. pc[t] = "writing" => /\ fd[t] \in Inodes /\ ver[t] = dirv /\ off[t] = pos[t]
                           /\ pos[t] \in Nat /\ off[t] <= Len(file[fd[t]])
  BY <1>1, NoneFresh DEF ThreadInv, HasFile, HasVersion, WroteOwn, Writer, Types
<1>7. \A i \in Inodes : \E n \in 0 .. Length[dirv] :
         /\ file'[i] = FirstChunks(dirv, n)
         /\ n \in 1 .. Length[dirv] - 1 => BeingWritten(i, n)'
  <2> SUFFICES ASSUME NEW i \in Inodes
               PROVE  \E n \in 0 .. Length[dirv] :
                         /\ file'[i] = FirstChunks(dirv, n)
                         /\ n \in 1 .. Length[dirv] - 1 => BeingWritten(i, n)'
    OBVIOUS
  <2>1. CASE OpenCreate(t)
    <3>1. file'[i] = file[i] \/ file'[i] = <<>>  BY <2>1 DEF OpenCreate, Types
    <3>2. FirstChunks(dirv, 0) = <<>>  BY DEF FirstChunks
    <3>3. pc[t] # "writing" /\ 0 \in 0 .. Length[dirv]  BY <1>1, <2>1 DEF OpenCreate
    <3> QED  BY <1>5, <3>1, <3>2, <3>3
  <2>2. CASE XmlWritten(t)
    <3>1. file' = file /\ pc[t] = "writing" /\ ~(pos[t] < Length[ver[t]])
      BY <2>2 DEF XmlWritten, More
    <3>2. pos[t] <= Length[ver[t]]  BY <1>1, <3>1 DEF ThreadInv, WroteOwn, Writer
    <3>3. off[t] = Length[dirv]  BY <1>1, <1>6, <3>1, <3>2
    <3> QED  BY <1>5, <3>1, <3>3
  <2>3. CASE StoreHtml(t)
    <3>1. CASE i # fd[t]  BY <1>5, <2>3, <3>1 DEF StoreHtml, Types
    <3>2. CASE i = fd[t]
      <4>1. PICK n \in 0 .. Length[dirv] : file[i] = FirstChunks(dirv, n)  BY <1>1
      <4>2. pc[t] = "writing"  BY <2>3 DEF StoreHtml
      <4>3. file'[i] = Overwrite(file[i], 0, WholeListing(dirv))
        BY <1>6, <2>3, <3>2, <4>2 DEF StoreHtml, Types
      <4>4. file'[i] = FirstChunks(dirv, Length[dirv])
        BY <1>1, <4>1, <4>3, WholeOverFirst
      <4>5. Length[dirv] \in 0 .. Length[dirv] /\ Length[dirv] \notin 1 .. Length[dirv] - 1
        BY <1>1
      <4> QED  BY <4>4, <4>5
    <3> QED  BY <3>1, <3>2
  <2>4. CASE WriteXml(t)
    <3>1. CASE i # fd[t]  BY <1>5, <2>4, <3>1 DEF WriteXml, Types
    <3>2. CASE i = fd[t]
      <4> DEFINE o == off[t]
      <4>1. PICK n \in 0 .. Length[dirv] :
              /\ file[i] = FirstChunks(dirv, n)
              /\ n \in 1 .. Length[dirv] - 1 => BeingWritten(i, n)
        BY <1>1
      <4>2. /\ pc[t] = "writing" /\ pc' = pc /\ fd' = fd /\ listing = "xml" /\ listing' = listing
            /\ o < Length[dirv] /\ o \in Nat /\ off'[t] = o + 1
        BY <1>6, <2>4 DEF WriteXml, More, Types
      <4>3. file'[i] = Overwrite(file[i], o, <<Chunk(dirv, o + 1)>>)
        BY <1>6, <2>4, <3>2, <4>2 DEF WriteXml, Types
      <4>4. n \in Nat /\ o \in 0 .. n
        <5>1. Len(file[i]) = n  BY <1>1, <4>1, ListingChunks
        <5> QED  BY <1>1, <1>6, <3>2, <4>2, <5>1
      <4>5. file'[i] = FirstChunks(dirv, IF n = o THEN o + 1 ELSE n)
        BY <1>1, <4>1, <4>2, <4>3, <4>4, ChunkOverFirst
      <4>6. CASE n = o
        <5>1. PICK m \in 0 .. Length[dirv] : m = o + 1  BY <1>1, <4>2
        <5>2. pc'[t] = "writing" /\ fd'[t] = i /\ listing' = "xml" /\ off'[t] = m
          BY <3>2, <4>2, <5>1
        <5>3. BeingWritten(i, m)'  BY <5>2 DEF BeingWritten
        <5>4. file'[i] = FirstChunks(dirv, m)  BY <4>5, <4>6, <5>1
        <5> QED  BY <5>3, <5>4
      <4>7. CASE n # o
        <5>1. ASSUME n \in 1 .. Length[dirv] - 1
              PROVE  FALSE
          <6>1. PICK u \in Threads : pc[u] = "writing" /\ fd[u] = i /\ off[u] = n
            BY <4>1, <5>1 DEF BeingWritten
          <6>2. ex[i] = {u} /\ ex[i] = {t}
            BY <1>1, <3>2, <4>2, <6>1 DEF ThreadInv, HasLock, Writer
          <6> QED  BY <4>7, <6>1, <6>2
        <5> QED  BY <4>5, <4>7, <5>1
      <4> QED  BY <4>6, <4>7
    <3> QED  BY <3>1, <3>2
  <2>5. CASE ~OpenCreate(t) /\ pc[t] # "writing"
    <3>1. file' = file
      BY <1>0, <2>5
         DEF StepOf, Closing, Request, OpenRead, LockShared, ListDir, LockExclusive, StoreHtml,
             Unlink, WriteXml, XmlWritten, SendDirect
    <3> QED  BY <1>5, <2>5, <3>1
  <2> QED  BY <1>0, <2>1, <2>2, <2>3, <2>4, <2>5
<1> QED  BY <1>0, <1>2, <1>3, <1>7
-----------------------------------------------------------------------------
LEMMA InitInv == Init => CacheInv
<1> SUFFICES ASSUME Init
             PROVE  CacheInv
  OBVIOUS
<1>1. Types
  BY EmptySeq, ListingKinds DEF Init, Types, PCs
<1>2. \A t \in Threads : ThreadInv(t)
  BY DEF Init, ThreadInv, HasFile, HasLock, HasVersion, AtStart, WroteOwn, Writer
<1>3. Undisturbed
  <2>1. FirstChunks(dirv, 0) = <<>>  BY DEF FirstChunks
  <2>2. 0 \in 0 .. Length[dirv] /\ 0 \notin 1 .. Length[dirv] - 1
    BY <1>1, LengthPositive DEF Types
  <2> QED  BY <2>1, <2>2 DEF Init, Undisturbed
<1> QED  BY <1>1, <1>2, <1>3 DEF CacheInv

LEMMA NextInv == CacheInv /\ [Next]_vars => CacheInv'
<1> SUFFICES ASSUME CacheInv, [Next]_vars
             PROVE  CacheInv'
  OBVIOUS
<1>0. Types /\ (\A u \in Threads : ThreadInv(u)) /\ Undisturbed  BY DEF CacheInv
<1>1. ASSUME NEW t \in Threads, Step(t)
      PROVE  CacheInv'
  <2>1. StepOf(t)  BY <1>0, <1>1, StepCases
  <2>2. Types'  BY <1>0, <2>1, StepTypes
  <2>3. ThreadInv(t)'  BY <1>0, <2>1, <2>2, OwnInv
  <2>4. ASSUME NEW u \in Threads \ {t}
        PROVE  ThreadInv(u)'
    BY <1>0, <2>1, OtherThread, OtherInv
  <2>5. Undisturbed'  BY <1>0, <2>1, <2>2, StepUndisturbed
  <2> QED  BY <2>2, <2>3, <2>4, <2>5 DEF CacheInv
<1>2. CASE Change
  <2>1. Types'  BY <1>0, <1>2 DEF Change, fsvars, Types
  <2>2. \A u \in Threads : ThreadInv(u)'
    BY <1>0, <1>2
       DEF Change, fsvars, ThreadInv, HasFile, HasLock, HasVersion, AtStart, WroteOwn
  <2>3. changes' # 0  BY <1>0, <1>2 DEF Change, Types
  <2> QED  BY <2>1, <2>2, <2>3 DEF CacheInv, Undisturbed
<1>3. CASE Crash
  <2>1. Types'  BY <1>0, <1>3 DEF Crash, Fault, PCs, Types
  <2>2. \A u \in Threads : ThreadInv(u)'
    BY <1>3 DEF Crash, ThreadInv, HasFile, HasLock, HasVersion, AtStart, WroteOwn, Writer
  <2>3. faults' # 0  BY <1>0, <1>3 DEF Crash, Fault, Types
  <2> QED  BY <2>1, <2>2, <2>3 DEF CacheInv, Undisturbed
<1>4. CASE UNCHANGED vars
  <2>1. Types'  BY <1>0, <1>4 DEF vars, Types
  <2>2. \A u \in Threads : ThreadInv(u)'
    BY <1>0, <1>4
       DEF vars, ThreadInv, HasFile, HasLock, HasVersion, AtStart, WroteOwn
  <2>3. Undisturbed'  BY <1>0, <1>4 DEF vars, Undisturbed, BeingWritten
  <2> QED  BY <2>1, <2>2, <2>3 DEF CacheInv
<1> QED  BY <1>1, <1>2, <1>3, <1>4 DEF Next

LEMMA CacheInvariant == Spec => []CacheInv
  BY InitInv, NextInv, PTL DEF Spec

(* Every thread that uses a descriptor has one, and every chunk in a cache *)
(* file belongs to a listing the directory had, however writers are        *)
(* interrupted and whatever longer content they write over.                *)
THEOREM CacheTypeCorrect == Spec => []CacheTypeOK
<1>1. CacheInv => CacheTypeOK
  <2> SUFFICES ASSUME CacheInv
               PROVE  CacheTypeOK
    OBVIOUS
  <2>1. Types /\ \A t \in Threads : ThreadInv(t)  BY DEF CacheInv
  <2>2. ASSUME NEW i \in Inodes, NEW k \in DOMAIN file[i]
        PROVE  \E v \in Versions : \E n \in 1 .. Length[v] : file[i][k] = Chunk(v, n)
    <3>1. file[i] \in Seq(Chunks)  BY <2>1 DEF Types
    <3>2. file[i][k] \in Chunks  BY <3>1, LenProperties, ElementOfSeq
    <3> QED  BY <3>2 DEF Chunks, Chunk
  <2> QED  BY <2>1, <2>2 DEF CacheTypeOK, Types, ThreadInv, HasFile
<1> QED  BY <1>1, CacheInvariant, PTL

(* The file a reader has locked does not change while it is sent.          *)
THEOREM ServedStable == Spec => StableWhileServed
<1>1. ASSUME CacheInv, [Next]_vars
      PROVE  [\A t \in Threads : pc[t] = "serving" /\ pc'[t] = "serving" =>
                 file'[fd[t]] = file[fd[t]]]_vars
  <2> SUFFICES ASSUME Next, NEW u \in Threads, pc[u] = "serving", pc'[u] = "serving"
               PROVE  file'[fd[u]] = file[fd[u]]
    BY <1>1
  <2>0. Types /\ \A t \in Threads : ThreadInv(t)  BY <1>1 DEF CacheInv
  <2>1. ASSUME NEW t \in Threads, Step(t)
        PROVE  file'[fd[u]] = file[fd[u]]
    <3>1. StepOf(t)  BY <2>0, <2>1, StepCases
    <3>2. CASE u # t  BY <2>0, <3>1, <3>2, OtherThread DEF KeepsFile
    <3>3. CASE u = t
      <4>1. file' = file
        BY <2>0, <3>1, <3>3
           DEF StepOf, Closing, Request, OpenRead, LockShared, ListDir, OpenCreate,
               LockExclusive, StoreHtml, StoreHtmlShort, Unlink, WriteXml, WriteXmlFails,
               XmlWritten, SendDirect, fsvars
      <4> QED  BY <4>1
    <3> QED  BY <3>2, <3>3
  <2>2. CASE Change  BY <2>2 DEF Change, fsvars
  <2>3. CASE Crash  BY <2>3 DEF Crash
  <2> QED  BY <2>1, <2>2, <2>3 DEF Next
<1> QED  BY <1>1, CacheInvariant, PTL DEF Spec, StableWhileServed

(* Nobody sends a mixture of listings: a writer sends its own chunks in    *)
(* order, whatever failed and whoever opens the same path; and before the  *)
(* first fault or change a reader gets a whole listing or an empty file.   *)
THEOREM NeverTorn == Spec => []NothingTorn
<1>1. CacheInv => NothingTorn
  <2> SUFFICES ASSUME CacheInv
               PROVE  WriterSendsOwn /\ NeverPartOfListing
    BY DEF NothingTorn
  <2>0. Types /\ (\A t \in Threads : ThreadInv(t)) /\ Undisturbed  BY DEF CacheInv
  <2>1. WriterSendsOwn
    <3> SUFFICES ASSUME NEW t \in Threads, pc[t] = "send", NEW k \in 1 .. off[t]
                 PROVE  \E n \in k .. Length[ver[t]] :
                           /\ file[fd[t]][k] = Chunk(ver[t], n)
                           /\ k > 1 => file[fd[t]][k - 1][2] < n
      BY DEF WriterSendsOwn
    <3>1. /\ pos[t] <= Length[ver[t]] /\ ver[t] \in Versions /\ pos[t] \in Nat /\ off[t] \in Nat
          /\ \E n \in k .. pos[t] : /\ file[fd[t]][k] = Chunk(ver[t], n)
                                    /\ k > 1 => file[fd[t]][k - 1][2] < n
      BY <2>0 DEF ThreadInv, WroteOwn, HasVersion, Writer, Types
    <3>2. k .. pos[t] \subseteq k .. Length[ver[t]]  BY <3>1, LengthPositive
    <3> QED  BY <3>1, <3>2
  <2>2. NeverPartOfListing
    <3> SUFFICES ASSUME faults = 0, changes = 0, NEW t \in Threads, pc[t] = "serving"
                 PROVE  file[fd[t]] = <<>> \/ Whole(file[fd[t]])
      BY DEF NeverPartOfListing
    <3>1. fd[t] \in Inodes /\ t \in sh[fd[t]] /\ dirv \in Versions
      BY <2>0 DEF ThreadInv, HasFile, HasLock, Types
    <3>2. PICK n \in 0 .. Length[dirv] :
            /\ file[fd[t]] = FirstChunks(dirv, n)
            /\ n \in 1 .. Length[dirv] - 1 => BeingWritten(fd[t], n)
      BY <2>0, <3>1 DEF Undisturbed
    <3>3. Length[dirv] \in Nat \ {0}  BY <3>1, LengthPositive
    <3>4. ~BeingWritten(fd[t], n)
      BY <2>0, <3>1 DEF BeingWritten, ThreadInv, HasLock, Writer
    <3>5. n = 0 \/ n = Length[dirv]  BY <3>2, <3>3, <3>4
    <3>6. CASE n = 0
      <4>1. FirstChunks(dirv, 0) = <<>>  BY DEF FirstChunks
      <4> QED  BY <3>2, <3>6, <4>1
    <3>7. CASE n = Length[dirv]  BY <3>1, <3>2, <3>7, WholeIsFirst DEF Whole
    <3> QED  BY <3>5, <3>6, <3>7
  <2> QED  BY <2>1, <2>2
<1> QED  BY <1>1, CacheInvariant, PTL
=============================================================================

------------------------------ MODULE CacheDir ------------------------------
(***************************************************************************)
(* The cache of generated listings: cachedir.c with its two users, the     *)
(* HTML listing of write_dir (instance.c) and the XML listing of propfind  *)
(* (webdav.c).                                                             *)
(*                                                                         *)
(* One module instance is one cache key: prefix, inode, device and mtime   *)
(* in seconds of one directory.  What the listing shows may still change   *)
(* under the same key (a child grows, or two changes in one second), so    *)
(* the directory has a version; the listing of version v is Length[v]      *)
(* chunks.  A file of the cache is the sequence of chunks in it, which     *)
(* tells apart a whole listing, a piece of one, and a mixture of two.      *)
(*                                                                         *)
(* The file system is external: open and unlink act on the path, flock and *)
(* write on the inode that was opened, whatever the path names by then.    *)
(***************************************************************************)
EXTENDS Integers, Sequences, FiniteSets

CONSTANTS Threads,      \* worker threads asking for this listing
          Inodes,       \* identities of cache files
          Versions,     \* states of the directory under the same key
          Length,       \* Length[v]: chunks of the listing of v
          None,         \* no inode, no version
          Listings,     \* whose listing it is: "html" (write_dir), "xml" (propfind)
          MAXFAULTS,    \* bound: failed system calls and crashes
          MAXCHANGES    \* bound: changes of the directory

ASSUME ListingKinds == Listings \subseteq {"html", "xml"}
ASSUME LengthPositive == Length \in [Versions -> Nat \ {0}]
ASSUME BoundsNat == MAXFAULTS \in Nat /\ MAXCHANGES \in Nat
ASSUME NoneFresh == None \notin Inodes /\ None \notin Versions

VARIABLES listing,      \* the prefix of the key: which of the two users it has
          dirv,         \* version of the directory
          path,         \* inode the cache path names, or None
          file,         \* file[i]: chunks in inode i
          sh, ex,       \* threads with a shared / exclusive flock on inode i
          pc, fd,       \* where thread t is, the inode it has open
          ver, pos,     \* version thread t lists, chunks generated
          off,          \* file offset of thread t (SEEK_CUR)
          faults, changes

vars == <<listing, dirv, path, file, sh, ex, pc, fd, ver, pos, off, faults, changes>>
fsvars == <<path, file, sh, ex>>
envvars == <<listing, dirv, faults, changes>>

PCs == {"idle", "look", "locksh", "serving", "list", "store", "lockex", "writing",
        "unlink", "send", "close", "direct"}

(* After a miss write_dir makes its page first; propfind opens the file    *)
(* first and lists into it.                                                *)
Missed == IF listing = "html" THEN "list" ELSE "store"
NotStored == IF listing = "html" THEN "idle" ELSE "direct"

Chunk(v, k) == <<v, k>>
WholeListing(v) == [k \in 1 .. Length[v] |-> Chunk(v, k)]
Whole(s) == \E v \in Versions : s = WholeListing(v)

Init == /\ listing \in Listings
        /\ dirv \in Versions
        /\ path = None
        /\ file = [i \in Inodes |-> <<>>]
        /\ sh = [i \in Inodes |-> {}]
        /\ ex = [i \in Inodes |-> {}]
        /\ pc = [t \in Threads |-> "idle"]
        /\ fd = [t \in Threads |-> None]
        /\ ver = [t \in Threads |-> None]
        /\ pos = [t \in Threads |-> 0]
        /\ off = [t \in Threads |-> 0]
        /\ faults = 0 /\ changes = 0

Fault == faults < MAXFAULTS /\ faults' = faults + 1 /\ UNCHANGED <<listing, dirv, changes>>

Goto(t, p) == pc' = [pc EXCEPT ![t] = p]

(* close(fd) of a thread: its locks go with it; the request is over.       *)
Unlocked(locks, t) == [i \in Inodes |-> locks[i] \ {t}]

CloseTo(t, p) == /\ Goto(t, p)
                 /\ fd' = [fd EXCEPT ![t] = None]
                 /\ ver' = [ver EXCEPT ![t] = None]
                 /\ pos' = [pos EXCEPT ![t] = 0]
                 /\ off' = [off EXCEPT ![t] = 0]
                 /\ sh' = Unlocked(sh, t) /\ ex' = Unlocked(ex, t)
-----------------------------------------------------------------------------
(* A request for the listing arrives at thread t.                          *)
Request(t) == /\ pc[t] = "idle"
              /\ Goto(t, "look")
              /\ UNCHANGED <<fsvars, fd, ver, pos, off, envvars>>

(* cache_get_item_fd: open(fname, O_RDONLY), or a miss.                    *)
OpenRead(t) == /\ pc[t] = "look"
               /\ fd' = [fd EXCEPT ![t] = path]
               /\ Goto(t, IF path = None THEN Missed ELSE "locksh")
               /\ UNCHANGED <<fsvars, ver, pos, off, envvars>>

(* A reader that does not look at the lock of the writer.                  *)
LockSharedAnyway(t) == /\ pc[t] = "locksh"
                       /\ sh' = [sh EXCEPT ![fd[t]] = @ \cup {t}]
                       /\ Goto(t, "serving")
                       /\ UNCHANGED <<path, file, ex, fd, ver, pos, off, envvars>>

(* flock(fd, LOCK_SH | LOCK_NB) == 0.                                      *)
LockShared(t) == /\ pc[t] = "locksh"
                 /\ ex[fd[t]] = {}
                 /\ sh' = [sh EXCEPT ![fd[t]] = @ \cup {t}]
                 /\ Goto(t, "serving")
                 /\ UNCHANGED <<path, file, ex, fd, ver, pos, off, envvars>>

(* A miss that forgets to close the file it could not lock.                *)
LockSharedFailsOpen(t) == /\ pc[t] = "locksh"
                          /\ ex[fd[t]] # {}
                          /\ Goto(t, Missed)
                          /\ UNCHANGED <<fsvars, fd, ver, pos, off, envvars>>

(* The lock is taken by a writer: closed, and treated as a miss.           *)
LockSharedFails(t) == /\ pc[t] = "locksh"
                      /\ ex[fd[t]] # {}
                      /\ CloseTo(t, Missed)
                      /\ UNCHANGED <<path, file, envvars>>

(* The cached file is sent up to its size, and closed.                     *)
SendCached(t) == /\ pc[t] = "serving"
                 /\ CloseTo(t, "idle")
                 /\ UNCHANGED <<path, file, envvars>>

(* write_dir: list_dir makes the page, which is sent to the client.        *)
ListDir(t) == /\ pc[t] = "list"
              /\ ver' = [ver EXCEPT ![t] = dirv]
              /\ Goto(t, "store")
              /\ UNCHANGED <<fsvars, fd, pos, off, envvars>>

(* open(fname, O_CREAT) without O_TRUNC: the file at the path, or a new    *)
(* empty one.                                                              *)
FreeInodes == {i \in Inodes \ {path} : \A t \in Threads : fd[t] # i}

OpenCreate(t) ==
  /\ pc[t] = "store"
  /\ Goto(t, "lockex")
  /\ \/ /\ path # None
        /\ fd' = [fd EXCEPT ![t] = path]
        /\ UNCHANGED <<path, file>>
     \/ /\ path = None
        /\ \E i \in FreeInodes : /\ path' = i
                                 /\ fd' = [fd EXCEPT ![t] = i]
                                 /\ file' = [file EXCEPT ![i] = <<>>]
  /\ UNCHANGED <<sh, ex, ver, pos, off, envvars>>

(* The open fails: write_dir has sent its page already, propfind sends     *)
(* straight to the client.                                                 *)
OpenCreateFails(t) == /\ pc[t] = "store"
                      /\ Fault
                      /\ CloseTo(t, NotStored)
                      /\ UNCHANGED <<path, file>>

(* The version a writer writes: the page it has, or what it lists now.     *)
Listed(t) == IF listing = "html" THEN ver[t] ELSE dirv

(* flock(fd, LOCK_EX | LOCK_NB) == 0; propfind starts its listing here.    *)
LockExclusive(t) == /\ pc[t] = "lockex"
                    /\ sh[fd[t]] = {} /\ ex[fd[t]] = {}
                    /\ ex' = [ex EXCEPT ![fd[t]] = {t}]
                    /\ ver' = [ver EXCEPT ![t] = Listed(t)]
                    /\ Goto(t, "writing")
                    /\ UNCHANGED <<path, file, sh, fd, pos, off, envvars>>

LockExclusiveFails(t) == /\ pc[t] = "lockex"
                         /\ sh[fd[t]] \cup ex[fd[t]] # {}
                         /\ CloseTo(t, NotStored)
                         /\ UNCHANGED <<path, file, envvars>>

(* write(2) of the chunks new at offset o: longer old content stays behind *)
(* them.                                                                   *)
Overwrite(s, o, new) ==
  [k \in 1 .. (IF Len(s) > o + Len(new) THEN Len(s) ELSE o + Len(new)) |->
     IF k > o /\ k <= o + Len(new) THEN new[k - o] ELSE s[k]]

(* cache_store_item writes the page in one call.                           *)
StoreHtml(t) == /\ pc[t] = "writing" /\ listing = "html"
                /\ file' = [file EXCEPT ![fd[t]] = Overwrite(@, 0, WholeListing(ver[t]))]
                /\ Goto(t, "close")
                /\ UNCHANGED <<path, sh, ex, fd, ver, pos, off, envvars>>

(* ... or less than the page, and then removes what the path names.        *)
StoreHtmlShort(t) ==
  /\ pc[t] = "writing" /\ listing = "html"
  /\ Fault
  /\ \E n \in 0 .. Length[ver[t]] - 1 :
        file' = [file EXCEPT ![fd[t]] =
                   Overwrite(@, 0, SubSeq(WholeListing(ver[t]), 1, n))]
  /\ Goto(t, "unlink")
  /\ UNCHANGED <<path, sh, ex, fd, ver, pos, off>>

Unlink(t) == /\ pc[t] = "unlink"
             /\ path' = None
             /\ Goto(t, "close")
             /\ UNCHANGED <<file, sh, ex, fd, ver, pos, off, envvars>>

CloseWritten(t) == /\ pc[t] = "close"
                   /\ CloseTo(t, "idle")
                   /\ UNCHANGED <<path, file, envvars>>

(* propfind writes its XML piece by piece; a failed write goes unnoticed   *)
(* and the next piece takes its place in the file.                         *)
More(t) == pos[t] < Length[ver[t]]

WriteXml(t) == /\ pc[t] = "writing" /\ listing = "xml" /\ More(t)
               /\ file' = [file EXCEPT ![fd[t]] =
                             Overwrite(@, off[t], <<Chunk(ver[t], pos[t] + 1)>>)]
               /\ pos' = [pos EXCEPT ![t] = @ + 1]
               /\ off' = [off EXCEPT ![t] = @ + 1]
               /\ UNCHANGED <<path, sh, ex, pc, fd, ver, envvars>>

WriteXmlFails(t) == /\ pc[t] = "writing" /\ listing = "xml" /\ More(t)
                    /\ Fault
                    /\ pos' = [pos EXCEPT ![t] = @ + 1]
                    /\ UNCHANGED <<fsvars, pc, fd, ver, off>>

(* The directory cannot be opened: the file is closed as it is.            *)
OpendirFails(t) == /\ pc[t] = "writing" /\ listing = "xml" /\ pos[t] = 1 /\ More(t)
                   /\ Fault
                   /\ CloseTo(t, "idle")
                   /\ UNCHANGED <<path, file>>

XmlWritten(t) == /\ pc[t] = "writing" /\ listing = "xml" /\ ~More(t)
                 /\ Goto(t, "send")
                 /\ UNCHANGED <<fsvars, fd, ver, pos, off, envvars>>

(* The file is rewound and its first off[t] chunks go to the client.       *)
SendWritten(t) == /\ pc[t] = "send"
                  /\ CloseTo(t, "idle")
                  /\ UNCHANGED <<path, file, envvars>>

(* No cache file to write: the XML goes to the socket.                     *)
SendDirect(t) == /\ pc[t] = "direct"
                 /\ Goto(t, "idle")
                 /\ UNCHANGED <<fsvars, fd, ver, pos, off, envvars>>

(* Something the listing shows changes, the cache key does not.            *)
Change == /\ changes < MAXCHANGES
          /\ changes' = changes + 1
          /\ dirv' \in Versions \ {dirv}
          /\ UNCHANGED <<listing, fsvars, pc, fd, ver, pos, off, faults>>

(* The server ends and is started again; the cache directory stays.        *)
Crash == /\ Fault
         /\ pc' = [t \in Threads |-> "idle"]
         /\ fd' = [t \in Threads |-> None]
         /\ ver' = [t \in Threads |-> None]
         /\ pos' = [t \in Threads |-> 0]
         /\ off' = [t \in Threads |-> 0]
         /\ sh' = [i \in Inodes |-> {}] /\ ex' = [i \in Inodes |-> {}]
         /\ UNCHANGED <<path, file>>

Step(t) == \/ Request(t) \/ OpenRead(t) \/ LockShared(t) \/ LockSharedFails(t)
           \/ SendCached(t) \/ ListDir(t) \/ OpenCreate(t) \/ OpenCreateFails(t)
           \/ LockExclusive(t) \/ LockExclusiveFails(t)
           \/ StoreHtml(t) \/ StoreHtmlShort(t) \/ Unlink(t) \/ CloseWritten(t)
           \/ WriteXml(t) \/ WriteXmlFails(t) \/ OpendirFails(t) \/ XmlWritten(t)
           \/ SendWritten(t) \/ SendDirect(t)

Next == (\E t \in Threads : Step(t)) \/ Change \/ Crash

Spec == Init /\ [][Next]_vars
-----------------------------------------------------------------------------
(* Types; a thread at a place that uses its descriptor has one.            *)
CacheTypeOK ==
  /\ dirv \in Versions
  /\ path \in Inodes \cup {None}
  /\ \A i \in Inodes : \A k \in DOMAIN file[i] :
       \E v \in Versions : \E n \in 1 .. Length[v] : file[i][k] = Chunk(v, n)
  /\ sh \in [Inodes -> SUBSET Threads] /\ ex \in [Inodes -> SUBSET Threads]
  /\ pc \in [Threads -> PCs]
  /\ \A t \in Threads : fd[t] \in
       IF pc[t] \in {"idle", "look", "list", "store", "direct"} THEN {None} ELSE Inodes
  /\ \A t \in Threads : ver[t] \in Versions \cup {None}

(* Serving from the cache is stable: the file a reader has locked does not *)
(* change between fstat and the last read, whoever writes, fails to write, *)
(* unlinks or creates the path meanwhile.                                  *)
StableWhileServed ==
  [][\A t \in Threads : pc[t] = "serving" /\ pc'[t] = "serving" =>
        file'[fd[t]] = file[fd[t]]]_vars

(* What propfind sends back from the file is what it wrote: chunks of its  *)
(* own listing in order, although other threads open, lock and write the   *)
(* same path, and although some of its writes may have failed.             *)
WriterSendsOwn ==
  \A t \in Threads : pc[t] = "send" =>
     \A k \in 1 .. off[t] : \E n \in k .. Length[ver[t]] :
        /\ file[fd[t]][k] = Chunk(ver[t], n)
        /\ k > 1 => file[fd[t]][k - 1][2] < n

(* A reader never gets part of a listing that another thread is still      *)
(* writing into the cache file: "if the file is already opened in write    *)
(* mode the lock will fail".  It gets a whole listing, or an empty file:   *)
(* one locked between its creation and the lock of its writer, or one its  *)
(* writer gave up because that lock failed, which stays a hit.  A crash, a *)
(* failed write or a change of the directory within the second of its key  *)
(* can leave pieces in the cache for good, so the claim is about the time  *)
(* before the first of them.                                               *)
NeverPartOfListing ==
  faults = 0 /\ changes = 0 =>
     \A t \in Threads : pc[t] = "serving" =>
        file[fd[t]] = <<>> \/ Whole(file[fd[t]])

(* Both: nobody sends a mixture of listings, neither the thread that       *)
(* writes the cache file nor the ones that read it.                        *)
NothingTorn == WriterSendsOwn /\ NeverPartOfListing
=============================================================================

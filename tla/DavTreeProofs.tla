--------------------------- MODULE DavTreeProofs ----------------------------
(***************************************************************************)
(* The methods that change files keep the tree a tree, a MOVE loses no     *)
(* file, and an answer of success means the request was carried out,       *)
(* whatever the tree, the failures and the moment of a crash.              *)
(***************************************************************************)
EXTENDS DavTree, SequenceTheorems, TLAPS

(* The place that path q below S gets below D.                             *)
At(q) == Rebase(q, S, D)

PCs == {"start", "dir", "file", "mkdir", "opendir", "loop", "filecopy", "copy",
        "unlink", "return", "remove", "put", "answer", "crashed"}
Results == {0, -1, 1, 2, -2, -3, -6, -9, -12, -13, -14}
Frame == [src : Under(S), dst : Under(D), todo : SUBSET Paths]
Transfer == op.method \in {"COPY", "MOVE"}

Types ==
  /\ tree \in [Paths -> Nodes] /\ orig \in [Paths -> Nodes]
  /\ op.method \in {"COPY", "MOVE", "DELETE", "MKCOL", "PUT"}
  /\ op.body \in Seq(Blocks)
  /\ pc \in PCs /\ retval \in Results /\ kept \subseteq Under(S)
  /\ stack \in Seq(Frame)
  /\ cp \in [src : Under(S), dst : Under(D), pos : Nat]

(* Where a handler is says which request it carries out and what it has    *)
(* done so far.                                                            *)
Control ==
  /\ pc \in {"dir", "file", "mkdir", "opendir", "loop", "filecopy", "copy",
             "unlink", "return"} => Transfer
  /\ pc \in {"start", "dir", "file"} => tree = orig /\ stack = <<>>
  /\ pc \in {"remove", "put"} => ~Transfer
  /\ ~Transfer => stack = <<>>
  /\ pc = "start" => cp = NoCopy
  /\ pc = "dir" => tree[S].kind # "file"
  /\ pc = "file" => tree[S].kind # "dir"
  /\ pc \in {"mkdir", "opendir", "loop"} => stack # <<>>
  /\ pc = "unlink" => op.method = "MOVE"
  /\ pc = "put" => tree[S].kind = "file" /\ cp.pos <= Len(tree[S].data)

(* The directory in which At(q) is going to be exists.                     *)
Grounded(q) == q = S \/ \E p \in Under(S) : /\ q \in Children(p)
                                            /\ tree[At(p)].kind = "dir"

(* The frames of dir_move_copy copy directories of the source to existing  *)
(* directories of the destination.                                         *)
Frames ==
  \A k \in 1 .. Len(stack) :
    /\ stack[k].dst = At(stack[k].src)
    /\ orig[stack[k].src].kind # "file"
    /\ stack[k].todo \subseteq Children(stack[k].src)
    /\ pc = "mkdir" /\ k = Len(stack) => Grounded(stack[k].src)
    /\ pc # "crashed" /\ (pc # "mkdir" \/ k # Len(stack)) =>
         tree[stack[k].dst].kind = "dir"

(* The file being copied, and how far it is.                               *)
Copying ==
  /\ cp.dst = At(cp.src)
  /\ pc \in {"filecopy", "copy", "unlink"} =>
       Grounded(cp.src) /\ tree[cp.src].kind # "dir"
  /\ pc = "filecopy" => cp.pos = 0
  /\ pc \in {"copy", "unlink"} =>
       tree[cp.src].kind = "file" /\ tree[cp.dst].kind = "file"
  /\ pc = "copy" =>
       /\ cp.pos <= Len(Source) /\ cp.pos <= Len(tree[cp.dst].data)
       /\ \A i \in 1 .. cp.pos : tree[cp.dst].data[i] = Source[i]
  /\ pc = "unlink" /\ ~ReadErrorIgnored => Begins(tree[cp.dst].data, Source)

(* COPY and MOVE never write to the source: a path below it is as it was,  *)
(* or gone.                                                                *)
SourceShrinks == Transfer => \A q \in Under(S) : tree[q] \in {orig[q], Absent}

DavInv == /\ Types /\ Control /\ Shape(tree) /\ Shape(orig) /\ Frames /\ Copying
          /\ SourceShrinks /\ NothingLost
-----------------------------------------------------------------------------
Name == STRING

(* Paths, element by element.                                              *)
LEMMA PathSeq ==
  /\ S \in Paths /\ D \in Paths
  /\ \A q \in Paths : q \in Seq(Name) /\ Len(q) \in Nat
<1>1. S \in Paths /\ D \in Paths  BY PathsClosed
<1>2. \A q \in Paths : q \in Seq(Name)  BY PathsApart DEF Name
<1> QED  BY <1>1, <1>2, LenProperties

LEMMA UnderMeans ==
  ASSUME NEW p \in Paths, NEW q \in Paths
  PROVE  q \in Under(p) <=> Len(q) >= Len(p) /\ \A i \in 1 .. Len(p) : q[i] = p[i]
<1>1. p \in Seq(Name) /\ q \in Seq(Name) /\ Len(p) \in Nat /\ Len(q) \in Nat
  BY PathSeq
<1>2. CASE Len(q) >= Len(p)
  <2>1. /\ SubSeq(q, 1, Len(p)) \in Seq(Name)
        /\ Len(SubSeq(q, 1, Len(p))) = Len(p)
        /\ \A i \in 1 .. Len(p) : SubSeq(q, 1, Len(p))[i] = q[i]
    BY <1>1, <1>2
  <2>2. SubSeq(q, 1, Len(p)) = p <=> \A i \in 1 .. Len(p) : q[i] = p[i]
    <3>1. ASSUME \A i \in 1 .. Len(p) : q[i] = p[i] PROVE SubSeq(q, 1, Len(p)) = p
      BY <1>1, <2>1, <3>1, SeqEqual
    <3> QED  BY <2>1, <3>1
  <2> QED  BY <1>2, <2>2 DEF Under
<1> QED  BY <1>2 DEF Under

LEMMA RebaseMeans ==
  ASSUME NEW q \in Seq(Name), NEW s \in Seq(Name), NEW d \in Seq(Name),
         Len(q) >= Len(s)
  PROVE  /\ Rebase(q, s, d) \in Seq(Name)
         /\ Len(Rebase(q, s, d)) = Len(d) + Len(q) - Len(s)
         /\ \A i \in 1 .. Len(d) : Rebase(q, s, d)[i] = d[i]
         /\ \A i \in Len(d) + 1 .. Len(d) + Len(q) - Len(s) :
              Rebase(q, s, d)[i] = q[i - Len(d) + Len(s)]
<1> DEFINE t == SubSeq(q, Len(s) + 1, Len(q))
<1>1. Len(q) \in Nat /\ Len(s) \in Nat /\ Len(d) \in Nat  BY LenProperties
<1>2. /\ t \in Seq(Name) /\ Len(t) = Len(q) - Len(s)
      /\ \A i \in 1 .. Len(q) - Len(s) : t[i] = q[Len(s) + i]
  BY <1>1
<1>3. Rebase(q, s, d) = d \o t  BY DEF Rebase
<1> HIDE DEF t
<1>4. /\ d \o t \in Seq(Name) /\ Len(d \o t) = Len(d) + Len(t)
      /\ \A i \in 1 .. Len(d) + Len(t) :
           (d \o t)[i] = IF i <= Len(d) THEN d[i] ELSE t[i - Len(d)]
  BY <1>2, ConcatProperties
<1>5. \A i \in Len(d) + 1 .. Len(d) + Len(q) - Len(s) :
        /\ i - Len(d) \in 1 .. Len(q) - Len(s) /\ ~(i <= Len(d))
        /\ i \in 1 .. Len(d) + Len(t) /\ Len(s) + (i - Len(d)) = i - Len(d) + Len(s)
  BY <1>1, <1>2
<1>6. \A i \in 1 .. Len(d) : i \in 1 .. Len(d) + Len(t) /\ i <= Len(d)
  BY <1>1, <1>2
<1> QED  BY <1>1, <1>2, <1>3, <1>4, <1>5, <1>6

(* Being below is an order, and the paths above a path form a chain.       *)
LEMMA UnderOrder ==
  ASSUME NEW p \in Paths, NEW q \in Paths, NEW r \in Paths
  PROVE  /\ p \in Under(p)
         /\ q \in Under(p) /\ r \in Under(q) => r \in Under(p)
         /\ q \in Under(p) /\ p \in Under(q) => p = q
         /\ r \in Under(p) /\ r \in Under(q) /\ Len(p) <= Len(q) => q \in Under(p)
<1>1. /\ p \in Seq(Name) /\ q \in Seq(Name) /\ r \in Seq(Name)
      /\ Len(p) \in Nat /\ Len(q) \in Nat /\ Len(r) \in Nat
  BY PathSeq
<1>2. p \in Under(p)  BY <1>1, UnderMeans
<1>3. q \in Under(p) /\ r \in Under(q) => r \in Under(p)  BY <1>1, UnderMeans
<1>4. ASSUME q \in Under(p), p \in Under(q) PROVE p = q
  <2>1. Len(p) = Len(q) /\ \A i \in 1 .. Len(p) : q[i] = p[i]
    BY <1>1, <1>4, UnderMeans
  <2> QED  BY <1>1, <2>1, SeqEqual
<1>5. r \in Under(p) /\ r \in Under(q) /\ Len(p) <= Len(q) => q \in Under(p)
  BY <1>1, UnderMeans
<1> QED  BY <1>2, <1>3, <1>4, <1>5

LEMMA UnderLen ==
  ASSUME NEW p \in Paths, NEW q \in Under(p)
  PROVE  q \in Paths /\ Len(q) >= Len(p) /\ (Len(q) = Len(p) => q = p)
<1>1. q \in Paths /\ Len(q) >= Len(p)  BY DEF Under
<1>2. Len(q) = Len(p) => p \in Under(q)  BY <1>1, PathSeq, UnderMeans
<1> QED  BY <1>1, <1>2, UnderOrder

LEMMA ChildMeans ==
  ASSUME NEW p \in Paths, NEW q \in Children(p)
  PROVE  /\ q \in Paths /\ q \in Under(p) /\ q # p /\ Len(q) = Len(p) + 1
         /\ \A r \in Paths : q \in Under(r) /\ r # q => p \in Under(r)
<1>1. q \in Paths /\ q \in Under(p) /\ Len(q) = Len(p) + 1  BY DEF Children, Under
<1>2. Len(p) \in Nat /\ Len(q) \in Nat  BY <1>1, PathSeq
<1>3. ASSUME NEW r \in Paths, q \in Under(r), r # q PROVE p \in Under(r)
  <2>1. Len(r) \in Nat /\ Len(r) <= Len(p)  BY <1>1, <1>2, <1>3, PathSeq, UnderLen
  <2> QED  BY <1>1, <1>3, <2>1, UnderOrder
<1> QED  BY <1>1, <1>2, <1>3

(* On the way from p down to q there is an entry of p.                     *)
LEMMA EntryToward ==
  ASSUME NEW p \in Under(S), NEW q \in Under(p), q # p
  PROVE  \E c \in Children(p) : q \in Under(c)
<1>1. p \in Paths /\ q \in Paths /\ q \in Under(S)
  BY PathSeq, UnderLen, UnderOrder
<1>2. /\ Len(p) \in Nat /\ Len(q) \in Nat /\ Len(S) \in Nat /\ q \in Seq(Name)
      /\ Len(p) >= Len(S) /\ Len(q) > Len(p)
  BY <1>1, PathSeq, UnderLen
<1> DEFINE c == SubSeq(q, 1, Len(p) + 1)
<1>3. c \in Paths  BY <1>1, <1>2, PathsApart
<1>4. Len(c) = Len(p) + 1 /\ \A i \in 1 .. Len(p) + 1 : c[i] = q[i]
  BY <1>2
<1> HIDE DEF c
<1>5. \A i \in 1 .. Len(p) : q[i] = p[i]  BY <1>1, UnderMeans
<1>6. \A i \in 1 .. Len(p) : c[i] = p[i]  BY <1>2, <1>4, <1>5
<1>7. c \in Under(p)  BY <1>1, <1>2, <1>3, <1>4, <1>6, UnderMeans
<1>8. q \in Under(c)  BY <1>1, <1>2, <1>3, <1>4, UnderMeans
<1> QED  BY <1>4, <1>7, <1>8 DEF Children

(* At is one to one between what is below S and what is below D.           *)
LEMMA RebaseBack ==
  ASSUME NEW s \in Paths, NEW d \in Paths, NEW q \in Under(s)
  PROVE  Rebase(Rebase(q, s, d), d, s) = q
<1> DEFINE r == Rebase(q, s, d)
<1>1. /\ q \in Paths /\ q \in Seq(Name) /\ s \in Seq(Name) /\ d \in Seq(Name)
      /\ Len(q) \in Nat /\ Len(s) \in Nat /\ Len(d) \in Nat /\ Len(q) >= Len(s)
  BY PathSeq, UnderLen
<1>2. /\ r \in Seq(Name) /\ Len(r) = Len(d) + Len(q) - Len(s)
      /\ \A i \in Len(d) + 1 .. Len(d) + Len(q) - Len(s) :
           r[i] = q[i - Len(d) + Len(s)]
  BY <1>1, RebaseMeans
<1> HIDE DEF r
<1>3. Len(r) >= Len(d)  BY <1>1, <1>2
<1>4. /\ Rebase(r, d, s) \in Seq(Name)
      /\ Len(Rebase(r, d, s)) = Len(s) + Len(r) - Len(d)
      /\ \A i \in 1 .. Len(s) : Rebase(r, d, s)[i] = s[i]
      /\ \A i \in Len(s) + 1 .. Len(s) + Len(r) - Len(d) :
           Rebase(r, d, s)[i] = r[i - Len(s) + Len(d)]
  <2>1. r \in Seq(Name)  BY <1>2
  <2> QED  BY <1>1, <1>3, <2>1, RebaseMeans
<1>5. \A i \in 1 .. Len(s) : q[i] = s[i]  BY <1>1, UnderMeans
<1>6. Len(Rebase(r, d, s)) = Len(q)  BY <1>1, <1>2, <1>4
<1>7. ASSUME NEW i \in 1 .. Len(q) PROVE Rebase(r, d, s)[i] = q[i]
  <2>1. CASE i <= Len(s)  BY <1>1, <1>4, <1>5, <2>1
  <2>2. CASE i > Len(s)
    <3>1. /\ i \in Len(s) + 1 .. Len(s) + Len(r) - Len(d)
          /\ i - Len(s) + Len(d) \in Len(d) + 1 .. Len(d) + Len(q) - Len(s)
          /\ (i - Len(s) + Len(d)) - Len(d) + Len(s) = i
      BY <1>1, <1>2, <2>2
    <3> QED  BY <1>2, <1>4, <3>1
  <2> QED  BY <1>1, <2>1, <2>2
<1> QED  BY <1>1, <1>4, <1>6, <1>7, SeqEqual DEF r

LEMMA RebaseUnder ==
  ASSUME NEW s \in Paths, NEW d \in Paths, NEW q \in Under(s), Rebase(q, s, d) \in Paths
  PROVE  Rebase(q, s, d) \in Under(d)
<1>1. /\ q \in Seq(Name) /\ s \in Seq(Name) /\ d \in Seq(Name)
      /\ Len(q) \in Nat /\ Len(s) \in Nat /\ Len(d) \in Nat /\ Len(q) >= Len(s)
  BY PathSeq, UnderLen
<1>a. /\ Len(Rebase(q, s, d)) = Len(d) + Len(q) - Len(s)
      /\ \A i \in 1 .. Len(d) : Rebase(q, s, d)[i] = d[i]
  BY <1>1, RebaseMeans
<1>2. Len(Rebase(q, s, d)) >= Len(d) /\ \A i \in 1 .. Len(d) : Rebase(q, s, d)[i] = d[i]
  BY <1>1, <1>a
<1> QED  BY <1>2, UnderMeans

LEMMA AtMeans ==
  ASSUME NEW q \in Under(S)
  PROVE  /\ q \in Paths /\ At(q) \in Paths /\ At(q) \in Under(D)
         /\ At(q) \notin Under(S) /\ q \notin Under(D)
         /\ Rebase(At(q), D, S) = q
         /\ \A r \in Under(S) : At(r) = At(q) => r = q
<1>1. q \in Paths /\ At(q) \in Paths  BY PathSeq, UnderLen, PathsClosed DEF At
<1>2. At(q) \in Under(D)  BY <1>1, PathSeq, RebaseUnder DEF At
<1>3. \A r \in Under(S) : Rebase(At(r), D, S) = r  BY PathSeq, RebaseBack DEF At
<1> QED  BY <1>1, <1>2, <1>3, PathsApart

LEMMA AtOnto ==
  ASSUME NEW d \in Under(D)
  PROVE  Rebase(d, D, S) \in Under(S) /\ At(Rebase(d, D, S)) = d
<1>1. d \in Paths /\ Rebase(d, D, S) \in Paths  BY PathSeq, UnderLen, PathsClosed
<1> QED  BY <1>1, PathSeq, RebaseUnder, RebaseBack DEF At

LEMMA AtRoot == At(S) = D /\ S \in Under(S) /\ D \in Under(D)
<1>1. S \in Seq(Name) /\ D \in Seq(Name) /\ Len(S) \in Nat /\ Len(D) \in Nat
  BY PathSeq
<1>a. Len(S) >= Len(S)  BY <1>1
<1>b. /\ At(S) \in Seq(Name) /\ Len(At(S)) = Len(D) + Len(S) - Len(S)
      /\ \A i \in 1 .. Len(D) : At(S)[i] = D[i]
  BY <1>1, <1>a, RebaseMeans DEF At
<1>2. /\ At(S) \in Seq(Name) /\ Len(At(S)) = Len(D)
      /\ \A i \in 1 .. Len(D) : At(S)[i] = D[i]
  BY <1>1, <1>b
<1>3. At(S) = D  BY <1>1, <1>2, SeqEqual
<1> QED  BY <1>3, PathSeq, UnderOrder

LEMMA AtElements ==
  ASSUME NEW q \in Under(S)
  PROVE  /\ Len(At(q)) = Len(D) + Len(q) - Len(S)
         /\ \A i \in 1 .. Len(D) : At(q)[i] = D[i]
         /\ \A i \in Len(D) + 1 .. Len(D) + Len(q) - Len(S) :
              At(q)[i] = q[i - Len(D) + Len(S)]
<1>1. q \in Seq(Name) /\ S \in Seq(Name) /\ D \in Seq(Name) /\ Len(q) >= Len(S)
  BY PathSeq, UnderLen
<1>2. /\ Len(Rebase(q, S, D)) = Len(D) + Len(q) - Len(S)
      /\ \A i \in 1 .. Len(D) : Rebase(q, S, D)[i] = D[i]
      /\ \A i \in Len(D) + 1 .. Len(D) + Len(q) - Len(S) :
           Rebase(q, S, D)[i] = q[i - Len(D) + Len(S)]
  BY <1>1, RebaseMeans
<1> QED  BY <1>2, Zenon DEF At

(* At keeps the order, and rebasing from a directory below S to its place  *)
(* below D is At.                                                          *)
LEMMA AtNested ==
  ASSUME NEW s \in Under(S), NEW q \in Under(S)
  PROVE  /\ q \in Under(s) <=> At(q) \in Under(At(s))
         /\ q \in Children(s) => At(q) \in Children(At(s))
         /\ q \in Under(s) => Rebase(q, s, At(s)) = At(q)
         /\ q \in Under(s) => Rebase(At(q), At(s), s) = q
<1>1. s \in Paths /\ q \in Paths /\ At(s) \in Paths /\ At(q) \in Paths
  BY AtMeans
<1>2. /\ q \in Seq(Name) /\ s \in Seq(Name) /\ S \in Seq(Name)
      /\ D \in Seq(Name) /\ At(s) \in Seq(Name) /\ At(q) \in Seq(Name)
      /\ Len(q) \in Nat /\ Len(s) \in Nat /\ Len(S) \in Nat /\ Len(D) \in Nat
      /\ Len(q) >= Len(S) /\ Len(s) >= Len(S)
  BY <1>1, PathSeq, UnderLen
<1>a. /\ Len(At(s)) = Len(D) + Len(s) - Len(S)
      /\ \A i \in 1 .. Len(D) : At(s)[i] = D[i]
      /\ \A i \in Len(D) + 1 .. Len(D) + Len(s) - Len(S) :
           At(s)[i] = s[i - Len(D) + Len(S)]
  BY AtElements
<1>b. /\ Len(At(q)) = Len(D) + Len(q) - Len(S)
      /\ \A i \in 1 .. Len(D) : At(q)[i] = D[i]
      /\ \A i \in Len(D) + 1 .. Len(D) + Len(q) - Len(S) :
           At(q)[i] = q[i - Len(D) + Len(S)]
  BY AtElements
<1>3. /\ Len(At(s)) = Len(D) + Len(s) - Len(S) /\ Len(At(q)) = Len(D) + Len(q) - Len(S)
      /\ \A i \in 1 .. Len(D) : At(s)[i] = D[i] /\ At(q)[i] = D[i]
      /\ \A i \in Len(D) + 1 .. Len(D) + Len(s) - Len(S) :
           At(s)[i] = s[i - Len(D) + Len(S)]
      /\ \A i \in Len(D) + 1 .. Len(D) + Len(q) - Len(S) :
           At(q)[i] = q[i - Len(D) + Len(S)]
  BY <1>a, <1>b
<1>4. \A i \in 1 .. Len(S) : q[i] = S[i] /\ s[i] = S[i]
  BY <1>1, PathSeq, UnderMeans
<1>5. ASSUME q \in Under(s) PROVE At(q) \in Under(At(s))
  <2>1. Len(q) >= Len(s) /\ \A i \in 1 .. Len(s) : q[i] = s[i]
    BY <1>1, <1>5, UnderMeans
  <2>2. ASSUME NEW i \in 1 .. Len(At(s)) PROVE At(q)[i] = At(s)[i]
    <3>1. CASE i <= Len(D)  BY <1>2, <1>3, <3>1
    <3>2. CASE i > Len(D)
      <4>1. /\ i \in Len(D) + 1 .. Len(D) + Len(s) - Len(S)
            /\ i \in Len(D) + 1 .. Len(D) + Len(q) - Len(S)
            /\ i - Len(D) + Len(S) \in 1 .. Len(s)
        BY <1>2, <1>3, <2>1, <3>2
      <4> QED  BY <1>3, <2>1, <4>1
    <3> QED  BY <1>2, <1>3, <3>1, <3>2
  <2>3. Len(At(q)) >= Len(At(s))  BY <1>2, <1>3, <2>1
  <2> QED  BY <1>1, <2>2, <2>3, UnderMeans
<1>6. ASSUME At(q) \in Under(At(s)) PROVE q \in Under(s)
  <2>1. Len(At(q)) >= Len(At(s)) /\ \A i \in 1 .. Len(At(s)) : At(q)[i] = At(s)[i]
    BY <1>1, <1>6, UnderMeans
  <2>2. Len(q) >= Len(s)  BY <1>2, <1>3, <2>1
  <2>3. ASSUME NEW i \in 1 .. Len(s) PROVE q[i] = s[i]
    <3>1. CASE i <= Len(S)  BY <1>2, <1>4, <3>1
    <3>2. CASE i > Len(S)
      <4>1. /\ i + Len(D) - Len(S) \in Len(D) + 1 .. Len(D) + Len(s) - Len(S)
            /\ i + Len(D) - Len(S) \in Len(D) + 1 .. Len(D) + Len(q) - Len(S)
            /\ i + Len(D) - Len(S) \in 1 .. Len(At(s))
            /\ (i + Len(D) - Len(S)) - Len(D) + Len(S) = i
        BY <1>2, <1>3, <2>2, <3>2
      <4> QED  BY <1>3, <2>1, <4>1
    <3> QED  BY <1>2, <3>1, <3>2
  <2> QED  BY <1>1, <2>2, <2>3, UnderMeans
<1>7. q \in Children(s) => At(q) \in Children(At(s))
  <2>1. Len(q) = Len(s) + 1 => Len(At(q)) = Len(At(s)) + 1  BY <1>2, <1>a, <1>b
  <2> QED  BY <1>5, <2>1 DEF Children
<1>8. ASSUME q \in Under(s) PROVE Rebase(q, s, At(s)) = At(q)
  <2>1. Len(q) >= Len(s) /\ \A i \in 1 .. Len(s) : q[i] = s[i]
    BY <1>1, <1>8, UnderMeans
  <2>2. /\ Rebase(q, s, At(s)) \in Seq(Name)
        /\ Len(Rebase(q, s, At(s))) = Len(At(s)) + Len(q) - Len(s)
        /\ \A i \in 1 .. Len(At(s)) : Rebase(q, s, At(s))[i] = At(s)[i]
        /\ \A i \in Len(At(s)) + 1 .. Len(At(s)) + Len(q) - Len(s) :
             Rebase(q, s, At(s))[i] = q[i - Len(At(s)) + Len(s)]
    <3>1. q \in Seq(Name) /\ s \in Seq(Name) /\ At(s) \in Seq(Name)  BY <1>2
    <3>2. Len(q) >= Len(s)  BY <2>1
    <3> QED  BY <3>1, <3>2, RebaseMeans
  <2>3. Len(Rebase(q, s, At(s))) = Len(At(q))  BY <1>2, <1>3, <2>2
  <2>4. \A i \in 1 .. Len(At(s)) : At(q)[i] = At(s)[i]
    BY <1>1, <1>5, <1>8, UnderMeans
  <2>5. ASSUME NEW i \in 1 .. Len(At(q)) PROVE Rebase(q, s, At(s))[i] = At(q)[i]
    <3>1. CASE i <= Len(At(s))  BY <1>2, <1>3, <2>2, <2>4, <3>1
    <3>2. CASE i > Len(At(s))
      <4>1. /\ i \in Len(At(s)) + 1 .. Len(At(s)) + Len(q) - Len(s)
            /\ i \in Len(D) + 1 .. Len(D) + Len(q) - Len(S)
            /\ i - Len(At(s)) + Len(s) = i - Len(D) + Len(S)
        BY <1>2, <1>3, <2>1, <3>2
      <4> QED  BY <1>3, <2>2, <4>1
    <3> QED  BY <1>2, <1>3, <3>1, <3>2
  <2> QED  BY <1>2, <2>2, <2>3, <2>5, SeqEqual
<1>9. q \in Under(s) => Rebase(At(q), At(s), s) = q
  BY <1>1, <1>8, RebaseBack
<1> QED  BY <1>5, <1>6, <1>7, <1>8, <1>9
-----------------------------------------------------------------------------
(* Nodes and their blocks.                                                 *)
LEMMA NodeMeans ==
  /\ Absent \in Nodes /\ Dir \in Nodes /\ Absent.kind = "absent" /\ Dir.kind = "dir"
  /\ Absent.data = <<>> /\ Dir.data = <<>>
  /\ \A b \in Seq(Blocks) : File(b) \in Nodes /\ File(b).kind = "file" /\ File(b).data = b
  /\ \A n \in Nodes : /\ n.kind \in {"absent", "dir", "file"}
                      /\ n.data \in Seq(Blocks)
                      /\ n.kind = "absent" => n = Absent
                      /\ n.kind # "file" => n.data = <<>>
<1>1. /\ Absent \in Nodes /\ Dir \in Nodes /\ Absent.kind = "absent" /\ Dir.kind = "dir"
      /\ Absent.data = <<>> /\ Dir.data = <<>>
  BY DEF Nodes, Absent, Dir
<1>2. \A b \in Seq(Blocks) : File(b) \in Nodes /\ File(b).kind = "file" /\ File(b).data = b
  BY DEF Nodes, File
<1>3. ASSUME NEW n \in Nodes
      PROVE  /\ n.kind \in {"absent", "dir", "file"} /\ n.data \in Seq(Blocks)
             /\ n.kind = "absent" => n = Absent
             /\ n.kind # "file" => n.data = <<>>
  <2>1. <<>> \in Seq(Blocks)  BY EmptySeq
  <2>2. CASE n \in {Absent, Dir}  BY <1>1, <2>1, <2>2
  <2>3. CASE n \in [kind : {"file"}, data : Seq(Blocks)]  BY <2>3
  <2> QED  BY <2>2, <2>3 DEF Nodes
<1> QED  BY <1>1, <1>2, <1>3

LEMMA BeginsSelf ==
  ASSUME NEW b \in Seq(Blocks)
  PROVE  Begins(b, b)
<1>1. Len(b) \in Nat /\ SubSeq(b, 1, Len(b)) = b  BY LenProperties, SubSeqFull
<1> QED  BY <1>1 DEF Begins

LEMMA BeginsMeans ==
  ASSUME NEW b \in Seq(Blocks), NEW c \in Seq(Blocks), Len(c) <= Len(b),
         \A i \in 1 .. Len(c) : b[i] = c[i]
  PROVE  Begins(b, c)
<1>1. Len(b) \in Nat /\ Len(c) \in Nat  BY LenProperties
<1>2. /\ SubSeq(b, 1, Len(c)) \in Seq(Blocks) /\ Len(SubSeq(b, 1, Len(c))) = Len(c)
      /\ \A i \in 1 .. Len(c) : SubSeq(b, 1, Len(c))[i] = b[i]
  BY <1>1
<1>3. SubSeq(b, 1, Len(c)) = c  BY <1>1, <1>2, SeqEqual
<1> QED  BY <1>3 DEF Begins

(* A write inside a file or just behind it leaves no hole.                 *)
LEMMA WrittenMeans ==
  ASSUME NEW b \in Seq(Blocks), NEW k \in Nat, k < Len(b) + 1, NEW x \in Blocks
  PROVE  /\ Written(b, k + 1, x) \in Seq(Blocks)
         /\ k + 1 <= Len(Written(b, k + 1, x))
         /\ Written(b, k + 1, x)[k + 1] = x
         /\ \A i \in 1 .. k : Written(b, k + 1, x)[i] = b[i]
<1> DEFINE n == IF Len(b) > k + 1 THEN Len(b) ELSE k + 1
           w == [i \in 1 .. n |-> IF i = k + 1 THEN x ELSE b[i]]
<1>1. Len(b) \in Nat  BY LenProperties
<1>2. n \in Nat /\ k + 1 <= n /\ k + 1 \in 1 .. n  BY <1>1
<1>3. \A i \in 1 .. n : i # k + 1 => i \in 1 .. Len(b)  BY <1>1
<1>4. \A i \in 1 .. n : (IF i = k + 1 THEN x ELSE b[i]) \in Blocks
  BY <1>3, ElementOfSeq
<1>5. \A i \in 1 .. k : i \in 1 .. n /\ i # k + 1  BY <1>1, <1>2
<1>6. Written(b, k + 1, x) = w  BY DEF Written
<1> HIDE DEF n
<1>7. w \in Seq(Blocks) /\ Len(w) = n  BY <1>2, <1>4
<1>8. w[k + 1] = x /\ \A i \in 1 .. k : w[i] = b[i]  BY <1>2, <1>5
<1> QED  BY <1>2, <1>6, <1>7, <1>8

(* ftruncate to n blocks.                                                  *)
LEMMA SizedMeans ==
  ASSUME NEW b \in Seq(Blocks), NEW n \in Nat
  PROVE  Sized(b, n) \in Seq(Blocks)
<1>1. Len(b) \in Nat  BY LenProperties
<1>2. \A i \in 1 .. n : (IF i <= Len(b) THEN b[i] ELSE "zero") \in Blocks
  BY <1>1, ElementOfSeq, HolesAreBlocks
<1> QED  BY <1>2 DEF Sized
-----------------------------------------------------------------------------
(* The shape of the tree.                                                  *)
LEMMA ShapeAdds ==
  ASSUME NEW t \in [Paths -> Nodes], Shape(t), NEW p \in Paths, NEW n \in Nodes,
         n.kind = "dir" \/ t[p].kind # "dir",
         \A r \in Paths : p \in Under(r) /\ r # p => t[r].kind = "dir"
  PROVE  Shape([t EXCEPT ![p] = n])
<1> DEFINE u == [t EXCEPT ![p] = n]
<1> SUFFICES ASSUME NEW r \in Paths, NEW q \in Under(r) \ {r}, u[q].kind # "absent"
             PROVE  u[r].kind = "dir"
  BY DEF Shape
<1>1. q \in Paths  BY UnderLen
<1>2. CASE q = p  BY <1>2
<1>3. CASE q # p
  <2>1. t[r].kind = "dir"  BY <1>1, <1>3 DEF Shape
  <2> QED  BY <2>1
<1> QED  BY <1>2, <1>3

LEMMA ShapeRemoves ==
  ASSUME NEW t \in [Paths -> Nodes], Shape(t), NEW p \in Paths,
         \A q \in Under(p) \ {p} : t[q].kind = "absent"
  PROVE  Shape([t EXCEPT ![p] = Absent])
<1> DEFINE u == [t EXCEPT ![p] = Absent]
<1> SUFFICES ASSUME NEW r \in Paths, NEW q \in Under(r) \ {r}, u[q].kind # "absent"
             PROVE  u[r].kind = "dir"
  BY DEF Shape
<1>1. q \in Paths /\ q # p  BY UnderLen, NodeMeans
<1>2. t[q].kind # "absent"  BY <1>1
<1>3. t[r].kind = "dir"  BY <1>2 DEF Shape
<1>4. r # p  BY <1>2
<1> QED  BY <1>3, <1>4

(* An empty directory has nothing below it.                                *)
LEMMA NothingBelow ==
  ASSUME tree \in [Paths -> Nodes], Shape(tree), NEW p \in Under(S), Entries(p) = {},
         NEW q \in Under(p) \ {p}
  PROVE  tree[q].kind = "absent"
<1> SUFFICES ASSUME tree[q].kind # "absent" PROVE FALSE  OBVIOUS
<1>1. PICK c \in Children(p) : q \in Under(c)  BY EntryToward
<1>2. p \in Paths /\ c \in Paths  BY PathSeq, UnderLen, ChildMeans
<1>3. tree[c].kind # "absent"
  <2>1. CASE q = c  BY <2>1
  <2>2. CASE q # c
    <3>1. tree[c].kind = "dir"  BY <1>1, <1>2, <2>2 DEF Shape
    <3> QED  BY <3>1
  <2> QED  BY <2>1, <2>2
<1> QED  BY <1>2, <1>3 DEF Entries, Present

(* Nothing that is modelled is above S or D.                               *)
LEMMA RootsOnTop ==
  ASSUME NEW r \in Paths
  PROVE  (S \in Under(r) => r = S) /\ (D \in Under(r) => r = D)
<1>1. S \in Paths /\ D \in Paths /\ S \in Under(S) /\ D \in Under(D)
  BY PathSeq, UnderOrder
<1>2. r \in Under(S) \/ r \in Under(D)  BY PathsApart
<1>3. S \notin Under(D) /\ D \notin Under(S)  BY <1>1, PathsApart
<1> QED  BY <1>1, <1>2, <1>3, UnderOrder

(* Where a file or directory is created, all directories above are there.  *)
LEMMA GroundedMeans ==
  ASSUME tree \in [Paths -> Nodes], Shape(tree), NEW q \in Under(S), Grounded(q),
         NEW r \in Paths, At(q) \in Under(r), r # At(q)
  PROVE  tree[r].kind = "dir"
<1>1. CASE q = S  BY <1>1, AtRoot, RootsOnTop
<1>2. ASSUME NEW p \in Under(S), q \in Children(p), tree[At(p)].kind = "dir"
      PROVE  tree[r].kind = "dir"
  <2>1. At(q) \in Children(At(p)) /\ At(p) \in Paths  BY <1>2, AtNested, AtMeans
  <2>2. At(p) \in Under(r)  BY <2>1, ChildMeans
  <2>3. CASE At(p) # r  BY <1>2, <2>2, <2>3 DEF Shape
  <2> QED  BY <1>2, <2>3
<1> QED  BY <1>1, <1>2 DEF Grounded

(* What rename does, from a path below S to its place below D.             *)
LEMMA MovedMeans ==
  ASSUME tree \in [Paths -> Nodes], NEW s \in Under(S)
  PROVE  /\ Moved(s, At(s)) \in [Paths -> Nodes]
         /\ \A q \in Under(S) :
              Moved(s, At(s))[q] = IF q \in Under(s) THEN Absent ELSE tree[q]
         /\ \A q \in Under(S) :
              Moved(s, At(s))[At(q)] = IF q \in Under(s) THEN tree[q] ELSE tree[At(q)]
<1> DEFINE m == Moved(s, At(s))
<1>1. s \in Paths /\ At(s) \in Paths /\ At(s) \in Under(D)  BY AtMeans
<1>2. ASSUME NEW q \in Under(S)
      PROVE  /\ m[q] = IF q \in Under(s) THEN Absent ELSE tree[q]
             /\ m[At(q)] = IF q \in Under(s) THEN tree[q] ELSE tree[At(q)]
  <2>1. /\ q \in Paths /\ At(q) \in Paths /\ q \notin Under(D)
        /\ At(q) \in Under(D) /\ At(q) \notin Under(S)
    BY AtMeans
  <2>2. q \notin Under(At(s))  BY <1>1, <2>1, PathSeq, UnderOrder
  <2>3. At(q) \notin Under(s)  BY <1>1, <2>1, PathSeq, UnderOrder
  <2>4. At(q) \in Under(At(s)) <=> q \in Under(s)  BY AtNested
  <2>5. q \in Under(s) => Rebase(At(q), At(s), s) = q  BY AtNested
  <2>6. m[q] = IF q \in Under(s) THEN Absent ELSE tree[q]
    BY <2>1, <2>2 DEF Moved
  <2>7. m[At(q)] = IF q \in Under(s) THEN tree[q] ELSE tree[At(q)]
    BY <2>1, <2>3, <2>4, <2>5 DEF Moved
  <2> QED  BY <2>6, <2>7
<1>3. ASSUME NEW x \in Paths PROVE m[x] \in Nodes
  <2>1. CASE x \in Under(S)  BY <1>2, <2>1, NodeMeans
  <2>2. CASE x \in Under(D)
    <3>1. PICK q \in Under(S) : x = At(q)  BY <2>2, AtOnto
    <3>2. q \in Paths /\ At(q) \in Paths  BY AtMeans
    <3> QED  BY <1>2, <3>1, <3>2
  <2> QED  BY <2>1, <2>2, PathsApart
<1>4. m = [x \in Paths |-> m[x]]  BY DEF Moved
<1> HIDE DEF m
<1>5. m \in [Paths -> Nodes]  BY <1>3, <1>4
<1> QED  BY <1>2, <1>5 DEF m

LEMMA MovedShape ==
  ASSUME tree \in [Paths -> Nodes], Shape(tree), NEW s \in Under(S), Grounded(s)
  PROVE  Shape(Moved(s, At(s)))
<1> DEFINE m == Moved(s, At(s))
<1>0. /\ \A q \in Under(S) : m[q] = IF q \in Under(s) THEN Absent ELSE tree[q]
      /\ \A q \in Under(S) : m[At(q)] = IF q \in Under(s) THEN tree[q] ELSE tree[At(q)]
  BY MovedMeans
<1> HIDE DEF m
<1>s. s \in Paths /\ At(s) \in Paths  BY AtMeans
<1> SUFFICES ASSUME NEW r \in Paths, NEW q \in Under(r) \ {r}, m[q].kind # "absent"
             PROVE  m[r].kind = "dir"
  BY DEF Shape, m
<1>1. q \in Paths  BY UnderLen
<1>2. CASE q \in Under(S)
  <2>1. q \notin Under(s) /\ tree[q].kind # "absent"  BY <1>0, <1>2, NodeMeans
  <2>2. tree[r].kind = "dir"  BY <2>1 DEF Shape
  <2>3. r \in Under(S)
    <3>1. r \in Under(D) => q \in Under(D)  BY <1>1, PathSeq, UnderOrder
    <3> QED  BY <1>2, <3>1, PathsApart
  <2>4. r \notin Under(s)  BY <1>1, <1>s, <2>1, UnderOrder
  <2> QED  BY <1>0, <2>2, <2>3, <2>4
<1>3. CASE q \in Under(D)
  <2>1. r \in Under(D)
    <3>1. r \in Under(S) => q \in Under(S)  BY <1>1, PathSeq, UnderOrder
    <3> QED  BY <1>3, <3>1, PathsApart
  <2>2. PICK q0 \in Under(S) : q = At(q0)  BY <1>3, AtOnto
  <2>3. PICK r0 \in Under(S) : r = At(r0)  BY <2>1, AtOnto
  <2>4. q0 \in Under(r0) /\ q0 # r0  BY <2>2, <2>3, AtNested
  <2>5. q0 \in Paths /\ r0 \in Paths  BY AtMeans
  <2>6. CASE q0 \in Under(s) /\ r0 \in Under(s)
    <3>1. tree[q0].kind # "absent"  BY <1>0, <2>2, <2>6
    <3>2. tree[r0].kind = "dir"  BY <3>1, <2>4, <2>5 DEF Shape
    <3> QED  BY <1>0, <2>3, <2>6, <3>2
  <2>7. CASE q0 \in Under(s) /\ r0 \notin Under(s)
    <3>1. s \in Under(r0) /\ s # r0
      <4>1. Len(s) \in Nat /\ Len(r0) \in Nat  BY <1>s, <2>5, PathSeq
      <4>2. ~(Len(s) <= Len(r0))  BY <1>s, <2>4, <2>5, <2>7, UnderOrder
      <4>3. Len(r0) <= Len(s)  BY <4>1, <4>2
      <4>4. s \in Under(r0)  BY <1>s, <2>4, <2>5, <2>7, <4>3, UnderOrder
      <4> QED  BY <1>s, <2>7, <4>4, UnderOrder
    <3>2. At(s) \in Under(r) /\ At(s) # r  BY <2>3, <3>1, AtNested, AtMeans
    <3>3. tree[r].kind = "dir"  BY <3>2, GroundedMeans
    <3> QED  BY <1>0, <2>3, <2>7, <3>3
  <2>8. CASE q0 \notin Under(s)
    <3>1. tree[q].kind # "absent"  BY <1>0, <2>2, <2>8
    <3>2. tree[r].kind = "dir"  BY <3>1 DEF Shape
    <3>3. r0 \notin Under(s)  BY <1>s, <2>4, <2>5, <2>8, UnderOrder
    <3> QED  BY <1>0, <2>3, <3>2, <3>3
  <2> QED  BY <2>6, <2>7, <2>8
<1> QED  BY <1>1, <1>2, <1>3, PathsApart
-----------------------------------------------------------------------------
(* What every step has to keep about the tree itself, and that COPY and    *)
(* MOVE remove no directory of the destination.                            *)
Sound == /\ tree \in [Paths -> Nodes] /\ Shape(tree)
         /\ SourceShrinks /\ NothingLost

KeepsDirs == \A d \in Under(D) : tree[d].kind = "dir" => tree'[d].kind = "dir"

(* File q of the source is whole at its old or at its new place.           *)
Whole(q) == orig[q].kind = "file" =>
              tree[q] = orig[q] \/ Begins(tree[At(q)].data, orig[q].data)

LEMMA LostMeans ==
  NothingLost <=> (op.method = "MOVE" /\ ~ReadErrorIgnored => \A q \in Under(S) : Whole(q))
BY DEF NothingLost, Whole, At

(* The same request, and no failure is forgotten.                          *)
SameRequest == orig' = orig /\ op' = op /\ faults \subseteq faults'

LEMMA StillLost ==
  ASSUME SameRequest
  PROVE  ~ReadErrorIgnored' => ~ReadErrorIgnored
BY DEF SameRequest, ReadErrorIgnored

LEMMA LostNext ==
  ASSUME SameRequest,
         op.method = "MOVE" /\ ~ReadErrorIgnored => \A q \in Under(S) : Whole(q)'
  PROVE  NothingLost'
BY StillLost DEF NothingLost, Whole, At, SameRequest

LEMMA QuietTree ==
  ASSUME DavInv, SameRequest, tree' = tree
  PROVE  Sound' /\ KeepsDirs
<1>1. NothingLost'
  BY StillLost DEF DavInv, SameRequest, NothingLost
<1>2. SourceShrinks'  BY DEF DavInv, SameRequest, SourceShrinks, Transfer
<1> QED  BY <1>1, <1>2 DEF DavInv, Types, Sound, KeepsDirs

(* A node is created or changed at the destination of q.                   *)
LEMMA Creates ==
  ASSUME DavInv, SameRequest, NEW q \in Under(S), Grounded(q), NEW n \in Nodes,
         tree' = [tree EXCEPT ![At(q)] = n],
         n.kind = "dir" \/ tree[At(q)].kind # "dir",
         orig[q].kind = "file" /\ tree[q] # orig[q] => n.data = tree[At(q)].data
  PROVE  /\ Sound' /\ KeepsDirs /\ tree'[At(q)] = n
         /\ \A r \in Under(S) : tree'[r] = tree[r]
<1>1. tree \in [Paths -> Nodes] /\ Shape(tree) /\ SourceShrinks /\ NothingLost
  BY DEF DavInv, Types
<1>2. At(q) \in Paths /\ At(q) \in Under(D)  BY AtMeans
<1>3. tree' \in [Paths -> Nodes] /\ tree'[At(q)] = n  BY <1>1, <1>2
<1>4. ASSUME NEW r \in Under(S) PROVE tree'[r] = tree[r]
  <2>1. r \in Paths /\ r # At(q)  BY <1>2, AtMeans
  <2> QED  BY <1>1, <1>2, <2>1
<1>5. Shape(tree)'
  <2>1. \A r \in Paths : At(q) \in Under(r) /\ r # At(q) => tree[r].kind = "dir"
    BY <1>1, GroundedMeans
  <2> QED  BY <1>1, <1>2, <2>1, ShapeAdds
<1>6. KeepsDirs
  <2> SUFFICES ASSUME NEW d \in Under(D), tree[d].kind = "dir" PROVE tree'[d].kind = "dir"
    BY DEF KeepsDirs
  <2>1. d \in Paths  BY PathSeq, UnderLen
  <2> QED  BY <1>1, <1>2, <2>1
<1>7. SourceShrinks'
  BY <1>1, <1>4 DEF SourceShrinks, Transfer, SameRequest
<1>8. NothingLost'
  <2> SUFFICES ASSUME op.method = "MOVE", ~ReadErrorIgnored, NEW r \in Under(S)
               PROVE  Whole(r)'
    BY LostNext
  <2>1. Whole(r)  BY <1>1, LostMeans
  <2>2. CASE r = q
    BY <1>3, <1>4, <2>1, <2>2 DEF Whole, SameRequest
  <2>3. CASE r # q
    <3>1. At(r) \in Paths /\ At(r) # At(q)  BY <2>3, AtMeans
    <3>2. tree'[At(r)] = tree[At(r)]  BY <1>1, <1>2, <3>1
    <3> QED  BY <1>4, <2>1, <3>2 DEF Whole, SameRequest
  <2> QED  BY <2>2, <2>3
<1> QED  BY <1>3, <1>4, <1>5, <1>6, <1>7, <1>8 DEF Sound

(* A node of the source is removed.                                        *)
LEMMA Removes ==
  ASSUME DavInv, SameRequest, NEW p \in Under(S),
         tree' = [tree EXCEPT ![p] = Absent],
         \A q \in Under(p) \ {p} : tree[q].kind = "absent",
         op.method = "MOVE" /\ ~ReadErrorIgnored /\ orig[p].kind = "file" =>
           Begins(tree[At(p)].data, orig[p].data)
  PROVE  Sound' /\ KeepsDirs
<1>1. tree \in [Paths -> Nodes] /\ Shape(tree) /\ SourceShrinks /\ NothingLost
  BY DEF DavInv, Types
<1>2. p \in Paths /\ p \notin Under(D)  BY AtMeans
<1>3. tree' \in [Paths -> Nodes] /\ tree'[p] = Absent  BY <1>1, <1>2, NodeMeans
<1>4. \A d \in Under(D) : d \in Paths /\ tree'[d] = tree[d]
  BY <1>1, <1>2, PathSeq, UnderLen
<1>5. \A r \in Under(S) : r \in Paths /\ (r # p => tree'[r] = tree[r])
  BY <1>1, <1>2, PathSeq, UnderLen
<1>6. Shape(tree)'  BY <1>1, <1>2, ShapeRemoves
<1>7. SourceShrinks'
  BY <1>1, <1>3, <1>5 DEF SourceShrinks, Transfer, SameRequest
<1>8. NothingLost'
  <2> SUFFICES ASSUME op.method = "MOVE", ~ReadErrorIgnored, NEW r \in Under(S)
               PROVE  Whole(r)'
    BY LostNext
  <2>1. Whole(r)  BY <1>1, LostMeans
  <2>2. tree'[At(r)] = tree[At(r)]  BY <1>4, AtMeans
  <2> QED  BY <1>5, <2>1, <2>2 DEF Whole, SameRequest
<1> QED  BY <1>3, <1>4, <1>6, <1>7, <1>8 DEF Sound, KeepsDirs

(* A node of the source is renamed with all that is below it.              *)
LEMMA Renames ==
  ASSUME DavInv, SameRequest, NEW s \in Under(S), Grounded(s),
         tree' = Moved(s, At(s)),
         \A q \in Under(s) : orig[q].kind = "file" => tree[q] = orig[q]
  PROVE  Sound' /\ (tree[At(s)].kind # "dir" => KeepsDirs)
<1>1. tree \in [Paths -> Nodes] /\ orig \in [Paths -> Nodes]
      /\ Shape(tree) /\ SourceShrinks /\ NothingLost
  BY DEF DavInv, Types
<1>2. /\ tree' \in [Paths -> Nodes]
      /\ \A q \in Under(S) : tree'[q] = IF q \in Under(s) THEN Absent ELSE tree[q]
      /\ \A q \in Under(S) :
           tree'[At(q)] = IF q \in Under(s) THEN tree[q] ELSE tree[At(q)]
  BY <1>1, MovedMeans
<1>3. Shape(tree)'  BY <1>1, MovedShape
<1>4. SourceShrinks'
  BY <1>1, <1>2 DEF SourceShrinks, Transfer, SameRequest
<1>5. NothingLost'
  <2> SUFFICES ASSUME op.method = "MOVE", ~ReadErrorIgnored, NEW r \in Under(S)
               PROVE  Whole(r)'
    BY LostNext
  <2>1. Whole(r)  BY <1>1, LostMeans
  <2>2. CASE r \in Under(s)
    <3> SUFFICES ASSUME orig[r].kind = "file" PROVE Begins(tree'[At(r)].data, orig[r].data)
      BY DEF Whole, SameRequest
    <3>1. tree'[At(r)] = orig[r]  BY <1>2, <2>2
    <3>2. orig[r].data \in Seq(Blocks)  BY <1>1, AtMeans, NodeMeans
    <3> QED  BY <3>1, <3>2, BeginsSelf
  <2>3. CASE r \notin Under(s)  BY <1>2, <2>1, <2>3 DEF Whole, SameRequest
  <2> QED  BY <2>2, <2>3
<1>6. ASSUME tree[At(s)].kind # "dir" PROVE KeepsDirs
  <2> SUFFICES ASSUME NEW d \in Under(D), tree[d].kind = "dir" PROVE tree'[d].kind = "dir"
    BY DEF KeepsDirs
  <2>1. PICK q \in Under(S) : d = At(q)  BY AtOnto
  <2>2. q \notin Under(s)
    <3> SUFFICES ASSUME q \in Under(s) PROVE FALSE  OBVIOUS
    <3>1. At(q) \in Under(At(s)) /\ At(s) \in Paths  BY AtNested, AtMeans
    <3> QED  BY <1>1, <1>6, <2>1, <3>1 DEF Shape
  <2> QED  BY <1>2, <2>1, <2>2
<1> QED  BY <1>2, <1>3, <1>4, <1>5, <1>6 DEF Sound
-----------------------------------------------------------------------------
(* The top frame, and the stack without it.                                *)
LEMMA StackMeans ==
  ASSUME stack \in Seq(Frame), stack # <<>>
  PROVE  /\ Len(stack) \in Nat /\ Len(stack) >= 1 /\ Len(stack) \in 1 .. Len(stack)
         /\ Top = stack[Len(stack)] /\ Top \in Frame
         /\ Pop \in Seq(Frame) /\ Len(Pop) = Len(stack) - 1
         /\ \A k \in 1 .. Len(stack) - 1 : Pop[k] = stack[k]
<1>1. Len(stack) \in Nat /\ Len(stack) >= 1  BY EmptySeq, LenProperties
<1>2. Top = stack[Len(stack)] /\ Top \in Frame  BY <1>1, ElementOfSeq DEF Top
<1>3. /\ Pop \in Seq(Frame) /\ Len(Pop) = Len(stack) - 1
      /\ \A k \in 1 .. Len(stack) - 1 : Pop[k] = stack[k]
  <2> DEFINE n == Len(stack) - 1
  <2>1. n \in Int /\ n >= 0 /\ 1 \in Int  BY <1>1
  <2>2. \A k \in 1 .. n : stack[k] \in Frame  BY <1>1, ElementOfSeq
  <2>3. Pop = SubSeq(stack, 1, n)  BY DEF Pop
  <2> HIDE DEF n
  <2>4. /\ Pop \in Seq(Frame) /\ Len(Pop) = IF 1 <= n THEN n - 1 + 1 ELSE 0
        /\ \A k \in 1 .. n - 1 + 1 : Pop[k] = stack[1 + k - 1]
    BY <2>1, <2>2, <2>3, SubSeqProperties
  <2>5. Len(Pop) = n /\ \A k \in 1 .. n : Pop[k] = stack[k]  BY <2>1, <2>4
  <2> QED  BY <2>4, <2>5 DEF n
<1> QED  BY <1>1, <1>2, <1>3

(* Frames that are there or are left by a return stay right.               *)
LEMMA FramesStay ==
  ASSUME DavInv, orig' = orig, pc # "crashed", pc' # "mkdir",
         stack = <<>> \/ KeepsDirs,
         stack' = stack \/ (stack # <<>> /\ stack' = Pop),
         pc = "mkdir" => stack' = Pop \/ pc' = "crashed" \/ tree'[Top.dst].kind = "dir"
  PROVE  stack' \in Seq(Frame) /\ Frames'
<1>t. Types /\ Control /\ Frames  BY DEF DavInv
<1>0. stack \in Seq(Frame)  BY <1>t DEF Types
<1>1. CASE stack = <<>>
  <2>1. stack' = <<>>  BY <1>1
  <2>2. Len(<<>>) = 0  BY EmptySeq
  <2> QED  BY <1>0, <1>1, <2>1, <2>2 DEF Frames
<1>2. CASE stack # <<>>
  <2>1. /\ Len(stack) \in Nat /\ Len(stack) >= 1 /\ Top = stack[Len(stack)]
        /\ Pop \in Seq(Frame) /\ Len(Pop) = Len(stack) - 1
        /\ \A k \in 1 .. Len(stack) - 1 : Pop[k] = stack[k]
    BY <1>0, <1>2, StackMeans
  <2>2. \A k \in 1 .. Len(stack) : stack[k] \in Frame  BY <1>0, ElementOfSeq
  <2>3. \A k \in 1 .. Len(stack) :
          /\ stack[k].dst = At(stack[k].src) /\ orig'[stack[k].src].kind # "file"
          /\ stack[k].todo \subseteq Children(stack[k].src)
    BY <1>t DEF Frames
  <2>4. \A k \in 1 .. Len(stack) : pc # "mkdir" \/ k # Len(stack) =>
          tree'[stack[k].dst].kind = "dir"
    <3>1. \A k \in 1 .. Len(stack) : pc # "mkdir" \/ k # Len(stack) =>
            tree[stack[k].dst].kind = "dir"
      BY <1>t DEF Frames
    <3>2. \A k \in 1 .. Len(stack) : stack[k].dst \in Under(D)  BY <2>2 DEF Frame
    <3> QED  BY <1>2, <3>1, <3>2 DEF KeepsDirs
  <2>5. CASE stack' = Pop
    <3>1. \A k \in 1 .. Len(Pop) : k \in 1 .. Len(stack) /\ k # Len(stack) /\ Pop[k] = stack[k]
      BY <2>1
    <3>2. \A k \in 1 .. Len(Pop) :
            /\ Pop[k].dst = At(Pop[k].src) /\ orig'[Pop[k].src].kind # "file"
            /\ Pop[k].todo \subseteq Children(Pop[k].src)
            /\ tree'[Pop[k].dst].kind = "dir"
      BY <2>3, <2>4, <3>1
    <3> HIDE DEF Pop
    <3> QED  BY <2>1, <2>5, <3>2 DEF Frames
  <2>6. CASE stack' = stack /\ stack' # Pop
    <3>1. \A k \in 1 .. Len(stack) : pc' # "crashed" => tree'[stack[k].dst].kind = "dir"
      BY <2>1, <2>4, <2>6
    <3> QED  BY <1>0, <2>3, <2>6, <3>1 DEF Frames
  <2> QED  BY <2>5, <2>6
<1> QED  BY <1>1, <1>2

(* A step that ends a call, the request or the server.                     *)
LEMMA Finishes ==
  ASSUME DavInv, Sound', SameRequest, UNCHANGED cp,
         stack = <<>> \/ KeepsDirs,
         stack' = stack \/ (stack # <<>> /\ stack' = Pop),
         pc = "mkdir" => stack' = Pop \/ pc' = "crashed",
         kept' \subseteq Under(S), retval' \in Results,
         pc # "crashed", pc' \in {"return", "answer", "crashed"},
         pc' = "return" => Transfer
  PROVE  DavInv'
<1>t. Types /\ Control /\ Shape(orig) /\ Copying  BY DEF DavInv
<1>1. stack' \in Seq(Frame) /\ Frames'  BY FramesStay DEF SameRequest
<1>2. pc' \in PCs  BY DEF PCs
<1>3. Types'  BY <1>t, <1>1, <1>2 DEF Types, Sound, SameRequest
<1>4. ~Transfer => stack' = <<>>  BY <1>t DEF Control
<1>5. Control'  BY <1>4 DEF Control, Transfer, SameRequest
<1>6. Copying'  BY <1>t DEF Copying
<1>7. Shape(orig)'  BY <1>t DEF SameRequest
<1> QED  BY <1>1, <1>3, <1>5, <1>6, <1>7 DEF DavInv, Sound

(* The same for the steps that leave the tree and the stack alone.         *)
LEMMA Answers ==
  ASSUME DavInv, SameRequest, UNCHANGED <<tree, stack, cp, kept>>, retval' \in Results,
         pc # "crashed", pc' \in {"return", "answer", "crashed"},
         pc' = "return" => Transfer,
         pc = "mkdir" => pc' = "crashed"
  PROVE  DavInv'
<1>1. Sound' /\ KeepsDirs  BY QuietTree
<1>2. kept' \subseteq Under(S)  BY DEF DavInv, Types
<1> QED  BY <1>1, <1>2, Finishes

(* Grounded stays true while no directory of the destination goes.         *)
LEMMA StaysGrounded ==
  ASSUME KeepsDirs, NEW q \in Under(S), Grounded(q)
  PROVE  q = S \/ \E p \in Under(S) : q \in Children(p) /\ tree'[At(p)].kind = "dir"
<1>1. \A p \in Under(S) : At(p) \in Under(D)  BY AtMeans
<1> QED  BY <1>1 DEF Grounded, KeepsDirs

Codes == {OK_CREATED, OK_NOCONTENT, ERR_BRKPIPE, ERR_FILENOTFOUND, ERR_NOMEM,
          ERR_NOTHTTP, ERR_FORBIDDEN, ERR_INSUFFICIENT_STORAGE, ERR_NOT_ALLOWED,
          ERR_PRECONDITION_FAILED}

LEMMA CodesKnown == Codes \subseteq Results /\ 0 \in Results /\ -1 \in Results /\ 1 \in Results
BY DEF Codes, Results, OK_CREATED, OK_NOCONTENT, ERR_BRKPIPE, ERR_FILENOTFOUND,
   ERR_NOMEM, ERR_NOTHTTP, ERR_FORBIDDEN, ERR_INSUFFICIENT_STORAGE, ERR_NOT_ALLOWED,
   ERR_PRECONDITION_FAILED

LEMMA FaultAdds ==
  ASSUME NEW f, Fault(f)
  PROVE  faults \subseteq faults' /\ f \in faults'
BY DEF Fault
-----------------------------------------------------------------------------
(* A transfer begins.                                                      *)
LEMMA StartKeeps ==
  ASSUME DavInv, CopyMove \/ CopyMoveRefused \/ DirByCopy \/ TopFile
  PROVE  DavInv'
<1>t. Types /\ Control /\ Frames /\ Copying /\ Shape(orig)  BY DEF DavInv
<1>s. SameRequest /\ tree' = tree /\ kept' = kept
  BY DEF CopyMove, CopyMoveRefused, DirByCopy, TopFile, SameRequest, request
<1>q. Sound' /\ KeepsDirs /\ Shape(orig)'  BY <1>s, <1>t, QuietTree DEF SameRequest
<1>1. CASE CopyMoveRefused
  <2>1. retval' \in Codes  BY <1>1 DEF CopyMoveRefused, Codes
  <2> QED  BY <1>1, <1>s, <2>1, CodesKnown, Answers DEF CopyMoveRefused, Goto
<1>2. CASE CopyMove /\ pc' = "return"
  <2>1. retval' \in Codes  BY <1>2 DEF CopyMove, Codes, Goto, Return
  <2> QED  BY <1>2, <1>s, <2>1, CodesKnown, Answers DEF CopyMove, Transfer
<1>3. CASE CopyMove /\ pc' # "return"
  <2>1. /\ pc = "start" /\ Transfer /\ UNCHANGED <<stack, cp, kept, retval>>
        /\ \/ pc' = "dir" /\ tree[S].kind # "file"
           \/ pc' = "file" /\ tree[S].kind # "dir"
    BY <1>3 DEF CopyMove, Goto, Return, Transfer, IsDir, Present
  <2>2. tree = orig /\ stack = <<>> /\ stack' = <<>>  BY <1>t, <2>1 DEF Control
  <2>3. Types'  BY <1>t, <1>s, <1>q, <2>1 DEF Types, Sound, SameRequest, PCs
  <2>4. Control'  BY <1>s, <2>1, <2>2 DEF Control, SameRequest, Transfer
  <2>5. Frames'
    <3>1. Len(stack') = 0  BY <2>2, EmptySeq
    <3> QED  BY <3>1 DEF Frames
  <2>6. Copying'  BY <1>t, <2>1 DEF Copying
  <2> QED  BY <1>q, <2>3, <2>4, <2>5, <2>6 DEF DavInv, Sound
<1>4. CASE DirByCopy
  <2> DEFINE f == [src |-> S, dst |-> D, todo |-> {}]
  <2>1. pc = "dir" /\ pc' = "mkdir" /\ stack' = <<f>> /\ UNCHANGED <<cp, retval>>
    BY <1>4 DEF DirByCopy, Goto
  <2>2. /\ f \in Frame /\ f.src = S /\ f.dst = At(S)
        /\ f.todo \subseteq Children(f.src)
    BY AtRoot DEF Frame
  <2>3. orig[S].kind # "file" /\ Transfer  BY <1>t, <2>1 DEF Control
  <2> HIDE DEF f
  <2>4. stack' \in Seq(Frame) /\ Len(stack') = 1 /\ stack'[1] = f /\ stack' # <<>>
    BY <2>1, <2>2
  <2>5. Types'  BY <1>t, <1>s, <1>q, <2>1, <2>4 DEF Types, Sound, SameRequest, PCs
  <2>6. Control'  BY <1>s, <2>1, <2>3, <2>4 DEF Control, SameRequest, Transfer
  <2>7. Frames'
    BY <1>s, <2>1, <2>2, <2>3, <2>4 DEF Frames, SameRequest, Grounded
  <2>8. Copying'  BY <1>t, <2>1 DEF Copying
  <2> QED  BY <1>q, <2>5, <2>6, <2>7, <2>8 DEF DavInv, Sound
<1>5. CASE TopFile
  <2>1. pc = "file" /\ pc' = "filecopy" /\ cp' = NoCopy /\ UNCHANGED <<stack, retval>>
    BY <1>5 DEF TopFile, Goto
  <2>2. /\ cp' \in [src : Under(S), dst : Under(D), pos : Nat]
        /\ cp'.src = S /\ cp'.dst = At(S) /\ cp'.pos = 0
    BY <2>1, AtRoot DEF NoCopy
  <2>3. tree[S].kind # "dir" /\ Transfer /\ stack = <<>> /\ stack' = <<>>
    BY <1>t, <2>1 DEF Control
  <2>4. Types'  BY <1>t, <1>s, <1>q, <2>1, <2>2 DEF Types, Sound, SameRequest, PCs
  <2>5. Control'  BY <1>s, <2>1, <2>3 DEF Control, SameRequest, Transfer
  <2>6. Frames'
    <3>1. Len(stack') = 0  BY <2>3, EmptySeq
    <3> QED  BY <3>1 DEF Frames
  <2>7. Copying'  BY <1>s, <2>1, <2>2, <2>3 DEF Copying, Grounded
  <2> QED  BY <1>q, <2>4, <2>5, <2>6, <2>7 DEF DavInv, Sound
<1> QED  BY <1>1, <1>2, <1>3, <1>4, <1>5

(* dir_move with rename.                                                   *)
LEMMA DirRenameKeeps ==
  ASSUME DavInv, DirByRename \/ DirRenameFails
  PROVE  DavInv'
<1>t. Types /\ Control /\ Shape(orig)  BY DEF DavInv
<1>1. /\ SameRequest /\ pc = "dir" /\ pc' = "return" /\ retval' \in {0, 1}
      /\ UNCHANGED <<stack, cp, kept>> /\ Transfer
  BY FaultAdds DEF DirByRename, DirRenameFails, SameRequest, request, Goto, Return,
     Transfer
<1>2. retval' \in Results  BY <1>1, CodesKnown
<1>3. CASE tree' = tree  BY <1>1, <1>2, <1>3, Answers
<1>4. CASE tree' = Moved(S, D)
  <2>1. tree = orig /\ stack = <<>>  BY <1>1, <1>t DEF Control
  <2>2. S \in Under(S) /\ Grounded(S) /\ tree' = Moved(S, At(S))
    BY <1>4, AtRoot DEF Grounded
  <2>3. Sound'  BY <1>1, <2>1, <2>2, Renames
  <2>4. kept' \subseteq Under(S)  BY <1>1, <1>t DEF Types
  <2> QED  BY <1>1, <1>2, <2>1, <2>3, <2>4, Finishes
<1> QED  BY <1>3, <1>4 DEF DirByRename, DirRenameFails

(* dir_move_copy makes its destination.                                    *)
LEMMA MkDirKeeps ==
  ASSUME DavInv, MkDir \/ MkDirFails
  PROVE  DavInv'
<1>t. Types /\ Control /\ Frames /\ Copying /\ Shape(orig)  BY DEF DavInv
<1>1. SameRequest /\ pc = "mkdir" /\ UNCHANGED <<cp, kept>>
  BY FaultAdds DEF MkDir, MkDirFails, SameRequest, request
<1>2. Transfer /\ stack # <<>> /\ stack \in Seq(Frame)  BY <1>1, <1>t DEF Control, Types
<1>3. CASE tree' = tree /\ stack' = Pop /\ retval' = ERR_FORBIDDEN /\ pc' = "return"
  <2>1. Sound' /\ KeepsDirs  BY <1>1, <1>3, QuietTree
  <2>2. kept' \subseteq Under(S)  BY <1>1, <1>t DEF Types
  <2>3. retval' \in Results  BY <1>3, CodesKnown DEF Codes
  <2> QED  BY <1>1, <1>2, <1>3, <2>1, <2>2, <2>3, Finishes
<1>4. CASE /\ MkDir /\ ~Present(Top.dst) /\ Set(Top.dst, Dir) /\ pc' = "opendir"
           /\ UNCHANGED <<stack, retval>>
  <2>1. /\ Len(stack) \in 1 .. Len(stack) /\ Top = stack[Len(stack)] /\ Top \in Frame
    BY <1>2, StackMeans
  <2>2. /\ Top.src \in Under(S) /\ Top.dst = At(Top.src) /\ Grounded(Top.src)
        /\ orig[Top.src].kind # "file"
    BY <1>1, <1>t, <2>1 DEF Frames, Frame
  <2>3. PICK q \in Under(S) : q = Top.src  BY <2>2
  <2>4. tree' = [tree EXCEPT ![At(q)] = Dir]  BY <1>4, <2>2, <2>3 DEF Set
  <2>5. /\ Sound' /\ KeepsDirs /\ tree'[At(q)] = Dir
        /\ \A r \in Under(S) : tree'[r] = tree[r]
    <3>1. Grounded(q) /\ orig[q].kind # "file"  BY <2>2, <2>3
    <3>2. Dir \in Nodes /\ Dir.kind = "dir"  BY NodeMeans
    <3> QED  BY <1>1, <2>4, <3>1, <3>2, Creates
  <2>6. tree'[Top.dst].kind = "dir"  BY <2>2, <2>3, <2>5, NodeMeans
  <2>7. stack' \in Seq(Frame) /\ Frames'
    BY <1>1, <1>4, <2>5, <2>6, FramesStay DEF SameRequest
  <2>8. Types'  BY <1>1, <1>4, <1>t, <2>5, <2>7 DEF Types, Sound, SameRequest, PCs
  <2>9. Control'  BY <1>1, <1>2, <1>4 DEF Control, Transfer, SameRequest
  <2>10. Copying'  BY <1>1, <1>4, <1>t DEF Copying
  <2>11. Shape(orig)'  BY <1>1, <1>t DEF SameRequest
  <2> QED  BY <2>5, <2>7, <2>8, <2>9, <2>10, <2>11 DEF DavInv, Sound
<1> QED  BY <1>3, <1>4 DEF MkDir, MkDirFails, Return, Goto

(* It lists its source.                                                    *)
LEMMA OpenDirKeeps ==
  ASSUME DavInv, OpenDir \/ OpenDirFails
  PROVE  DavInv'
<1>t. Types /\ Control /\ Frames /\ Copying /\ Shape(orig)  BY DEF DavInv
<1>1. SameRequest /\ pc = "opendir" /\ UNCHANGED <<tree, cp, kept>>
  BY FaultAdds DEF OpenDir, OpenDirFails, SameRequest, request
<1>2. Transfer /\ stack # <<>> /\ stack \in Seq(Frame)  BY <1>1, <1>t DEF Control, Types
<1>3. Sound' /\ KeepsDirs  BY <1>1, QuietTree
<1>4. CASE OpenDirFails
  <2>1. retval' \in Codes /\ pc' = "return" /\ stack' = Pop
    BY <1>4 DEF OpenDirFails, Return, Goto, Codes
  <2>2. kept' \subseteq Under(S)  BY <1>1, <1>t DEF Types
  <2> QED  BY <1>1, <1>2, <1>3, <2>1, <2>2, CodesKnown, Finishes
<1>5. CASE OpenDir
  <2> DEFINE n == Len(stack)
             e == Entries(Top.src)
  <2>1. /\ n \in Nat /\ n \in 1 .. n /\ Top = stack[n] /\ Top \in Frame
    BY <1>2, StackMeans
  <2>2. /\ stack' = [stack EXCEPT ![n].todo = e] /\ pc' = "loop" /\ retval' = retval
    BY <1>5 DEF OpenDir, Goto
  <2>3. e \subseteq Children(Top.src) /\ e \subseteq Paths
    BY DEF Entries, Children, Under
  <2> HIDE DEF e
  <2>4. [Top EXCEPT !.todo = e] \in Frame  BY <2>1, <2>3 DEF Frame
  <2>a. stack' = [stack EXCEPT ![n] = [Top EXCEPT !.todo = e]]  BY <1>2, <2>1, <2>2
  <2>5. /\ stack' \in Seq(Frame) /\ Len(stack') = n
        /\ stack'[n] = [Top EXCEPT !.todo = e]
        /\ \A k \in 1 .. n : k # n => stack'[k] = stack[k]
    BY <1>2, <2>1, <2>4, <2>a
  <2>6. stack' # <<>>  BY <2>1, <2>5, EmptySeq
  <2>7. Frames'
    <3> SUFFICES ASSUME NEW k \in 1 .. n
                 PROVE  /\ stack'[k].dst = At(stack'[k].src)
                        /\ orig[stack'[k].src].kind # "file"
                        /\ stack'[k].todo \subseteq Children(stack'[k].src)
                        /\ tree[stack'[k].dst].kind = "dir"
      BY <1>1, <2>2, <2>5 DEF Frames, SameRequest
    <3>1. /\ stack[k].dst = At(stack[k].src) /\ orig[stack[k].src].kind # "file"
          /\ stack[k].todo \subseteq Children(stack[k].src)
          /\ tree[stack[k].dst].kind = "dir"
      BY <1>1, <1>t DEF Frames
    <3>2. CASE k = n
      <4>1. /\ stack'[k].src = Top.src /\ stack'[k].dst = Top.dst /\ stack'[k].todo = e
        BY <2>1, <2>5, <3>2 DEF Frame
      <4> QED  BY <2>1, <2>3, <3>1, <3>2, <4>1
    <3> QED  BY <2>5, <3>1, <3>2
  <2>8. Types'  BY <1>1, <1>3, <1>t, <2>2, <2>5 DEF Types, Sound, SameRequest, PCs
  <2>9. Control'  BY <1>1, <1>2, <2>2, <2>6 DEF Control, Transfer, SameRequest
  <2>10. Copying'  BY <1>1, <1>t, <2>2 DEF Copying
  <2>11. Shape(orig)'  BY <1>1, <1>t DEF SameRequest
  <2> QED  BY <1>3, <2>7, <2>8, <2>9, <2>10, <2>11 DEF DavInv, Sound
<1> QED  BY <1>4, <1>5

(* It takes its next entry.                                                *)
LEMMA NextEntryKeeps ==
  ASSUME DavInv, NEW q \in Paths, NextEntry(q)
  PROVE  DavInv'
<1>t. Types /\ Control /\ Frames /\ Copying /\ Shape(orig)  BY DEF DavInv
<1>1. SameRequest /\ pc = "loop" /\ q \in Top.todo /\ UNCHANGED <<tree, kept, retval>>
  BY DEF NextEntry, SameRequest, request
<1>2. Transfer /\ stack # <<>> /\ stack \in Seq(Frame)  BY <1>1, <1>t DEF Control, Types
<1>3. Sound' /\ KeepsDirs  BY <1>1, QuietTree
<1> DEFINE n == Len(stack)
           r == Top.todo \ {q}
           rest == [stack EXCEPT ![n].todo = @ \ {q}]
           d == Rebase(q, Top.src, Top.dst)
<1>4. /\ n \in Nat /\ n >= 1 /\ n \in 1 .. n /\ Top = stack[n] /\ Top \in Frame
  BY <1>2, StackMeans
<1>5. /\ Top.src \in Under(S) /\ Top.dst = At(Top.src)
      /\ Top.todo \subseteq Children(Top.src) /\ tree[Top.dst].kind = "dir"
  BY <1>1, <1>4, <1>t DEF Frames, Frame
<1>6. /\ q \in Children(Top.src) /\ q \in Under(Top.src) /\ q \in Under(S)
  <2>1. q \in Children(Top.src) /\ Top.src \in Paths  BY <1>1, <1>5, AtMeans
  <2> QED  BY <1>5, <2>1, ChildMeans, PathSeq, UnderOrder
<1>7. d = At(q) /\ At(q) \in Under(D)  BY <1>5, <1>6, AtNested, AtMeans
<1>8. Grounded(q)  BY <1>5, <1>6 DEF Grounded
<1>9. rest = [stack EXCEPT ![n] = [Top EXCEPT !.todo = r]]  BY <1>2, <1>4
<1>10. [Top EXCEPT !.todo = r] \in Frame  BY <1>4 DEF Frame
<1>11. /\ [Top EXCEPT !.todo = r].src = Top.src /\ [Top EXCEPT !.todo = r].dst = Top.dst
       /\ [Top EXCEPT !.todo = r].todo = r
  BY <1>4 DEF Frame
<1> HIDE DEF d, r, rest
<1>12. /\ rest \in Seq(Frame) /\ Len(rest) = n
       /\ rest[n] = [Top EXCEPT !.todo = r]
       /\ \A k \in 1 .. n : k # n => rest[k] = stack[k]
  BY <1>2, <1>4, <1>9, <1>10
<1>13. ASSUME NEW k \in 1 .. n
       PROVE  /\ rest[k].dst = At(rest[k].src) /\ orig[rest[k].src].kind # "file"
              /\ rest[k].todo \subseteq Children(rest[k].src)
              /\ tree[rest[k].dst].kind = "dir"
  <2>1. /\ stack[k].dst = At(stack[k].src) /\ orig[stack[k].src].kind # "file"
        /\ stack[k].todo \subseteq Children(stack[k].src)
        /\ tree[stack[k].dst].kind = "dir"
    BY <1>1, <1>t DEF Frames
  <2>2. CASE k = n
    <3>1. /\ rest[k].src = Top.src /\ rest[k].dst = Top.dst /\ rest[k].todo = r
      BY <1>11, <1>12, <2>2
    <3> QED  BY <1>4, <2>1, <2>2, <3>1 DEF r
  <2> QED  BY <1>12, <2>1, <2>2
<1>14. Shape(orig)'  BY <1>1, <1>t DEF SameRequest
<1>15. CASE IsDir(q)
  <2> DEFINE f == [src |-> q, dst |-> d, todo |-> {}]
  <2>1. stack' = Append(rest, f) /\ pc' = "mkdir" /\ cp' = cp
    BY <1>15 DEF NextEntry, Goto, rest, d
  <2>2. f \in Frame /\ f.src = q /\ f.dst = At(q) /\ f.todo \subseteq Children(q)
    BY <1>6, <1>7 DEF Frame
  <2> HIDE DEF f
  <2>3. /\ stack' \in Seq(Frame) /\ Len(stack') = n + 1 /\ stack'[n + 1] = f
        /\ \A k \in 1 .. n : stack'[k] = rest[k]
    BY <1>4, <1>12, <2>1, <2>2
  <2>4. stack' # <<>>  BY <1>4, <2>3, EmptySeq
  <2>5. orig[q].kind # "file"
    <3>1. tree[q] = orig[q] \/ tree[q] = Absent
      BY <1>2, <1>6 DEF DavInv, SourceShrinks
    <3> QED  BY <1>15, <3>1, NodeMeans DEF IsDir
  <2>6. Frames'
    <3> SUFFICES ASSUME NEW k \in 1 .. n + 1
                 PROVE  /\ stack'[k].dst = At(stack'[k].src)
                        /\ orig[stack'[k].src].kind # "file"
                        /\ stack'[k].todo \subseteq Children(stack'[k].src)
                        /\ k = n + 1 => Grounded(stack'[k].src)
                        /\ k # n + 1 => tree[stack'[k].dst].kind = "dir"
      BY <1>1, <2>1, <2>3 DEF Frames, SameRequest, Grounded
    <3>1. CASE k = n + 1  BY <1>8, <2>2, <2>3, <2>5, <3>1
    <3>2. CASE k # n + 1
      <4>1. k \in 1 .. n  BY <1>4, <3>2
      <4> QED  BY <1>13, <2>3, <3>2, <4>1
    <3> QED  BY <3>1, <3>2
  <2>7. Types'  BY <1>1, <1>3, <1>t, <2>1, <2>3 DEF Types, Sound, SameRequest, PCs
  <2>8. Control'  BY <1>1, <1>2, <2>1, <2>4 DEF Control, Transfer, SameRequest
  <2>9. Copying'  BY <1>1, <1>t, <2>1 DEF Copying
  <2> QED  BY <1>3, <1>14, <2>6, <2>7, <2>8, <2>9 DEF DavInv, Sound
<1>16. CASE ~IsDir(q)
  <2>1. /\ stack' = rest /\ pc' = "filecopy"
        /\ cp' = [src |-> q, dst |-> d, pos |-> 0]
    BY <1>16 DEF NextEntry, Goto, rest, d
  <2>2. /\ cp' \in [src : Under(S), dst : Under(D), pos : Nat]
        /\ cp'.src = q /\ cp'.dst = At(q) /\ cp'.pos = 0
    BY <1>6, <1>7, <2>1
  <2>3. Frames'  BY <1>1, <1>12, <1>13, <2>1 DEF Frames, SameRequest
  <2>4. Types'  BY <1>1, <1>3, <1>12, <1>t, <2>1, <2>2 DEF Types, Sound, SameRequest, PCs
  <2>5. Control'  BY <1>1, <1>2, <2>1 DEF Control, Transfer, SameRequest
  <2>6. Copying'  BY <1>1, <1>8, <1>16, <2>1, <2>2 DEF Copying, Grounded, IsDir
  <2> QED  BY <1>3, <1>14, <2>3, <2>4, <2>5, <2>6 DEF DavInv, Sound
<1> QED  BY <1>15, <1>16

(* All entries are done: a MOVE removes the source directory.              *)
LEMMA LoopEndsKeeps ==
  ASSUME DavInv, LoopEnds \/ RmDirFails
  PROVE  DavInv'
<1>t. Types /\ Control /\ Frames /\ Shape(orig) /\ Shape(tree)  BY DEF DavInv
<1>1. /\ SameRequest /\ pc = "loop" /\ UNCHANGED <<cp, kept>> /\ stack' = Pop
      /\ pc' = "return" /\ retval' \in {0, -1}
  BY FaultAdds DEF LoopEnds, RmDirFails, SameRequest, request, Return, Goto
<1>2. Transfer /\ stack # <<>> /\ stack \in Seq(Frame)  BY <1>1, <1>t DEF Control, Types
<1>3. Sound' /\ KeepsDirs
  <2>1. CASE tree' = tree  BY <1>1, <2>1, QuietTree
  <2>2. CASE Set(Top.src, Absent) /\ Entries(Top.src) = {}
    <3>1. /\ Len(stack) \in 1 .. Len(stack) /\ Top = stack[Len(stack)] /\ Top \in Frame
      BY <1>2, StackMeans
    <3>2. Top.src \in Under(S) /\ orig[Top.src].kind # "file"
      BY <1>1, <1>t, <3>1 DEF Frames, Frame
    <3>3. PICK p \in Under(S) : p = Top.src  BY <3>2
    <3>4. tree' = [tree EXCEPT ![p] = Absent]  BY <2>2, <3>3 DEF Set
    <3>5. \A q \in Under(p) \ {p} : tree[q].kind = "absent"
      BY <1>t, <2>2, <3>3, NothingBelow DEF Types
    <3> QED  BY <1>1, <3>2, <3>3, <3>4, <3>5, Removes
  <2> QED  BY <2>1, <2>2 DEF LoopEnds, RmDirFails
<1>4. kept' \subseteq Under(S)  BY <1>1, <1>t DEF Types
<1>5. retval' \in Results  BY <1>1, CodesKnown
<1> QED  BY <1>1, <1>2, <1>3, <1>4, <1>5, Finishes

(* file_move with rename.                                                  *)
LEMMA FileRenameKeeps ==
  ASSUME DavInv, FileRename \/ FileRenameFails
  PROVE  DavInv'
<1>t. Types /\ Control /\ Copying /\ Shape(orig) /\ SourceShrinks  BY DEF DavInv
<1>1. /\ SameRequest /\ pc = "filecopy" /\ UNCHANGED <<stack, cp, kept>>
      /\ pc' = "return" /\ retval' \in {0, -1}
  BY FaultAdds DEF FileRename, FileRenameFails, SameRequest, request, Return, Goto
<1>2. Transfer  BY <1>1, <1>t DEF Control
<1>3. retval' \in Results  BY <1>1, CodesKnown
<1>4. CASE tree' = tree  BY <1>1, <1>2, <1>3, <1>4, Answers
<1>5. CASE Present(cp.src) /\ ~IsDir(cp.dst) /\ tree' = Moved(cp.src, cp.dst)
  <2>1. /\ cp.src \in Under(S) /\ cp.dst = At(cp.src) /\ Grounded(cp.src)
        /\ tree[cp.src].kind # "dir"
    BY <1>1, <1>t DEF Types, Copying
  <2>2. PICK s \in Under(S) : s = cp.src  BY <2>1
  <2>3. s \in Paths  BY AtMeans
  <2>4. tree[s] = orig[s]
    BY <1>2, <1>5, <1>t, <2>2, NodeMeans DEF SourceShrinks, Present
  <2>5. \A q \in Under(s) : orig[q].kind = "file" => tree[q] = orig[q]
    BY <1>t, <2>1, <2>2, <2>3, <2>4 DEF Shape
  <2>6. Grounded(s) /\ tree' = Moved(s, At(s)) /\ tree[At(s)].kind # "dir"
    BY <1>5, <2>1, <2>2 DEF IsDir
  <2>7. Sound' /\ KeepsDirs  BY <1>1, <2>5, <2>6, Renames
  <2>8. kept' \subseteq Under(S)  BY <1>1, <1>t DEF Types
  <2> QED  BY <1>1, <1>2, <1>3, <2>7, <2>8, Finishes
<1> QED  BY <1>4, <1>5 DEF FileRename, FileRenameFails

(* file_copy opens, and may create, the destination.                       *)
LEMMA CopyOpensKeeps ==
  ASSUME DavInv, CopyOpens \/ OpenFails
  PROVE  DavInv'
<1>t. Types /\ Control /\ Copying /\ Shape(orig) /\ SourceShrinks  BY DEF DavInv
<1>1. SameRequest /\ pc = "filecopy" /\ UNCHANGED <<stack, cp, kept>>
  BY FaultAdds DEF CopyOpens, OpenFails, SameRequest, request
<1>2. Transfer /\ stack \in Seq(Frame)  BY <1>1, <1>t DEF Control, Types
<1>3. /\ cp.src \in Under(S) /\ cp.dst = At(cp.src) /\ Grounded(cp.src)
      /\ tree[cp.src].kind # "dir"
  BY <1>1, <1>t DEF Types, Copying
<1>4. PICK q \in Under(S) : q = cp.src  BY <1>3
<1>a. q \in Paths /\ At(q) \in Paths /\ tree[At(q)] \in Nodes /\ tree[q] \in Nodes
  BY <1>t, AtMeans DEF Types
<1>5. Sound' /\ KeepsDirs /\ tree'[q] = tree[q] /\ (~IsDir(cp.dst) => tree'[At(q)].kind # "dir")
      /\ (~IsDir(cp.dst) /\ pc' = "copy" => tree'[At(q)].kind = "file")
  <2>1. CASE tree' = tree /\ (Present(cp.dst) \/ pc' # "copy")
    <3>1. Sound' /\ KeepsDirs  BY <1>1, <2>1, QuietTree
    <3> QED  BY <1>3, <1>4, <1>a, <2>1, <3>1, NodeMeans DEF IsDir, Present
  <2>2. CASE ~Present(cp.dst) /\ Set(cp.dst, File(<<>>))
    <3>1. tree' = [tree EXCEPT ![At(q)] = File(<<>>)] /\ tree[At(q)].kind = "absent"
      BY <1>3, <1>4, <2>2 DEF Set, Present
    <3>2. File(<<>>) \in Nodes /\ File(<<>>).kind = "file" /\ File(<<>>).data = <<>>
      BY EmptySeq, NodeMeans
    <3>3. tree[At(q)].data = <<>>  BY <1>a, <3>1, NodeMeans
    <3>4. /\ Sound' /\ KeepsDirs /\ tree'[At(q)] = File(<<>>)
          /\ \A r \in Under(S) : tree'[r] = tree[r]
      BY <1>1, <1>3, <1>4, <3>1, <3>2, <3>3, Creates
    <3> QED  BY <3>2, <3>4
  <2> QED  BY <2>1, <2>2 DEF CopyOpens, OpenFails, Return, Goto
<1>6. CASE pc' = "return"
  <2>1. retval' \in Codes  BY <1>6 DEF CopyOpens, OpenFails, Return, Goto, Codes
  <2>2. kept' \subseteq Under(S)  BY <1>1, <1>t DEF Types
  <2> QED  BY <1>1, <1>2, <1>5, <1>6, <2>1, <2>2, CodesKnown, Finishes
<1>7. CASE pc' # "return"
  <2>1. pc' = "copy" /\ ~IsDir(cp.dst) /\ Present(cp.src) /\ retval' = retval
    BY <1>7 DEF CopyOpens, OpenFails, Return, Goto
  <2>2. tree'[cp.src].kind = "file" /\ tree'[cp.dst].kind = "file"
    BY <1>3, <1>4, <1>5, <1>a, <2>1, NodeMeans DEF Present
  <2>3. stack' \in Seq(Frame) /\ Frames'
    BY <1>1, <1>5, <2>1, FramesStay DEF SameRequest
  <2>4. Types'  BY <1>1, <1>5, <1>t, <2>1, <2>3 DEF Types, Sound, SameRequest, PCs
  <2>5. Control'  BY <1>1, <1>2, <2>1 DEF Control, Transfer, SameRequest
  <2>6. Copying'
    <3>1. cp.pos = 0 /\ cp' = cp  BY <1>1, <1>t DEF Copying
    <3>2. Grounded(cp.src)'
      BY <1>1, <1>3, <1>5, StaysGrounded DEF Grounded
    <3>3. tree'[cp.src].data \in Seq(Blocks) /\ tree'[cp.dst].data \in Seq(Blocks)
      BY <1>3, <1>4, <1>5, <1>a, NodeMeans DEF Sound
    <3>4. 0 <= Len(tree'[cp.src].data) /\ 0 <= Len(tree'[cp.dst].data)
      BY <3>3, LenProperties
    <3> QED  BY <1>1, <1>3, <2>1, <2>2, <3>1, <3>2, <3>4 DEF Copying, Source
  <2>7. Shape(orig)'  BY <1>1, <1>t DEF SameRequest
  <2> QED  BY <1>5, <2>3, <2>4, <2>5, <2>6, <2>7 DEF DavInv, Sound
<1> QED  BY <1>6, <1>7

(* One block of a file is copied.                                          *)
LEMMA CopyBlockKeeps ==
  ASSUME DavInv, CopyBlock
  PROVE  DavInv'
<1>t. Types /\ Control /\ Copying /\ Shape(orig) /\ SourceShrinks  BY DEF DavInv
<1>1. /\ SameRequest /\ pc = "copy" /\ pc' = pc /\ UNCHANGED <<stack, kept, retval>>
      /\ cp.pos < Len(Source) /\ cp' = [cp EXCEPT !.pos = @ + 1]
      /\ Set(cp.dst, File(Written(tree[cp.dst].data, cp.pos + 1, Source[cp.pos + 1])))
  BY DEF CopyBlock, SameRequest, request
<1>2. Transfer /\ stack \in Seq(Frame)  BY <1>1, <1>t DEF Control, Types
<1>3. /\ cp.src \in Under(S) /\ cp.dst = At(cp.src) /\ Grounded(cp.src)
      /\ tree[cp.src].kind = "file" /\ tree[cp.dst].kind = "file" /\ cp.pos \in Nat
      /\ cp.pos <= Len(Source) /\ cp.pos <= Len(tree[cp.dst].data)
      /\ \A i \in 1 .. cp.pos : tree[cp.dst].data[i] = Source[i]
  BY <1>1, <1>t DEF Types, Copying
<1>4. PICK q \in Under(S) : q = cp.src  BY <1>3
<1> DEFINE k == cp.pos
           b == tree[cp.dst].data
           c == tree[q].data
           w == Written(b, k + 1, c[k + 1])
<1>5. q \in Paths /\ At(q) \in Paths /\ tree[At(q)] \in Nodes /\ tree[q] \in Nodes
  BY <1>t, AtMeans DEF Types
<1>6. b \in Seq(Blocks) /\ c \in Seq(Blocks) /\ Len(b) \in Nat /\ Len(c) \in Nat /\ k \in Nat
  BY <1>3, <1>4, <1>5, NodeMeans, LenProperties
<1>7. k < Len(c) /\ k < Len(b) + 1 /\ k + 1 \in 1 .. Len(c)
      /\ \A i \in 1 .. k : b[i] = c[i]
  BY <1>1, <1>3, <1>4, <1>6 DEF Source
<1>8. c[k + 1] \in Blocks  BY <1>6, <1>7, ElementOfSeq
<1>9. tree' = [tree EXCEPT ![At(q)] = File(w)]  BY <1>1, <1>3, <1>4 DEF Set, Source
<1>10. /\ cp' \in [src : Under(S), dst : Under(D), pos : Nat]
       /\ cp'.src = q /\ cp'.dst = At(q) /\ cp'.pos = k + 1
  BY <1>1, <1>3, <1>4, <1>t DEF Types
<1>11. /\ w \in Seq(Blocks) /\ k + 1 <= Len(w) /\ w[k + 1] = c[k + 1]
       /\ \A i \in 1 .. k : w[i] = b[i]
  <2> HIDE DEF b, c, k
  <2> QED  BY <1>6, <1>7, <1>8, WrittenMeans, Zenon DEF w
<1> HIDE DEF w, b, k
<1>12. File(w) \in Nodes /\ File(w).kind = "file" /\ File(w).data = w
  BY <1>11, NodeMeans
<1>13. tree[q] = orig[q] /\ Grounded(q) /\ tree[At(q)].kind = "file"
  <2>1. tree[q] = orig[q] \/ tree[q] = Absent  BY <1>2, <1>t DEF SourceShrinks
  <2> QED  BY <1>3, <1>4, <2>1, NodeMeans
<1>14. /\ Sound' /\ KeepsDirs /\ tree'[At(q)] = File(w)
       /\ \A r \in Under(S) : tree'[r] = tree[r]
  BY <1>1, <1>9, <1>12, <1>13, Creates
<1>15. stack' \in Seq(Frame) /\ Frames'
  BY <1>1, <1>14, FramesStay DEF SameRequest
<1>16. Types'  BY <1>1, <1>10, <1>14, <1>15, <1>t DEF Types, Sound, SameRequest
<1>17. Control'  BY <1>1, <1>2 DEF Control, Transfer, SameRequest
<1>18. Copying'
  <2>1. Grounded(cp.src)'  BY <1>10, <1>13, <1>14, StaysGrounded DEF Grounded
  <2>2. Source' = c /\ tree'[cp'.dst].data = w /\ tree'[cp'.dst].kind = "file"
        /\ tree'[cp'.src].kind = "file"
    BY <1>3, <1>4, <1>10, <1>12, <1>14 DEF Source
  <2>3. k + 1 <= Len(c)  BY <1>6, <1>7
  <2>4. \A i \in 1 .. k + 1 : w[i] = c[i]
    <3>1. \A i \in 1 .. k + 1 : i = k + 1 \/ i \in 1 .. k  BY <1>6
    <3> QED  BY <1>7, <1>11, <3>1
  <2> HIDE DEF c
  <2> QED  BY <1>1, <1>10, <1>11, <2>1, <2>2, <2>3, <2>4 DEF Copying
<1>19. Shape(orig)'  BY <1>1, <1>t DEF SameRequest
<1> QED  BY <1>14, <1>15, <1>16, <1>17, <1>18, <1>19 DEF DavInv, Sound

(* The copy of a file ends.                                                *)
LEMMA CopyEndsKeeps ==
  ASSUME DavInv, CopyWriteFails \/ CopyEnds \/ CopyReadFails
  PROVE  DavInv'
<1>t. Types /\ Control /\ Copying /\ Shape(orig)  BY DEF DavInv
<1>1. SameRequest /\ pc = "copy" /\ UNCHANGED <<tree, stack, cp, kept>>
  BY FaultAdds DEF CopyWriteFails, CopyEnds, CopyReadFails, SameRequest, request
<1>2. Transfer  BY <1>1, <1>t DEF Control
<1>3. CASE pc' = "return"
  <2>1. retval' \in Codes \cup {0}
    BY <1>3 DEF CopyWriteFails, CopyEnds, CopyReadFails, Copied, Return, Goto, Codes
  <2> QED  BY <1>1, <1>2, <1>3, <2>1, CodesKnown, Answers
<1>4. CASE pc' # "return"
  <2>1. /\ pc' = "unlink" /\ op.method = "MOVE" /\ retval' = retval
        /\ cp.pos = Len(Source) \/ Fault("read")
    BY <1>4 DEF CopyWriteFails, CopyEnds, CopyReadFails, Copied, Return, Goto
  <2>2. Sound' /\ KeepsDirs  BY <1>1, QuietTree
  <2>3. stack' \in Seq(Frame) /\ Frames'
    BY <1>1, <2>1, <2>2, FramesStay DEF SameRequest
  <2>4. Types'  BY <1>1, <1>t, <2>1, <2>2, <2>3 DEF Types, Sound, SameRequest, PCs
  <2>5. Control'  BY <1>1, <1>2, <2>1 DEF Control, Transfer, SameRequest
  <2>6. Copying'
    <3>1. ~ReadErrorIgnored' => Begins(tree[cp.dst].data, Source)
      <4> SUFFICES ASSUME ~ReadErrorIgnored' PROVE Begins(tree[cp.dst].data, Source)
        OBVIOUS
      <4>1. cp.pos = Len(Source)  BY <2>1, FaultAdds DEF ReadErrorIgnored
      <4>2. /\ Len(Source) <= Len(tree[cp.dst].data)
            /\ \A i \in 1 .. Len(Source) : tree[cp.dst].data[i] = Source[i]
        BY <1>1, <1>t, <4>1 DEF Copying
      <4>3. cp.src \in Under(S) /\ cp.dst = At(cp.src)  BY <1>t DEF Types, Copying
      <4>4. tree[cp.dst] \in Nodes /\ tree[cp.src] \in Nodes
        BY <1>t, <4>3, AtMeans DEF Types
      <4>5. tree[cp.dst].data \in Seq(Blocks) /\ Source \in Seq(Blocks)
        BY <4>4, NodeMeans DEF Source
      <4> QED  BY <4>2, <4>5, BeginsMeans
    <3> QED  BY <1>1, <1>t, <2>1, <3>1 DEF Copying, Grounded, Source
  <2>7. Shape(orig)'  BY <1>1, <1>t DEF SameRequest
  <2> QED  BY <2>2, <2>3, <2>4, <2>5, <2>6, <2>7 DEF DavInv, Sound
<1> QED  BY <1>3, <1>4

(* file_move removes the file it copied.                                   *)
LEMMA UnlinkKeeps ==
  ASSUME DavInv, UnlinkSource
  PROVE  DavInv'
<1>t. Types /\ Control /\ Copying /\ Shape(orig) /\ Shape(tree) /\ SourceShrinks
  BY DEF DavInv
<1>1. /\ SameRequest /\ pc = "unlink" /\ UNCHANGED <<stack, cp, kept>>
      /\ pc' = "return" /\ retval' = 0
  BY FaultAdds DEF UnlinkSource, SameRequest, request, Return, Goto
<1>2. Transfer  BY <1>1, <1>t DEF Control
<1>3. retval' \in Results  BY <1>1, CodesKnown
<1>4. CASE tree' = tree  BY <1>1, <1>2, <1>3, <1>4, Answers
<1>5. CASE Set(cp.src, Absent)
  <2>1. /\ cp.src \in Under(S) /\ cp.dst = At(cp.src) /\ tree[cp.src].kind = "file"
        /\ ~ReadErrorIgnored => Begins(tree[cp.dst].data, Source)
    BY <1>1, <1>t DEF Types, Copying
  <2>2. PICK p \in Under(S) : p = cp.src  BY <2>1
  <2>3. p \in Paths /\ tree' = [tree EXCEPT ![p] = Absent]  BY <1>5, <2>2, AtMeans DEF Set
  <2>4. \A q \in Under(p) \ {p} : tree[q].kind = "absent"
    BY <1>t, <2>1, <2>2, <2>3 DEF Shape
  <2>5. tree[p] = orig[p]
    <3>1. tree[p] = orig[p] \/ tree[p] = Absent  BY <1>2, <1>t DEF SourceShrinks
    <3> QED  BY <2>1, <2>2, <3>1, NodeMeans
  <2>6. ~ReadErrorIgnored => Begins(tree[At(p)].data, orig[p].data)
    BY <2>1, <2>2, <2>5 DEF Source
  <2>7. Sound' /\ KeepsDirs  BY <1>1, <2>3, <2>4, <2>6, Removes
  <2>8. kept' \subseteq Under(S)  BY <1>1, <1>t DEF Types
  <2> QED  BY <1>1, <1>2, <1>3, <2>7, <2>8, Finishes
<1> QED  BY <1>4, <1>5 DEF UnlinkSource

(* Returns to dir_move_copy and to copy_move.                              *)
LEMMA ReturnKeeps ==
  ASSUME DavInv, ReturnToDir \/ ReturnToCopyMove
  PROVE  DavInv'
<1>t. Types /\ Control /\ Copying /\ Shape(orig)  BY DEF DavInv
<1>1. SameRequest /\ pc = "return" /\ UNCHANGED <<tree, cp, kept>>
  BY DEF ReturnToDir, ReturnToCopyMove, SameRequest, request
<1>2. Transfer  BY <1>1, <1>t DEF Control
<1>3. CASE ReturnToCopyMove
  <2>1. retval' \in Codes \cup {retval}
    BY <1>3 DEF ReturnToCopyMove, Codes
  <2>2. retval' \in Results  BY <1>t, <2>1, CodesKnown DEF Types
  <2> QED  BY <1>1, <1>3, <2>2, Answers DEF ReturnToCopyMove, Goto
<1>4. Sound' /\ KeepsDirs  BY <1>1, QuietTree
<1>5. CASE ReturnToDir /\ retval # 0
  <2>1. stack # <<>> /\ stack' = Pop /\ pc' = "return" /\ retval' \in Results
    BY <1>1, <1>5, <1>t DEF ReturnToDir, Types
  <2>2. kept' \subseteq Under(S)  BY <1>1, <1>t DEF Types
  <2> QED  BY <1>1, <1>2, <1>4, <2>1, <2>2, Finishes
<1>6. CASE ReturnToDir /\ retval = 0
  <2>1. stack # <<>> /\ stack' = stack /\ pc' = "loop" /\ retval' = retval
    BY <1>6 DEF ReturnToDir, Goto
  <2>3. stack' \in Seq(Frame) /\ Frames'
    BY <1>1, <1>4, <2>1, FramesStay DEF SameRequest
  <2>4. Types'  BY <1>1, <1>4, <1>t, <2>1, <2>3 DEF Types, Sound, SameRequest, PCs
  <2>5. Control'  BY <1>1, <1>2, <2>1 DEF Control, Transfer, SameRequest
  <2>6. Copying'  BY <1>1, <1>t, <2>1 DEF Copying
  <2>7. Shape(orig)'  BY <1>1, <1>t DEF SameRequest
  <2> QED  BY <1>4, <2>3, <2>4, <2>5, <2>6, <2>7 DEF DavInv, Sound
<1> QED  BY <1>3, <1>5, <1>6 DEF ReturnToDir
-----------------------------------------------------------------------------
(* Requests that are about S alone.                                        *)
LEMMA Local ==
  ASSUME DavInv, SameRequest, ~Transfer, stack' = stack,
         tree' \in [Paths -> Nodes], Shape(tree'),
         cp' \in [src : Under(S), dst : Under(D), pos : Nat], cp'.dst = At(cp'.src),
         kept' \subseteq Under(S), retval' \in Results,
         pc' \in {"remove", "put", "answer"},
         pc' = "put" => tree'[S].kind = "file" /\ cp'.pos <= Len(tree'[S].data)
  PROVE  DavInv'
<1>t. Types /\ Control /\ Shape(orig)  BY DEF DavInv
<1>1. stack = <<>>  BY <1>t DEF Control
<1>2. Types'  BY <1>t DEF Types, SameRequest, PCs
<1>3. Control'  BY <1>1 DEF Control, Transfer, SameRequest
<1>4. Frames'
  <2>1. Len(stack') = 0  BY <1>1, EmptySeq
  <2> QED  BY <2>1 DEF Frames
<1>5. Copying'  BY DEF Copying
<1>6. SourceShrinks' /\ NothingLost'
  BY DEF SourceShrinks, NothingLost, Transfer, SameRequest
<1> QED  BY <1>t, <1>2, <1>3, <1>4, <1>5, <1>6 DEF DavInv, SameRequest

(* S becomes a node where it was none, or a file where it was one.         *)
LEMMA SetS ==
  ASSUME DavInv, NEW n \in Nodes, n.kind = "dir" \/ tree[S].kind # "dir",
         tree' = [tree EXCEPT ![S] = n]
  PROVE  tree' \in [Paths -> Nodes] /\ Shape(tree') /\ tree'[S] = n
<1>1. tree \in [Paths -> Nodes] /\ Shape(tree) /\ S \in Paths
  BY PathSeq DEF DavInv, Types
<1>2. \A r \in Paths : S \in Under(r) /\ r # S => tree[r].kind = "dir"  BY RootsOnTop
<1>3. Shape([tree EXCEPT ![S] = n])  BY <1>1, <1>2, ShapeAdds
<1> QED  BY <1>1, <1>3

LEMMA DeleteKeeps ==
  ASSUME DavInv, Delete \/ (\E q \in Paths : Remove(q) \/ RemoveSkips(q)) \/ Removed
  PROVE  DavInv'
<1>t. Types /\ Control /\ Copying /\ Shape(tree)  BY DEF DavInv
<1>k. /\ cp \in [src : Under(S), dst : Under(D), pos : Nat] /\ cp.dst = At(cp.src)
      /\ kept \subseteq Under(S) /\ retval \in Results /\ tree \in [Paths -> Nodes]
  BY <1>t DEF Types, Copying
<1>1. CASE Delete \/ Removed
  <2>1. /\ SameRequest /\ UNCHANGED <<tree, stack, cp, kept>>
        /\ pc' \in {"remove", "answer"} /\ retval' \in Codes \cup {retval} /\ ~Transfer
    BY <1>1, <1>t DEF Delete, Removed, SameRequest, request, Goto, Codes, Control,
       Transfer, Types
  <2>2. retval' \in Results  BY <1>k, <2>1, CodesKnown
  <2> QED  BY <1>k, <1>t, <2>1, <2>2, Local
<1>2. ASSUME NEW q \in Paths, Remove(q) \/ RemoveSkips(q) PROVE DavInv'
  <2>1. /\ SameRequest /\ UNCHANGED <<stack, cp, retval>> /\ pc' = "remove"
        /\ pc = "remove"
    BY <1>2, FaultAdds DEF Remove, RemoveSkips, SameRequest, request
  <2>2. q \in Under(S)  BY <1>2 DEF Remove, RemoveSkips, Ready, Remaining
  <2>3. kept' \subseteq Under(S)
    <3>1. \A r \in Under(q) : r \in Under(S)  BY <2>2, PathSeq, UnderLen, UnderOrder
    <3> QED  BY <1>2, <1>k, <2>2, <3>1 DEF Remove, RemoveSkips
  <2>4. tree' \in [Paths -> Nodes] /\ Shape(tree')
    <3>1. CASE tree' = tree  BY <1>k, <1>t, <3>1
    <3>2. CASE Entries(q) = {} /\ Set(q, Absent)
      <4>1. \A r \in Under(q) \ {q} : tree[r].kind = "absent"
        BY <1>k, <1>t, <2>2, <3>2, NothingBelow
      <4>2. Shape([tree EXCEPT ![q] = Absent])  BY <1>k, <1>t, <4>1, ShapeRemoves
      <4>3. Absent \in Nodes  BY NodeMeans
      <4> QED  BY <1>k, <3>2, <4>2, <4>3 DEF Set
    <3> QED  BY <1>2, <3>1, <3>2 DEF Remove, RemoveSkips
  <2>5. ~Transfer  BY <1>t, <2>1 DEF Control
  <2> QED  BY <1>k, <2>1, <2>3, <2>4, <2>5, Local
<1> QED  BY <1>1, <1>2

LEMMA MkColKeeps ==
  ASSUME DavInv, MkCol \/ MkColFails
  PROVE  DavInv'
<1>t. Types /\ Copying /\ Shape(tree)  BY DEF DavInv
<1>k. /\ cp \in [src : Under(S), dst : Under(D), pos : Nat] /\ cp.dst = At(cp.src)
      /\ kept \subseteq Under(S) /\ tree \in [Paths -> Nodes]
  BY <1>t DEF Types, Copying
<1>1. /\ SameRequest /\ UNCHANGED <<stack, cp, kept>> /\ pc' = "answer" /\ ~Transfer
      /\ retval' \in Codes
  BY FaultAdds DEF MkCol, MkColFails, SameRequest, request, Goto, Codes, Transfer
<1>2. tree' \in [Paths -> Nodes] /\ Shape(tree')
  <2>1. CASE tree' = tree  BY <1>k, <1>t, <2>1
  <2>2. CASE Set(S, Dir)
    <3>1. Dir \in Nodes /\ Dir.kind = "dir"  BY NodeMeans
    <3> QED  BY <2>2, <3>1, SetS DEF Set
  <2> QED  BY <2>1, <2>2 DEF MkCol, MkColFails
<1> QED  BY <1>k, <1>1, <1>2, CodesKnown, Local

LEMMA PutKeeps ==
  ASSUME DavInv, PutOpen \/ PutFails \/ PutBlock \/ PutWriteFails \/ PutEnds
  PROVE  DavInv'
<1>t. Types /\ Control /\ Copying /\ Shape(tree)  BY DEF DavInv
<1>k. /\ cp \in [src : Under(S), dst : Under(D), pos : Nat] /\ cp.dst = At(cp.src)
      /\ kept \subseteq Under(S) /\ retval \in Results /\ tree \in [Paths -> Nodes]
      /\ S \in Paths /\ tree[S] \in Nodes /\ op.body \in Seq(Blocks)
      /\ tree[S].data \in Seq(Blocks)
  BY <1>t, PathSeq, NodeMeans DEF Types, Copying
<1>1. SameRequest /\ UNCHANGED <<stack, kept>> /\ ~Transfer
  BY <1>t, FaultAdds DEF PutOpen, PutFails, PutBlock, PutWriteFails, PutEnds,
     SameRequest, request, Transfer, Control
<1>2. CASE /\ tree' = tree /\ cp' = cp /\ pc' = "answer" /\ retval' \in Codes
  BY <1>k, <1>t, <1>1, <1>2, CodesKnown, Local
<1>3. CASE PutFails /\ Set(S, File(<<>>))
  <2>1. cp' = cp /\ pc' = "answer" /\ retval' \in Codes /\ tree[S].kind # "dir"
    BY <1>3 DEF PutFails, Goto, Codes, IsDir
  <2>2. File(<<>>) \in Nodes  BY EmptySeq, NodeMeans
  <2>3. tree' \in [Paths -> Nodes] /\ Shape(tree')  BY <1>3, <2>1, <2>2, SetS DEF Set
  <2> QED  BY <1>k, <1>1, <2>1, <2>3, CodesKnown, Local
<1>6. CASE PutFails /\ Set(S, File(Sized(tree[S].data, Len(op.body))))
  <2> DEFINE b == Sized(tree[S].data, Len(op.body))
  <2>1. cp' = cp /\ pc' = "answer" /\ retval' \in Codes /\ tree[S].kind # "dir"
    BY <1>6 DEF PutFails, Goto, Codes, IsDir
  <2>2. b \in Seq(Blocks)  BY <1>k, LenProperties, SizedMeans
  <2>3. tree' = [tree EXCEPT ![S] = File(b)]  BY <1>6 DEF Set
  <2> HIDE DEF b
  <2>4. File(b) \in Nodes  BY <2>2, NodeMeans
  <2>5. tree' \in [Paths -> Nodes] /\ Shape(tree')  BY <2>1, <2>3, <2>4, SetS
  <2> QED  BY <1>k, <1>1, <2>1, <2>5, CodesKnown, Local
<1>4. CASE PutOpen /\ ~IsDir(S)
  <2> DEFINE b == Sized(tree[S].data, Len(op.body))
  <2>1. /\ cp' = cp /\ pc' = "put" /\ retval' = retval /\ pc = "start"
        /\ tree' = [tree EXCEPT ![S] = File(b)] /\ tree[S].kind # "dir"
    BY <1>4 DEF PutOpen, Goto, IsDir, Set
  <2>2. b \in Seq(Blocks)  BY <1>k, LenProperties, SizedMeans
  <2> HIDE DEF b
  <2>3. File(b) \in Nodes /\ File(b).kind = "file" /\ File(b).data = b  BY <2>2, NodeMeans
  <2>4. tree' \in [Paths -> Nodes] /\ Shape(tree') /\ tree'[S] = File(b)
    BY <2>1, <2>3, SetS
  <2>5. cp.pos = 0  BY <1>t, <2>1 DEF Control, NoCopy
  <2>6. cp'.pos <= Len(tree'[S].data)  BY <2>1, <2>2, <2>3, <2>4, <2>5, LenProperties
  <2> QED  BY <1>k, <1>1, <2>1, <2>3, <2>4, <2>6, Local
<1>5. CASE PutBlock
  <2> DEFINE k == cp.pos
             b == Written(tree[S].data, k + 1, op.body[k + 1])
  <2>1. /\ pc = "put" /\ pc' = "put" /\ retval' = retval /\ k < Len(op.body)
        /\ cp' = [cp EXCEPT !.pos = k + 1] /\ tree' = [tree EXCEPT ![S] = File(b)]
    BY <1>5 DEF PutBlock, Set
  <2>2. k <= Len(tree[S].data) /\ k \in Nat /\ tree[S].kind = "file"
    BY <1>k, <1>t, <2>1 DEF Control
  <2>3. op.body[k + 1] \in Blocks
    <3>1. k + 1 \in 1 .. Len(op.body)  BY <1>k, <2>1, <2>2, LenProperties
    <3> QED  BY <1>k, <3>1, ElementOfSeq
  <2>4. k < Len(tree[S].data) + 1  BY <1>k, <2>2, LenProperties
  <2>5. b \in Seq(Blocks) /\ k + 1 <= Len(b)
    <3>1. tree[S].data \in Seq(Blocks)  BY <1>k
    <3> HIDE DEF k
    <3> QED  BY <2>2, <2>3, <2>4, <3>1, WrittenMeans
  <2>6. /\ cp' \in [src : Under(S), dst : Under(D), pos : Nat]
        /\ cp'.dst = At(cp'.src) /\ cp'.pos = k + 1
    BY <1>k, <2>1, <2>2
  <2> HIDE DEF b, k
  <2>7. File(b) \in Nodes /\ File(b).kind = "file" /\ File(b).data = b  BY <2>5, NodeMeans
  <2>8. tree' \in [Paths -> Nodes] /\ Shape(tree') /\ tree'[S] = File(b)
    BY <2>1, <2>2, <2>7, SetS
  <2> QED  BY <1>k, <1>1, <2>1, <2>5, <2>6, <2>7, <2>8, Local
<1> QED
  BY <1>2, <1>3, <1>4, <1>5, <1>6
  DEF PutOpen, PutFails, PutBlock, PutWriteFails, PutEnds, Goto, Codes
-----------------------------------------------------------------------------
(* Together: the tree is a tree, the source only shrinks, every frame has  *)
(* its directory, and what has been copied so far agrees with the source.  *)
LEMMA DavInductive == Spec => []DavInv
<1>1. Init => DavInv
  <2> SUFFICES ASSUME Init PROVE DavInv  OBVIOUS
  <2>1. PICK c \in Cases : tree = c.tree /\ op = c.op  BY DEF Init
  <2>2. /\ tree \in [Paths -> Nodes] /\ Shape(tree) /\ orig = tree
        /\ op.method \in {"COPY", "MOVE", "DELETE", "MKCOL", "PUT"}
        /\ op.body \in Seq(Blocks)
    BY <2>1, CasesAreTrees DEF Init
  <2>3. /\ pc = "start" /\ stack = <<>> /\ cp = NoCopy /\ kept = {} /\ retval = 0
    BY DEF Init
  <2>4. cp \in [src : Under(S), dst : Under(D), pos : Nat] /\ cp.dst = At(cp.src)
    BY <2>3, AtRoot DEF NoCopy
  <2>5. Len(stack) = 0 /\ stack \in Seq(Frame)  BY <2>3, EmptySeq
  <2>6. Types  BY <2>2, <2>3, <2>4, <2>5, CodesKnown DEF Types, PCs
  <2>7. Control /\ Copying  BY <2>2, <2>3, <2>4 DEF Control, Copying
  <2>8. Frames  BY <2>5 DEF Frames
  <2>9. SourceShrinks  BY <2>2 DEF SourceShrinks
  <2>10. NothingLost  BY <2>2 DEF NothingLost
  <2> QED  BY <2>2, <2>6, <2>7, <2>8, <2>9, <2>10 DEF DavInv
<1>2. DavInv /\ [Next]_vars => DavInv'
  <2> SUFFICES ASSUME DavInv, [Next]_vars PROVE DavInv'  OBVIOUS
  <2>1. CASE Crash
    <3>1. /\ SameRequest /\ UNCHANGED <<tree, stack, cp, kept>> /\ retval' = retval
          /\ pc # "crashed" /\ pc' = "crashed"
      BY <2>1, FaultAdds DEF Crash, SameRequest, request, Goto
    <3>2. retval' \in Results  BY <3>1 DEF DavInv, Types
    <3> QED  BY <3>1, <3>2, Answers
  <2>2. CASE UNCHANGED vars
    BY <2>2 DEF vars, DavInv, Types, Control, Transfer, Frames, Grounded, Copying, Source,
       ReadErrorIgnored, SourceShrinks, NothingLost
  <2> QED
    BY <2>1, <2>2, StartKeeps, DirRenameKeeps, MkDirKeeps, OpenDirKeeps, NextEntryKeeps,
       LoopEndsKeeps, FileRenameKeeps, CopyOpensKeeps, CopyBlockKeeps, CopyEndsKeeps,
       UnlinkKeeps, ReturnKeeps, DeleteKeeps, MkColKeeps, PutKeeps
    DEF Next, Ended
<1> QED  BY <1>1, <1>2, PTL DEF Spec

(* Whatever system calls fail, and in every state a crash can leave, the   *)
(* served tree is a tree (nothing lies in a file or in a directory that is *)
(* gone), the recursion of dir_move_copy copies every path to the place    *)
(* that corresponds to it, and the handlers return only the codes they     *)
(* know.                                                                   *)
THEOREM DavTypeCorrect == Spec => []DavTypeOK
<1>1. DavInv => DavTypeOK
  <2> SUFFICES ASSUME DavInv PROVE DavTypeOK  OBVIOUS
  <2>1. Types /\ Shape(tree) /\ Frames /\ Copying  BY DEF DavInv
  <2>2. \A p \in Paths : tree[p].kind \in {"absent", "dir", "file"}
    BY <2>1, NodeMeans DEF Types
  <2>3. ASSUME NEW p \in Paths, ~IsDir(p) PROVE Entries(p) = {}
    <3> SUFFICES ASSUME NEW q \in Entries(p) PROVE FALSE  OBVIOUS
    <3>1. q \in Children(p) /\ tree[q].kind # "absent"  BY DEF Entries, Present
    <3>2. q \in Under(p) /\ q # p  BY <3>1, ChildMeans
    <3> QED  BY <2>1, <2>3, <3>1, <3>2 DEF Shape, IsDir
  <2>4. \A k \in DOMAIN stack : /\ stack[k].src \in Under(S)
                                 /\ stack[k].dst = Rebase(stack[k].src, S, D)
    <3>1. stack \in Seq(Frame) /\ DOMAIN stack = 1 .. Len(stack)
      BY <2>1, LenProperties DEF Types
    <3>2. \A k \in DOMAIN stack : stack[k] \in Frame  BY <3>1, ElementOfSeq
    <3> QED  BY <2>1, <3>1, <3>2 DEF Frame, Frames, At
  <2>6. cp.src \in Under(S) /\ cp.dst = Rebase(cp.src, S, D)
    BY <2>1 DEF Types, Copying, At
  <2>5. kept \subseteq Under(S) /\ retval \in {0, -1, 1, 2, -2, -3, -6, -9, -12, -13, -14}
    BY <2>1 DEF Types, Results
  <2> QED  BY <2>2, <2>3, <2>4, <2>5, <2>6 DEF DavTypeOK
<1> QED  BY <1>1, DavInductive, PTL

(* A MOVE loses no file: of every tree, over a destination of every kind,  *)
(* on one device or across two, with any system calls failing and a crash  *)
(* at any point, each file of the source is whole at its old place or at   *)
(* its new one, unless a read failed.                                      *)
THEOREM MoveLosesNothing == Spec => []NothingLost
<1>1. DavInv => NothingLost  BY DEF DavInv
<1> QED  BY <1>1, DavInductive, PTL
-----------------------------------------------------------------------------
(* What a success promises.  A transfer by copying goes through the source *)
(* by tasks: entries that wait in a frame, and the one being worked on.    *)
(* Each task is the subtree at a path.                                     *)
ByCopy == op.method = "COPY" \/ crossdev
Opens == {stack[k].src : k \in 1 .. Len(stack)}
Waits == UNION {stack[k].todo : k \in 1 .. Len(stack)}
Current == IF pc \in {"mkdir", "opendir"} THEN {Top.src}
           ELSE IF pc \in {"filecopy", "copy"} THEN {cp.src}
           ELSE {}
Closing == IF pc = "unlink" THEN {cp.src} ELSE {}
Tasks == Waits \cup Current
Pending(q) == \E e \in Tasks : q \in Under(e)

(* No task is below another, and none contains a directory whose frame is  *)
(* still there or a file still to be removed.                              *)
Nested == \A k \in 1 .. Len(stack) : \A j \in 1 .. k - 1 :
            stack[j].src \notin Under(stack[k].src)

Tidy ==
  /\ Nested
  /\ pc \in {"mkdir", "opendir"} => Top.todo = {}
  /\ Current \cap Waits = {}
  /\ \A e \in Tasks : \A f \in Tasks : e # f => e \notin Under(f)
  /\ \A e \in Waits : \A p \in Opens \cup Closing : p \notin Under(e)

Clean == ~ReadErrorIgnored /\ ~TailKept
Going == \/ pc \in {"mkdir", "opendir", "loop", "filecopy", "copy", "unlink"}
         \/ pc = "return" /\ retval = 0

(* As long as nothing has failed, what is pending is as it was, and what   *)
(* is not has arrived; a MOVE has removed it, or will when its frame ends. *)
Kept == \A q \in Under(S) : Pending(q) => tree[q] = orig[q]
Arrived == \A q \in Under(S) : ~Pending(q) => tree[At(q)] = orig[q]
Gone == op.method = "MOVE" =>
          \A q \in Under(S) : ~Pending(q) /\ q \notin Opens \cup Closing =>
            UnlinkIgnored \/ tree[q] = Absent
Room == /\ \A e \in Waits : ~Present(At(e))
        /\ pc = "opendir" => \A q \in Under(Top.src) \ {Top.src} : ~Present(At(q))
        /\ pc \in {"filecopy", "copy"} /\ ByCopy =>
             Len(tree[cp.dst].data) <= Len(orig[cp.src].data)
Found == pc \in {"loop", "copy", "unlink", "return"} => orig[S].kind # "absent"

Progress == Going /\ Clean => Kept /\ Arrived /\ Gone /\ Room /\ Found

Course ==
  /\ pc \in {"mkdir", "opendir", "loop", "copy", "unlink"} \/ stack # <<>> => ByCopy
  /\ pc \in {"dir", "file"} => existed = (orig[D].kind # "absent")
  /\ pc = "return" => retval <= 0 \/ RenameFailed
  /\ pc = "remove" => op.method = "DELETE"
  /\ pc = "put" => /\ op.method = "PUT" /\ Len(tree[S].data) = Len(op.body)
                   /\ \A i \in 1 .. cp.pos : tree[S].data[i] = op.body[i]

DoneInv == Tidy /\ Progress /\ Course /\ SuccessMeansDone

LEMMA WorkMeans ==
  ASSUME DavInv
  PROVE  /\ stack \in Seq(Frame) /\ Len(stack) \in Nat
         /\ Opens \subseteq Under(S) /\ Waits \subseteq Under(S)
         /\ pc \in {"mkdir", "opendir", "loop"} => stack # <<>>
         /\ stack # <<>> => Top.src \in Opens /\ Top.todo \subseteq Waits
                             /\ Top.src \in Under(S)
         /\ stack = <<>> => Opens = {} /\ Waits = {}
         /\ cp.src \in Under(S) /\ cp.dst = At(cp.src)
         /\ Tasks \subseteq Under(S)
<1>1. Types /\ Control /\ Frames /\ Copying  BY DEF DavInv
<1>2. stack \in Seq(Frame) /\ Len(stack) \in Nat  BY <1>1, LenProperties DEF Types
<1>3. cp.src \in Under(S) /\ cp.dst = At(cp.src)  BY <1>1 DEF Types, Copying
<1>4. pc \in {"mkdir", "opendir", "loop"} => stack # <<>>  BY <1>1 DEF Control
<1>5. ASSUME NEW k \in 1 .. Len(stack)
      PROVE  stack[k].src \in Under(S) /\ stack[k].todo \subseteq Under(S)
  <2>1. stack[k] \in Frame  BY <1>2, ElementOfSeq
  <2>2. PICK p \in Under(S) : p = stack[k].src  BY <2>1 DEF Frame
  <2>3. stack[k].todo \subseteq Children(p)  BY <1>1, <2>2 DEF Frames
  <2>4. p \in Paths  BY AtMeans
  <2>5. \A q \in Children(p) : q \in Under(S)
    BY <2>4, ChildMeans, PathSeq, UnderOrder
  <2> QED  BY <2>2, <2>3, <2>5
<1>6. Opens \subseteq Under(S)  BY <1>5 DEF Opens
<1>7. Waits \subseteq Under(S)  BY <1>5 DEF Waits
<1>8. ASSUME stack # <<>>
      PROVE  Top.src \in Opens /\ Top.todo \subseteq Waits /\ Top.src \in Under(S)
  <2>1. Len(stack) \in 1 .. Len(stack) /\ Top = stack[Len(stack)]
    BY <1>2, <1>8, StackMeans
  <2>2. Top.src \in Opens  BY <2>1 DEF Opens
  <2>3. Top.todo \subseteq Waits  BY <2>1 DEF Waits
  <2> QED  BY <1>6, <2>2, <2>3
<1>9. ASSUME stack = <<>> PROVE Opens = {} /\ Waits = {}
  <2>1. Len(stack) = 0  BY <1>9, EmptySeq
  <2> QED  BY <2>1 DEF Opens, Waits
<1>10. Tasks \subseteq Under(S)  BY <1>3, <1>4, <1>7, <1>8 DEF Tasks, Current
<1> QED  BY <1>2, <1>3, <1>4, <1>6, <1>7, <1>8, <1>9, <1>10

(* A frame ends.                                                           *)
LEMMA Popped ==
  ASSUME DavInv, stack # <<>>, stack' = Pop
  PROVE  /\ Waits' \subseteq Waits /\ Opens' \subseteq Opens
         /\ Opens \subseteq Opens' \cup {Top.src}
         /\ Top.todo = {} => Waits' = Waits
         /\ Nested => Nested'
<1>1. stack \in Seq(Frame)  BY WorkMeans
<1> DEFINE n == Len(stack)
<1>2. /\ n \in Nat /\ n >= 1 /\ n \in 1 .. n /\ Top = stack[n] /\ Len(stack') = n - 1
      /\ \A k \in 1 .. n - 1 : stack'[k] = stack[k]
  BY <1>1, StackMeans
<1>3. \A k \in 1 .. n : k = n \/ k \in 1 .. n - 1  BY <1>2
<1>4. \A k \in 1 .. n - 1 : k \in 1 .. n  BY <1>2
<1> HIDE DEF n
<1>5. Waits' = UNION {stack[k].todo : k \in 1 .. n - 1}
  BY <1>2 DEF Waits
<1>6. Opens' = {stack[k].src : k \in 1 .. n - 1}
  BY <1>2 DEF Opens
<1>7. Waits = UNION {stack[k].todo : k \in 1 .. n} /\ Opens = {stack[k].src : k \in 1 .. n}
  BY DEF Waits, Opens, n
<1>8. Waits' \subseteq Waits /\ Opens' \subseteq Opens  BY <1>4, <1>5, <1>6, <1>7
<1>9. Opens \subseteq Opens' \cup {Top.src}  BY <1>2, <1>3, <1>6, <1>7
<1>10. Top.todo = {} => Waits \subseteq Waits'  BY <1>2, <1>3, <1>5, <1>7
<1>11. ASSUME Nested PROVE Nested'
  <2> SUFFICES ASSUME NEW k \in 1 .. n - 1, NEW j \in 1 .. k - 1
               PROVE  stack'[j].src \notin Under(stack'[k].src)
    BY <1>2 DEF Nested
  <2>1. k \in 1 .. n /\ j \in 1 .. n - 1  BY <1>2
  <2>2. stack[j].src \notin Under(stack[k].src)  BY <1>11, <2>1 DEF Nested, n
  <2> QED  BY <1>2, <2>1, <2>2
<1> QED  BY <1>8, <1>9, <1>10, <1>11

(* Tasks and directories that end leave the rest in order.                 *)
LEMMA TidyStays ==
  ASSUME Tidy, Nested', Waits' \subseteq Waits, Opens' \subseteq Opens,
         Current' \subseteq Current, Closing' \subseteq Current \cup Closing,
         pc' \in {"mkdir", "opendir"} => (Top.todo)' = {}
  PROVE  Tidy'
<1>1. Tasks' \subseteq Tasks  BY DEF Tasks
<1>2. \A e \in Tasks' : \A f \in Tasks' : e # f => e \notin Under(f)
  BY <1>1 DEF Tidy
<1>3. Current' \cap Waits' = {}  BY DEF Tidy
<1>4. \A e \in Waits' : \A p \in Opens' \cup Closing' : p \notin Under(e)
  <2> SUFFICES ASSUME NEW e \in Waits', NEW p \in Opens' \cup Closing'
               PROVE  p \notin Under(e)
    OBVIOUS
  <2>1. e \in Waits /\ e \in Tasks  BY DEF Tasks
  <2>2. CASE p \in Opens \cup Closing  BY <2>1, <2>2 DEF Tidy
  <2>3. CASE p \in Current
    <3>1. p \in Tasks /\ p # e  BY <2>1, <2>3 DEF Tasks, Tidy
    <3> QED  BY <2>1, <3>1 DEF Tidy
  <2> QED  BY <2>2, <2>3
<1> QED  BY <1>2, <1>3, <1>4 DEF Tidy

(* What waits and what is being worked on have nothing in common.          *)
LEMMA TasksApart ==
  ASSUME DavInv, Tidy, NEW e \in Tasks, NEW f \in Tasks, e # f, NEW q \in Under(e)
  PROVE  q \notin Under(f)
<1>1. e \in Under(S) /\ f \in Under(S)  BY WorkMeans
<1>2. e \in Paths /\ f \in Paths /\ q \in Paths  BY <1>1, AtMeans, UnderLen
<1>3. Len(e) \in Nat /\ Len(f) \in Nat  BY <1>2, PathSeq
<1>4. e \notin Under(f) /\ f \notin Under(e)  BY DEF Tidy
<1>5. CASE Len(e) <= Len(f)  BY <1>2, <1>4, <1>5, UnderOrder
<1>6. CASE Len(f) <= Len(e)  BY <1>2, <1>4, <1>6, UnderOrder
<1> QED  BY <1>3, <1>5, <1>6

(* The same request and the same answer of file_exists.                    *)
Same == SameRequest /\ crossdev' = crossdev /\ existed' = existed

LEMMA CleanBefore ==
  ASSUME Same
  PROVE  /\ Clean' => Clean
         /\ ByCopy' <=> ByCopy
         /\ UnlinkIgnored => UnlinkIgnored'
         /\ \A p \in Paths : orig'[p] = orig[p]
<1>1. Clean' => Clean
  BY DEF Same, SameRequest, Clean, ReadErrorIgnored, TailKept
<1>2. UnlinkIgnored => UnlinkIgnored'  BY DEF Same, SameRequest, UnlinkIgnored
<1>3. ByCopy' <=> ByCopy  BY DEF Same, SameRequest, ByCopy
<1> QED  BY <1>1, <1>2, <1>3 DEF Same, SameRequest

(* Nothing is promised of a transfer that has failed.                      *)
LEMMA NotGoing ==
  ASSUME pc' \notin {"mkdir", "opendir", "loop", "filecopy", "copy", "unlink"},
         pc' = "return" => retval' # 0
  PROVE  Progress'
BY DEF Progress, Going

(* The frames stay, and no task begins.                                    *)
LEMMA TidyReturns ==
  ASSUME DavInv, Tidy, stack' = stack \/ (stack # <<>> /\ stack' = Pop),
         pc' \notin {"mkdir", "opendir", "filecopy", "copy", "unlink"}
  PROVE  Tidy' /\ Current' = {} /\ Closing' = {}
<1>1. Current' = {} /\ Closing' = {}  BY DEF Current, Closing
<1>2. CASE stack' = stack
  <2>1. Waits' = Waits /\ Opens' = Opens /\ (Nested => Nested')
    BY <1>2 DEF Waits, Opens, Nested
  <2> QED  BY <1>1, <2>1, TidyStays DEF Tidy
<1>3. CASE stack # <<>> /\ stack' = Pop
  BY <1>1, <1>3, Popped, TidyStays DEF Tidy
<1> QED  BY <1>1, <1>2, <1>3

(* The same tasks, with the subtree at the one being worked on free to     *)
(* change at its destination.                                              *)
LEMMA TidySame ==
  ASSUME Tidy, stack' = stack, Current' = Current, Closing' = Closing,
         pc' \in {"mkdir", "opendir"} => pc \in {"mkdir", "opendir"}
  PROVE  Tidy' /\ Waits' = Waits /\ Opens' = Opens
<1>1. Waits' = Waits /\ Opens' = Opens /\ (Nested => Nested') /\ Top' = Top
  BY DEF Waits, Opens, Nested, Top
<1> QED  BY <1>1, TidyStays DEF Tidy

LEMMA Filled ==
  ASSUME DavInv, Tidy, Same, Kept, Arrived, Gone, Room, NEW c \in Under(S),
         Current = {c}, Current' = {c}, Waits' = Waits, Opens' = Opens, Closing' = Closing,
         \A r \in Under(S) : tree'[r] = tree[r],
         \A r \in Under(S) : r # c => tree'[At(r)] = tree[At(r)]
  PROVE  Kept' /\ Arrived' /\ Gone' /\ \A e \in Waits' : ~Present(At(e))'
<1>1. \A q : Pending(q)' <=> Pending(q)  BY DEF Pending, Tasks
<1>2. \A q \in Under(S) : orig'[q] = orig[q] /\ q \in Under(q)
  BY AtMeans, UnderOrder DEF Same, SameRequest
<1>3. Kept'  BY <1>1, <1>2 DEF Kept
<1>4. Arrived'
  <2> SUFFICES ASSUME NEW q \in Under(S), ~Pending(q) PROVE tree'[At(q)] = orig'[q]
    BY <1>1 DEF Arrived, At
  <2>1. q # c  BY <1>2 DEF Pending, Tasks
  <2> QED  BY <1>2, <2>1 DEF Arrived
<1>5. Gone'
  <2>1. UnlinkIgnored => UnlinkIgnored'  BY CleanBefore
  <2>2. op' = op  BY DEF Same, SameRequest
  <2> QED  BY <1>1, <2>1, <2>2 DEF Gone
<1>6. ASSUME NEW e \in Waits PROVE ~Present(At(e))'
  <2>1. e \in Under(S) /\ e # c  BY WorkMeans DEF Tidy
  <2> QED  BY <2>1 DEF Room, Present
<1> QED  BY <1>3, <1>4, <1>5, <1>6

LEMMA MkDirDone ==
  ASSUME DavInv, DavInv', Tidy, Progress, MkDir \/ MkDirFails
  PROVE  Tidy' /\ Progress'
<1>1. Same /\ pc = "mkdir" /\ stack # <<>>
  BY FaultAdds, WorkMeans DEF MkDir, MkDirFails, Same, SameRequest, request
<1>2. CASE stack' = Pop /\ retval' = ERR_FORBIDDEN /\ pc' = "return"
  BY <1>1, <1>2, TidyReturns, NotGoing DEF ERR_FORBIDDEN
<1>3. CASE /\ ~Present(Top.dst) /\ Set(Top.dst, Dir) /\ pc' = "opendir"
           /\ UNCHANGED <<stack, retval>>
  <2>1. Current' = Current /\ Closing' = Closing /\ Top' = Top
    BY <1>1, <1>3 DEF Current, Closing, Top
  <2>2. Tidy' /\ Waits' = Waits /\ Opens' = Opens  BY <1>1, <1>3, <2>1, TidySame
  <2>3. /\ Len(stack) \in 1 .. Len(stack) /\ Top = stack[Len(stack)] /\ Top \in Frame
    BY <1>1, WorkMeans, StackMeans
  <2>4. Top.src \in Under(S) /\ Top.dst = At(Top.src)
    BY <2>3 DEF DavInv, Frames, Frame
  <2>5. PICK c \in Under(S) : c = Top.src  BY <2>4
  <2>6. Current = {c}  BY <1>1, <2>5 DEF Current
  <2>7. tree' = [tree EXCEPT ![At(c)] = Dir] /\ tree \in [Paths -> Nodes] /\ Shape(tree)
    BY <1>3, <2>4, <2>5 DEF Set, DavInv, Types
  <2>8. \A r \in Under(S) : tree'[r] = tree[r]  BY <2>7, AtMeans
  <2>9. \A r \in Under(S) : r # c => tree'[At(r)] = tree[At(r)]  BY <2>7, AtMeans
  <2>10. ASSUME NEW q \in Under(c) \ {c} PROVE ~Present(At(q))'
    <3>1. q \in Under(S)  BY AtMeans, PathSeq, UnderLen, UnderOrder
    <3>2. At(q) \in Under(At(c)) \ {At(c)}  BY <3>1, AtNested, AtMeans
    <3>3. tree[At(q)].kind = "absent"
      BY <1>3, <2>4, <2>5, <2>7, <3>2, AtMeans DEF Shape, Present
    <3> QED  BY <2>9, <3>1, <3>3 DEF Present
  <2> SUFFICES ASSUME Clean' PROVE Progress'  BY <2>2 DEF Progress
  <2>11. Kept /\ Arrived /\ Gone /\ Room
    BY <1>1, CleanBefore DEF Progress, Going
  <2>12. Kept' /\ Arrived' /\ Gone' /\ \A e \in Waits' : ~Present(At(e))'
    BY <1>1, <2>1, <2>2, <2>6, <2>8, <2>9, <2>11, Filled
  <2>13. Room'  BY <1>3, <2>1, <2>5, <2>10, <2>12 DEF Room
  <2>14. Found'  BY <1>3 DEF Found
  <2> QED  BY <2>12, <2>13, <2>14 DEF Progress
<1> QED  BY <1>2, <1>3 DEF MkDir, MkDirFails, Return, Goto

LEMMA NodeIs ==
  ASSUME NEW n \in Nodes
  PROVE  (n.kind = "dir" => n = Dir) /\ (n.kind = "file" => n = File(n.data))
<1>1. n.kind = "dir" => n = Dir  BY DEF Nodes, Absent, Dir
<1>2. n.kind = "file" => n = File(n.data)  BY DEF Nodes, Absent, Dir, File
<1> QED  BY <1>1, <1>2

(* What waits in the frames under the top one.                             *)
Below == UNION {stack[k].todo : k \in 1 .. Len(stack) - 1}

LEMMA TopAlone ==
  ASSUME DavInv, Tidy, stack # <<>>
  PROVE  /\ Waits = Below \cup Top.todo
         /\ Below \cap Top.todo = {}
<1> DEFINE n == Len(stack)
<1>1. /\ n \in Nat /\ n >= 1 /\ n \in 1 .. n /\ Top = stack[n] /\ stack \in Seq(Frame)
  BY WorkMeans, StackMeans
<1>2. \A k \in 1 .. n : k = n \/ k \in 1 .. n - 1  BY <1>1
<1>3. \A k \in 1 .. n - 1 : k \in 1 .. n  BY <1>1
<1>4. Waits = Below \cup Top.todo  BY <1>1, <1>2, <1>3 DEF Waits, Below
<1>5. ASSUME NEW k \in 1 .. n - 1, NEW q \in stack[k].todo, q \in Top.todo PROVE FALSE
  <2>1. stack[k] \in Frame /\ stack[n] \in Frame /\ k \in 1 .. n
    BY <1>1, <1>3, ElementOfSeq
  <2>2. PICK s \in Under(S) : s = stack[k].src  BY <2>1 DEF Frame
  <2>3. PICK t \in Under(S) : t = Top.src  BY <1>1, <2>1 DEF Frame
  <2>4. stack[k].todo \subseteq Children(s) /\ Top.todo \subseteq Children(t)
    BY <1>1, <2>1, <2>2, <2>3 DEF DavInv, Frames
  <2>5. q \in Children(s) /\ q \in Children(t) /\ s \in Paths /\ t \in Paths
    BY <1>5, <2>4, AtMeans
  <2>6. q \in Under(s) /\ q # s  BY <2>5, ChildMeans
  <2>7. q \in Under(t) /\ q # t  BY <2>5, ChildMeans
  <2>8. s \in Under(t)
    BY <2>5, <2>7, ChildMeans
  <2>9. s \notin Under(t)  BY <1>1, <2>2, <2>3 DEF Tidy, Nested
  <2> QED  BY <2>8, <2>9
<1> QED  BY <1>4, <1>5 DEF Below

(* The top frame gets other entries to do.                                 *)
Restack(E) == [stack EXCEPT ![Len(stack)].todo = E]

LEMMA Restacked ==
  ASSUME DavInv, stack # <<>>, NEW E \in SUBSET Paths
  PROVE  /\ Restack(E) \in Seq(Frame) /\ Len(Restack(E)) = Len(stack)
         /\ Restack(E)[Len(stack)].todo = E
         /\ \A k \in 1 .. Len(stack) : Restack(E)[k].src = stack[k].src
         /\ \A k \in 1 .. Len(stack) - 1 : Restack(E)[k].todo = stack[k].todo
<1> DEFINE t == Restack(E)
           n == Len(stack)
           g == [Top EXCEPT !.todo = E]
<1>1. /\ n \in Nat /\ n >= 1 /\ n \in 1 .. n /\ Top = stack[n] /\ stack \in Seq(Frame)
      /\ Top \in Frame
  BY WorkMeans, StackMeans
<1>2. g \in Frame /\ g.src = Top.src /\ g.todo = E  BY <1>1 DEF Frame
<1>3. t = [stack EXCEPT ![n] = g]  BY <1>1 DEF Restack
<1> HIDE DEF g, t
<1>4. /\ t \in Seq(Frame) /\ Len(t) = n /\ t[n] = g
      /\ \A k \in 1 .. n : k # n => t[k] = stack[k]
  BY <1>1, <1>2, <1>3
<1>5. \A k \in 1 .. n : t[k].src = stack[k].src  BY <1>1, <1>2, <1>4
<1>6. \A k \in 1 .. n - 1 : k \in 1 .. n /\ k # n  BY <1>1
<1> QED  BY <1>2, <1>4, <1>5, <1>6 DEF t

LEMMA TopTakes ==
  ASSUME DavInv, stack # <<>>, NEW E \in SUBSET Paths,
         stack' = [stack EXCEPT ![Len(stack)].todo = E]
  PROVE  /\ Opens' = Opens /\ Waits' = Below \cup E /\ (Nested => Nested')
         /\ Top'.src = Top.src
<1> DEFINE n == Len(stack)
<1>1. n \in Nat /\ n >= 1 /\ n \in 1 .. n /\ Top = stack[n]  BY WorkMeans, StackMeans
<1>2. /\ Len(stack') = n /\ stack'[n].todo = E
      /\ \A k \in 1 .. n : stack'[k].src = stack[k].src
      /\ \A k \in 1 .. n - 1 : stack'[k].todo = stack[k].todo
  <2>1. stack' = Restack(E)  BY DEF Restack
  <2> QED  BY <2>1, Restacked
<1>3. \A k \in 1 .. n : k = n \/ k \in 1 .. n - 1  BY <1>1
<1>4. \A k \in 1 .. n - 1 : k \in 1 .. n  BY <1>1
<1>5. Opens' = Opens  BY <1>2 DEF Opens
<1>6. Waits' = Below \cup E
  <2>1. Waits' = UNION {stack'[k].todo : k \in 1 .. n}  BY <1>2 DEF Waits
  <2> QED  BY <1>1, <1>2, <1>3, <1>4, <2>1 DEF Below
<1>7. Nested => Nested'
  <2>1. \A k \in 1 .. n : \A j \in 1 .. k - 1 : j \in 1 .. n  BY <1>1
  <2> QED  BY <1>2, <2>1 DEF Nested
<1>8. Top'.src = Top.src  BY <1>1, <1>2 DEF Top
<1> QED  BY <1>5, <1>6, <1>7, <1>8

(* A listed directory: its entries are tasks of their own.                 *)
LEMMA OpenDirDone ==
  ASSUME DavInv, DavInv', Tidy, Progress, OpenDir \/ OpenDirFails
  PROVE  Tidy' /\ Progress'
<1>1. Same /\ pc = "opendir" /\ stack # <<>> /\ UNCHANGED <<tree, cp>>
  BY FaultAdds, WorkMeans DEF OpenDir, OpenDirFails, Same, SameRequest, request
<1>2. CASE OpenDirFails
  <2>1. stack' = Pop /\ pc' = "return" /\ retval' # 0
    BY <1>2 DEF OpenDirFails, Return, Goto, ERR_FILENOTFOUND, ERR_NOMEM
  <2> QED  BY <1>1, <2>1, TidyReturns, NotGoing
<1>3. CASE OpenDir
  <2> DEFINE E == Entries(Top.src)
  <2>1. stack' = [stack EXCEPT ![Len(stack)].todo = E] /\ pc' = "loop" /\ IsDir(Top.src)
    BY <1>3 DEF OpenDir, Goto
  <2>2. E \in SUBSET Paths  BY DEF Entries, Children, Under
  <2>3. PICK c \in Under(S) : c = Top.src  BY <1>1, WorkMeans
  <2>4. c \in Paths /\ c \in Under(c) /\ tree[c].kind = "dir"
    BY <2>1, <2>3, AtMeans, UnderOrder DEF IsDir
  <2>5. \A e \in E : /\ e \in Children(c) /\ tree[e].kind # "absent"
                     /\ e \in Under(c) /\ e # c /\ c \notin Under(e)
    <3> SUFFICES ASSUME NEW e \in E
                 PROVE  /\ e \in Children(c) /\ tree[e].kind # "absent"
                        /\ e \in Under(c) /\ e # c /\ c \notin Under(e)
      OBVIOUS
    <3>1. e \in Children(c) /\ tree[e].kind # "absent"  BY <2>3 DEF Entries, Present
    <3>2. e \in Paths /\ e \in Under(c) /\ e # c  BY <2>4, <3>1, ChildMeans
    <3> QED  BY <2>4, <3>1, <3>2, UnderOrder
  <2>6. Top.todo = {}  BY <1>1 DEF Tidy
  <2> HIDE DEF E
  <2>7. /\ Opens' = Opens /\ Waits' = Waits \cup E /\ Nested'
    BY <1>1, <2>1, <2>2, <2>6, TopTakes, TopAlone DEF Tidy
  <2>8. /\ Current' = {} /\ Closing' = {} /\ Current = {c} /\ Closing = {}
        /\ Tasks' = Waits \cup E /\ Tasks = Waits \cup {c}
    BY <1>1, <2>1, <2>3, <2>7 DEF Current, Closing, Tasks
  <2>9. Waits \subseteq Under(S) /\ E \subseteq Under(S) /\ c \notin Waits
    <3>1. \A e \in E : e \in Under(S)  BY <2>2, <2>4, <2>5, PathSeq, UnderOrder
    <3>2. Waits \subseteq Under(S)  BY WorkMeans
    <3>3. c \notin Waits  BY <2>8 DEF Tidy
    <3> QED  BY <3>1, <3>2, <3>3
  <2>10. ASSUME NEW w \in Waits, NEW e \in E PROVE w \notin Under(e) /\ e \notin Under(w)
    <3>1. w \in Tasks /\ c \in Tasks /\ w # c  BY <2>8, <2>9
    <3>2. e \in Under(c) /\ e \in Paths /\ w \in Paths  BY <2>2, <2>5, <2>9, AtMeans
    <3>3. e \notin Under(w)  BY <3>1, <3>2, TasksApart
    <3>4. w \in Under(w) /\ w \notin Under(c)  BY <3>1, <3>2, UnderOrder, TasksApart
    <3> QED  BY <2>4, <3>2, <3>3, <3>4, UnderOrder
  <2>11. ASSUME NEW e \in E, NEW f \in E, e # f PROVE e \notin Under(f)
    <3>1. /\ e \in Paths /\ f \in Paths /\ Len(e) = Len(c) + 1 /\ Len(f) = Len(c) + 1
      BY <2>4, <2>5, ChildMeans
    <3> QED  BY <2>11, <3>1, UnderLen
  <2>12. ASSUME NEW e \in E, NEW p \in Opens PROVE p \notin Under(e)
    <3>1. p = c \/ p \notin Under(c)
      <4>1. /\ Len(stack) \in Nat /\ Len(stack) \in 1 .. Len(stack)
            /\ Top = stack[Len(stack)]
        BY <1>1, WorkMeans, StackMeans
      <4>2. PICK k \in 1 .. Len(stack) : p = stack[k].src  BY DEF Opens
      <4>3. k = Len(stack) \/ k \in 1 .. Len(stack) - 1  BY <4>1
      <4> QED  BY <2>3, <4>1, <4>2, <4>3 DEF Tidy, Nested
    <3>2. p \in Paths /\ e \in Paths  BY <2>2, WorkMeans, AtMeans
    <3> QED  BY <2>4, <2>5, <3>1, <3>2, UnderOrder
  <2>13. Tidy'
    <3>1. \A e \in Tasks' : \A f \in Tasks' : e # f => e \notin Under(f)
      <4>1. \A e \in Waits : \A f \in Waits : e # f => e \notin Under(f)
        BY <2>8 DEF Tidy
      <4> QED  BY <2>8, <2>10, <2>11, <4>1
    <3>2. \A e \in Waits' : \A p \in Opens' \cup Closing' : p \notin Under(e)
      BY <2>7, <2>8, <2>12 DEF Tidy
    <3> QED  BY <2>1, <2>7, <2>8, <3>1, <3>2 DEF Tidy
  <2> SUFFICES ASSUME Clean' PROVE Progress'  BY <2>13 DEF Progress
  <2>14. Kept /\ Arrived /\ Gone /\ Room  BY <1>1, CleanBefore DEF Progress, Going
  <2>15. ASSUME NEW q \in Under(S)
         PROVE  /\ Pending(q)' => Pending(q)
                /\ Pending(q) /\ ~Pending(q)' =>
                     \/ q = c
                     \/ /\ tree[q] = Absent /\ orig[q] = Absent /\ tree[At(q)] = Absent
    <3>1. Pending(q)' => Pending(q)
      <4> SUFFICES ASSUME Pending(q)' PROVE Pending(q)  OBVIOUS
      <4>1. PICK e \in Waits \cup E : q \in Under(e)  BY <2>8 DEF Pending
      <4>2. CASE e \in Waits  BY <2>8, <4>1, <4>2 DEF Pending
      <4>3. CASE e \in E
        <5>1. q \in Under(c)
          BY <2>2, <2>4, <2>5, <4>1, <4>3, AtMeans, UnderOrder
        <5> QED  BY <2>8, <5>1 DEF Pending
      <4> QED  BY <4>2, <4>3
    <3>2. ASSUME Pending(q), ~Pending(q)', q # c
          PROVE  tree[q] = Absent /\ orig[q] = Absent /\ tree[At(q)] = Absent
      <4>1. q \in Under(c)  BY <2>8, <3>2 DEF Pending
      <4>2. PICK d \in Children(c) : q \in Under(d)  BY <3>2, <4>1, EntryToward
      <4>3. d \notin E  BY <2>8, <3>2, <4>2 DEF Pending
      <4>4. d \in Paths /\ tree[d].kind = "absent"
        BY <2>3, <2>4, <4>2, <4>3, ChildMeans DEF E, Entries, Present
      <4>5. q \in Paths /\ At(q) \in Paths /\ tree[q] \in Nodes /\ tree[At(q)] \in Nodes
        BY AtMeans DEF DavInv, Types
      <4>6. tree[q].kind = "absent"
        <5>1. CASE q = d  BY <4>4, <5>1
        <5>2. CASE q # d
          <6>1. tree[q].kind # "absent" => tree[d].kind = "dir"
            BY <4>2, <4>4, <5>2 DEF DavInv, Shape
          <6> QED  BY <4>4, <6>1
        <5> QED  BY <5>1, <5>2
      <4>7. tree[At(q)].kind = "absent"
        BY <1>1, <2>3, <2>14, <3>2, <4>1 DEF Room, Present
      <4>8. tree[q] = orig[q]  BY <2>14, <3>2 DEF Kept
      <4> QED  BY <4>5, <4>6, <4>7, <4>8, NodeMeans
    <3> QED  BY <3>1, <3>2
  <2>16. tree' = tree /\ orig' = orig /\ op' = op  BY <1>1 DEF Same, SameRequest
  <2>17. Kept'  BY <2>14, <2>15, <2>16 DEF Kept
  <2>18. orig[c] = Dir /\ tree[At(c)] = Dir /\ orig[S].kind # "absent"
    <3>1. Pending(c)  BY <2>4, <2>8 DEF Pending
    <3>2. tree[c] = orig[c]  BY <2>14, <3>1 DEF Kept
    <3>3. tree[c] \in Nodes /\ tree[At(c)] \in Nodes  BY AtMeans DEF DavInv, Types
    <3>4. tree[At(c)].kind = "dir"
      <4>1. /\ Len(stack) \in 1 .. Len(stack) /\ Top = stack[Len(stack)]
        BY <1>1, WorkMeans, StackMeans
      <4> QED  BY <1>1, <2>3, <4>1 DEF DavInv, Frames
    <3>5. orig[S].kind # "absent"
      <4>1. CASE c = S  BY <2>4, <3>2, <4>1
      <4>2. CASE c # S  BY <2>4, <3>2, <4>2, PathSeq DEF DavInv, Shape
      <4> QED  BY <4>1, <4>2
    <3>6. tree[c] = Dir  BY <2>4, <3>3, NodeIs
    <3>7. tree[At(c)] = Dir  BY <3>3, <3>4, NodeIs
    <3> QED  BY <3>2, <3>5, <3>6, <3>7
  <2>19. Arrived'
    <3> SUFFICES ASSUME NEW q \in Under(S), ~Pending(q)' PROVE tree[At(q)] = orig[q]
      BY <2>16 DEF Arrived, At
    <3>1. CASE Pending(q)  BY <2>15, <2>18, <3>1
    <3>2. CASE ~Pending(q)  BY <2>14, <3>2 DEF Arrived
    <3> QED  BY <3>1, <3>2
  <2>20. Gone'
    <3>1. UnlinkIgnored => UnlinkIgnored'  BY <1>1, CleanBefore
    <3>2. c \in Opens  BY <1>1, <2>3, WorkMeans
    <3> QED  BY <2>7, <2>8, <2>14, <2>15, <2>16, <3>1, <3>2 DEF Gone
  <2>21. Room'
    <3> SUFFICES ASSUME NEW e \in Waits' PROVE tree[At(e)].kind = "absent"
      BY <2>1, <2>16 DEF Room, Present, At
    <3>1. CASE e \in Waits  BY <2>14, <3>1 DEF Room, Present
    <3>2. CASE e \in E  BY <1>1, <2>3, <2>5, <2>14, <3>2 DEF Room, Present
    <3> QED  BY <2>7, <3>1, <3>2
  <2>22. Found'  BY <2>16, <2>18 DEF Found
  <2> QED  BY <2>17, <2>19, <2>20, <2>21, <2>22 DEF Progress
<1> QED  BY <1>2, <1>3

(* An entry is taken: a task that waited is worked on.                     *)
LEMMA NextEntryDone ==
  ASSUME DavInv, DavInv', Tidy, Progress, NEW q \in Paths, NextEntry(q)
  PROVE  Tidy' /\ Progress'
<1>1. /\ Same /\ pc = "loop" /\ stack # <<>> /\ q \in Top.todo /\ UNCHANGED tree
      /\ pc' \in {"mkdir", "filecopy"}
  BY WorkMeans DEF NextEntry, Same, SameRequest, request, Goto
<1> DEFINE n == Len(stack)
           r == Top.todo \ {q}
           rest == [stack EXCEPT ![n].todo = r]
<1>2. /\ n \in Nat /\ n >= 1 /\ n \in 1 .. n /\ Top = stack[n] /\ Top \in Frame
      /\ stack \in Seq(Frame)
  BY <1>1, WorkMeans, StackMeans
<1>3. r \in SUBSET Paths  BY <1>2 DEF Frame
<1>4. rest = [stack EXCEPT ![n].todo = @ \ {q}]  BY <1>2
<1>5. /\ rest \in Seq(Frame) /\ Len(rest) = n /\ rest[n].todo = r
      /\ \A k \in 1 .. n : rest[k].src = stack[k].src
      /\ \A k \in 1 .. n - 1 : rest[k].todo = stack[k].todo
  <2>1. rest = Restack(r)  BY DEF Restack
  <2> HIDE DEF r, rest
  <2> QED  BY <1>1, <1>3, <2>1, Restacked
<1>6. Waits = Below \cup Top.todo /\ Below \cap Top.todo = {}  BY <1>1, TopAlone
<1>7. Below \cup r = Waits \ {q} /\ q \in Waits /\ q \in Under(S)
  BY <1>1, <1>6, WorkMeans
<1>8. Current = {} /\ Closing = {} /\ Closing' = {} /\ Tasks = Waits
  BY <1>1 DEF Current, Closing, Tasks
<1>9. /\ Opens' \subseteq Opens \cup {q} /\ Opens \subseteq Opens' /\ Waits' = Waits \ {q}
      /\ Nested' /\ Current' = {q} /\ (pc' = "mkdir" => Top'.todo = {})
      /\ pc' = "filecopy" => cp'.src = q
  <2>1. CASE ~IsDir(q)
    <3>1. stack' = rest /\ pc' = "filecopy" /\ cp'.src = q
      BY <1>4, <2>1 DEF NextEntry, Goto
    <3>2. Opens' = Opens /\ Waits' = Below \cup r /\ Nested'
      BY <1>1, <1>3, <3>1, TopTakes DEF Tidy
    <3> QED  BY <1>7, <3>1, <3>2 DEF Current
  <2>2. CASE IsDir(q)
    <3> DEFINE f == [src |-> q, dst |-> Rebase(q, Top.src, Top.dst), todo |-> {}]
    <3>1. stack' = Append(rest, f) /\ pc' = "mkdir"
      BY <1>4, <2>2 DEF NextEntry, Goto
    <3>2. f.src = q /\ f.todo = {}  OBVIOUS
    <3> HIDE DEF f, rest
    <3>3. /\ Len(stack') = n + 1 /\ stack'[n + 1] = f
          /\ \A k \in 1 .. n : stack'[k] = rest[k]
      BY <1>2, <1>5, <3>1
    <3>4. /\ \A k \in 1 .. n + 1 : k = n + 1 \/ k \in 1 .. n
          /\ \A k \in 1 .. n : k \in 1 .. n + 1 /\ (k = n \/ k \in 1 .. n - 1)
          /\ \A k \in 1 .. n - 1 : k \in 1 .. n
          /\ n + 1 \in 1 .. n + 1
      BY <1>2
    <3> HIDE DEF n, r
    <3>5. Opens' = {stack'[k].src : k \in 1 .. n + 1} /\ Opens = {stack[k].src : k \in 1 .. n}
      BY <3>3 DEF Opens, n
    <3>6. Opens' = Opens \cup {q}
      <4>1. \A k \in 1 .. n : stack'[k].src = stack[k].src  BY <1>5, <3>3
      <4>2. stack'[n + 1].src = q  BY <3>2, <3>3
      <4> QED  BY <3>4, <3>5, <4>1, <4>2
    <3>7. Waits' = Below \cup r
      <4>1. Waits' = UNION {stack'[k].todo : k \in 1 .. n + 1}  BY <3>3 DEF Waits
      <4>2. \A k \in 1 .. n - 1 : stack'[k].todo = stack[k].todo  BY <1>5, <3>3, <3>4
      <4>3. stack'[n].todo = r /\ stack'[n + 1].todo = {}  BY <1>2, <1>5, <3>2, <3>3
      <4>4. Below = UNION {stack[k].todo : k \in 1 .. n - 1}  BY DEF Below, n
      <4> QED  BY <1>2, <3>4, <4>1, <4>2, <4>3, <4>4
    <3>8. Nested'
      <4> SUFFICES ASSUME NEW k \in 1 .. n + 1, NEW j \in 1 .. k - 1
                   PROVE  stack'[j].src \notin Under(stack'[k].src)
        BY <3>3 DEF Nested
      <4>1. j \in 1 .. n  BY <1>2
      <4>2. stack'[j].src = stack[j].src  BY <1>5, <3>3, <4>1
      <4>3. CASE k = n + 1
        <5>1. stack[j].src \in Opens  BY <3>5, <4>1
        <5> QED  BY <1>7, <3>2, <3>3, <4>2, <4>3, <5>1 DEF Tidy
      <4>4. CASE k \in 1 .. n
        <5>1. stack'[k].src = stack[k].src  BY <1>5, <3>3, <4>4
        <5>2. stack[j].src \notin Under(stack[k].src)  BY <4>4 DEF Tidy, Nested, n
        <5> QED  BY <4>2, <5>1, <5>2
      <4> QED  BY <3>4, <4>3, <4>4
    <3>9. Top' = f  BY <3>3 DEF Top
    <3> QED  BY <1>7, <3>1, <3>2, <3>6, <3>7, <3>8, <3>9 DEF Current
  <2> QED  BY <2>1, <2>2
<1> HIDE DEF n, r, rest
<1>10. Tasks' = Tasks  BY <1>7, <1>8, <1>9 DEF Tasks
<1>11. Tidy'
  <2>1. \A e \in Waits' : \A p \in Opens' \cup Closing' : p \notin Under(e)
    <3> SUFFICES ASSUME NEW e \in Waits', NEW p \in Opens' PROVE p \notin Under(e)
      BY <1>8
    <3>1. e \in Waits /\ e # q /\ e \in Tasks /\ q \in Tasks  BY <1>7, <1>8, <1>9
    <3>2. CASE p = q  BY <3>1, <3>2 DEF Tidy
    <3>3. CASE p \in Opens  BY <3>1, <3>3 DEF Tidy
    <3> QED  BY <1>9, <3>2, <3>3
  <2>2. \A e \in Tasks' : \A f \in Tasks' : e # f => e \notin Under(f)
    BY <1>10 DEF Tidy
  <2>3. pc' \in {"mkdir", "opendir"} => (Top.todo)' = {}  BY <1>1, <1>9
  <2> QED  BY <1>9, <2>1, <2>2, <2>3 DEF Tidy
<1> SUFFICES ASSUME Clean' PROVE Progress'  BY <1>11 DEF Progress
<1>12. Kept /\ Arrived /\ Gone /\ Room  BY <1>1, CleanBefore DEF Progress, Going
<1>13. tree' = tree /\ orig' = orig /\ op' = op  BY <1>1 DEF Same, SameRequest
<1>14. \A p : Pending(p)' <=> Pending(p)  BY <1>10 DEF Pending
<1>15. Kept' /\ Arrived'  BY <1>12, <1>13, <1>14 DEF Kept, Arrived, At
<1>16. Gone'
  <2>1. UnlinkIgnored => UnlinkIgnored'  BY <1>1, CleanBefore
  <2> QED  BY <1>8, <1>9, <1>12, <1>13, <1>14, <2>1 DEF Gone
<1>17. Room'
  <2>1. \A e \in Waits' : ~Present(At(e))'
    BY <1>9, <1>12, <1>13 DEF Room, Present, At
  <2>2. ASSUME pc' = "filecopy" PROVE Len(tree'[cp'.dst].data) <= Len(orig'[cp'.src].data)
    <3>1. cp'.src = q /\ cp'.dst = At(q)
      <4>1. cp'.dst = At(cp'.src)  BY DEF DavInv, Copying, At
      <4> QED  BY <1>9, <2>2, <4>1
    <3>2. tree[At(q)].kind = "absent"  BY <1>7, <1>12 DEF Room, Present
    <3>3. tree[At(q)] \in Nodes /\ orig[q] \in Nodes  BY <1>7, AtMeans DEF DavInv, Types
    <3>4. tree[At(q)].data = <<>> /\ orig[q].data \in Seq(Blocks)
      BY <3>2, <3>3, NodeMeans
    <3>5. Len(tree[At(q)].data) = 0 /\ Len(orig[q].data) \in Nat
      BY <3>4, EmptySeq, LenProperties
    <3> QED  BY <1>13, <3>1, <3>5
  <2> QED  BY <1>1, <2>1, <2>2 DEF Room
<1>18. Found'  BY <1>1 DEF Found
<1> QED  BY <1>15, <1>16, <1>17, <1>18 DEF Progress

(* A directory is done.                                                    *)
LEMMA LoopEndsDone ==
  ASSUME DavInv, DavInv', Tidy, Progress, LoopEnds \/ RmDirFails
  PROVE  Tidy' /\ Progress'
<1>1. Same /\ pc = "loop" /\ stack # <<>> /\ stack' = Pop /\ pc' = "return" /\ Top.todo = {}
  BY FaultAdds, WorkMeans
  DEF LoopEnds, RmDirFails, Same, SameRequest, request, Return, Goto
<1>2. Tidy' /\ Current' = {} /\ Closing' = {}  BY <1>1, TidyReturns
<1> SUFFICES ASSUME Clean', retval' = 0 PROVE Progress'
  BY <1>1, <1>2, NotGoing DEF Progress
<1>3. LoopEnds  BY DEF RmDirFails, Return
<1>4. /\ Waits' = Waits /\ Opens' \subseteq Opens /\ Opens \subseteq Opens' \cup {Top.src}
  BY <1>1, Popped
<1>5. Current = {} /\ Closing = {} /\ Tasks = Waits /\ Tasks' = Waits
  BY <1>1, <1>2, <1>4 DEF Current, Closing, Tasks
<1>6. \A p : Pending(p)' <=> Pending(p)  BY <1>5 DEF Pending
<1>7. Kept /\ Arrived /\ Gone /\ Room /\ Found
  BY <1>1, CleanBefore DEF Progress, Going
<1>8. orig' = orig /\ op' = op  BY <1>1 DEF Same, SameRequest
<1>9. PICK c \in Under(S) : c = Top.src  BY <1>1, WorkMeans
<1>10. /\ tree' = tree \/ tree' = [tree EXCEPT ![c] = Absent]
       /\ op.method = "MOVE" => tree' = [tree EXCEPT ![c] = Absent]
  BY <1>3, <1>9 DEF LoopEnds, Set, Return
<1>11. tree \in [Paths -> Nodes]  BY DEF DavInv, Types
<1>12. \A q \in Under(S) : q # c => tree'[q] = tree[q]  BY <1>10, <1>11, AtMeans
<1>13. \A q \in Under(S) : tree'[At(q)] = tree[At(q)]  BY <1>10, <1>11, AtMeans
<1>14. ~Pending(c)
  <2>1. c \in Opens  BY <1>1, <1>9, WorkMeans
  <2> QED  BY <1>5, <2>1 DEF Pending, Tidy
<1>15. Kept'
  <2> SUFFICES ASSUME NEW q \in Under(S), Pending(q) PROVE tree'[q] = orig'[q]
    BY <1>6 DEF Kept
  <2>1. q # c  BY <1>14
  <2> QED  BY <1>7, <1>8, <1>12, <2>1 DEF Kept
<1>16. Arrived'  BY <1>6, <1>7, <1>8, <1>13 DEF Arrived, At
<1>17. Gone'
  <2> SUFFICES ASSUME op.method = "MOVE", NEW q \in Under(S), ~Pending(q), q \notin Opens'
               PROVE  UnlinkIgnored' \/ tree'[q] = Absent
    BY <1>2, <1>6, <1>8 DEF Gone
  <2>1. CASE q = c
    <3>1. c \in Paths  BY AtMeans
    <3> QED  BY <1>10, <1>11, <2>1, <3>1
  <2>2. CASE q # c
    <3>1. q \notin Opens \cup Closing  BY <1>4, <1>5, <1>9, <2>2
    <3>2. UnlinkIgnored => UnlinkIgnored'  BY <1>1, CleanBefore
    <3>3. UnlinkIgnored \/ tree[q] = Absent  BY <1>7, <3>1 DEF Gone
    <3> QED  BY <1>12, <2>2, <3>2, <3>3
  <2> QED  BY <2>1, <2>2
<1>18. Room'
  <2>1. \A e \in Waits : ~Present(At(e))'
    <3>1. \A e \in Waits : e \in Under(S)  BY WorkMeans
    <3> QED  BY <1>7, <1>13, <3>1 DEF Room, Present, At
  <2> QED  BY <1>1, <1>4, <2>1 DEF Room
<1>19. Found'  BY <1>1, <1>7, <1>8 DEF Found
<1> QED  BY <1>15, <1>16, <1>17, <1>18, <1>19 DEF Progress

(* A file of the source that is there was there, and so was S.             *)
LEMMA SourceFound ==
  ASSUME DavInv, Transfer, NEW q \in Under(S), tree[q].kind # "absent"
  PROVE  tree[q] = orig[q] /\ orig[S].kind # "absent"
<1>1. tree[q] = orig[q]  BY NodeMeans DEF DavInv, SourceShrinks
<1>2. CASE q = S  BY <1>1, <1>2
<1>3. CASE q # S  BY <1>1, <1>3, PathSeq DEF DavInv, Shape
<1> QED  BY <1>1, <1>2, <1>3

(* The file that is being copied.                                          *)
LEMMA FileMeans ==
  ASSUME DavInv, Tidy, pc \in {"filecopy", "copy"}
  PROVE  /\ Transfer /\ Current = {cp.src} /\ Closing = {} /\ Tasks = Waits \cup {cp.src}
         /\ \A e \in Waits : e # cp.src /\ \A q \in Under(e) : q \notin Under(cp.src)
         /\ \A q \in Under(cp.src) : q \in Under(S) /\ Pending(q)
         /\ \A q : ~Pending(q) => q # cp.src
<1>1. Transfer /\ cp.src \in Under(S)  BY WorkMeans DEF DavInv, Control
<1>2. Current = {cp.src} /\ Closing = {} /\ Tasks = Waits \cup {cp.src}
  BY DEF Current, Closing, Tasks
<1>3. \A e \in Waits : e # cp.src  BY <1>2 DEF Tidy
<1>4. ASSUME NEW e \in Waits, NEW q \in Under(e) PROVE q \notin Under(cp.src)
  <2>1. e \in Tasks /\ cp.src \in Tasks /\ e # cp.src  BY <1>2, <1>3
  <2> QED  BY <2>1, TasksApart
<1>5. \A q \in Under(cp.src) : q \in Under(S)
  BY <1>1, AtMeans, PathSeq, UnderLen, UnderOrder
<1>6. \A q \in Under(cp.src) : Pending(q)  BY <1>2 DEF Pending
<1>7. cp.src \in Under(cp.src)  BY <1>1, AtMeans, UnderOrder
<1> QED  BY <1>1, <1>2, <1>3, <1>4, <1>5, <1>6, <1>7

(* What was worked on has arrived as it was, and the rest is as before.    *)
LEMMA TaskEnds ==
  ASSUME DavInv, Tidy, Same, Kept, Arrived, Gone, Room, pc \in {"filecopy", "copy"},
         stack' = stack, pc' \in {"return", "unlink"}, cp' = cp,
         \A q \in Under(S) : q \notin Under(cp.src) =>
            tree'[q] = tree[q] /\ tree'[At(q)] = tree[At(q)],
         \A q \in Under(cp.src) : tree'[At(q)] = orig[q],
         op.method = "MOVE" => \A q \in Under(cp.src) :
            tree'[q] = Absent \/ (pc' = "unlink" /\ q = cp.src)
  PROVE  Tidy' /\ Kept' /\ Arrived' /\ Gone' /\ Room'
<1>1. /\ Current = {cp.src} /\ Closing = {} /\ Tasks = Waits \cup {cp.src}
      /\ \A e \in Waits : e # cp.src /\ \A q \in Under(e) : q \notin Under(cp.src)
      /\ \A q \in Under(cp.src) : q \in Under(S) /\ Pending(q)
  BY FileMeans
<1>2. /\ Waits' = Waits /\ Opens' = Opens /\ (Nested => Nested')
  BY DEF Waits, Opens, Nested
<1>3. Current' = {} /\ Closing' \subseteq {cp.src} /\ (pc' = "unlink" => Closing' = {cp.src})
  BY DEF Current, Closing
<1>4. Tidy'  BY <1>1, <1>2, <1>3, TidyStays DEF Tidy
<1>5. Tasks' = Waits  BY <1>2, <1>3 DEF Tasks
<1>6. orig' = orig /\ op' = op  BY DEF Same, SameRequest
<1>7. \A q : Pending(q)' => Pending(q) /\ q \notin Under(cp.src)
  BY <1>1, <1>5 DEF Pending
<1>8. \A q : Pending(q) /\ q \notin Under(cp.src) => Pending(q)'
  BY <1>1, <1>5 DEF Pending
<1>9. Kept'  BY <1>6, <1>7 DEF Kept
<1>10. Arrived'
  <2> SUFFICES ASSUME NEW q \in Under(S), ~Pending(q)' PROVE tree'[At(q)] = orig[q]
    BY <1>6 DEF Arrived, At
  <2>1. CASE q \in Under(cp.src)  BY <2>1
  <2>2. CASE q \notin Under(cp.src)
    <3>1. ~Pending(q)  BY <1>8, <2>2
    <3> QED  BY <2>2, <3>1 DEF Arrived
  <2> QED  BY <2>1, <2>2
<1>11. Gone'
  <2> SUFFICES ASSUME op.method = "MOVE", NEW q \in Under(S), ~Pending(q)',
                      q \notin Opens' \cup Closing'
               PROVE  UnlinkIgnored' \/ tree'[q] = Absent
    BY <1>6 DEF Gone
  <2>1. CASE q \in Under(cp.src)  BY <1>3, <2>1
  <2>2. CASE q \notin Under(cp.src)
    <3>1. ~Pending(q) /\ q \notin Opens \cup Closing  BY <1>1, <1>2, <1>8, <2>2
    <3>2. UnlinkIgnored \/ tree[q] = Absent  BY <3>1 DEF Gone
    <3>3. UnlinkIgnored => UnlinkIgnored'  BY CleanBefore
    <3> QED  BY <2>2, <3>2, <3>3
  <2> QED  BY <2>1, <2>2
<1>12. Room'
  <2> SUFFICES ASSUME NEW e \in Waits PROVE ~Present(At(e))'
    BY <1>2 DEF Room
  <2>1. e \in Under(S) /\ e \in Under(e)  BY WorkMeans, AtMeans, UnderOrder
  <2>2. e \notin Under(cp.src)  BY <1>1, <2>1
  <2> QED  BY <2>1, <2>2 DEF Room, Present
<1> QED  BY <1>4, <1>9, <1>10, <1>11, <1>12

LEMMA FileRenameDone ==
  ASSUME DavInv, DavInv', Tidy, Progress, FileRename \/ FileRenameFails
  PROVE  Tidy' /\ Progress'
<1>1. Same /\ pc = "filecopy" /\ stack' = stack /\ pc' = "return" /\ cp' = cp
  BY FaultAdds DEF FileRename, FileRenameFails, Same, SameRequest, request, Return, Goto
<1>2. Tidy'  BY <1>1, TidyReturns
<1> SUFFICES ASSUME Clean', retval' = 0 PROVE Progress'
  BY <1>1, <1>2, NotGoing DEF Progress
<1>3. Present(cp.src) /\ tree' = Moved(cp.src, cp.dst)
  BY DEF FileRename, FileRenameFails, Return
<1>4. Kept /\ Arrived /\ Gone /\ Room  BY <1>1, CleanBefore DEF Progress, Going
<1>5. /\ cp.src \in Under(S) /\ cp.dst = At(cp.src) /\ Transfer
      /\ \A q \in Under(cp.src) : q \in Under(S) /\ Pending(q)
  BY <1>1, FileMeans, WorkMeans
<1>6. PICK c \in Under(S) : c = cp.src  BY <1>5
<1>7. tree \in [Paths -> Nodes]  BY DEF DavInv, Types
<1>8. /\ \A q \in Under(S) : tree'[q] = IF q \in Under(c) THEN Absent ELSE tree[q]
      /\ \A q \in Under(S) : tree'[At(q)] = IF q \in Under(c) THEN tree[q] ELSE tree[At(q)]
  <2>1. tree' = Moved(c, At(c))  BY <1>3, <1>5, <1>6
  <2> QED  BY <1>7, <2>1, MovedMeans
<1>9. \A q \in Under(c) : tree'[q] = Absent /\ tree'[At(q)] = orig[q]
  BY <1>4, <1>5, <1>6, <1>8 DEF Kept
<1>10. Kept' /\ Arrived' /\ Gone' /\ Room'
  BY <1>1, <1>4, <1>6, <1>8, <1>9, TaskEnds
<1>11. Found'
  <2>1. orig[S].kind # "absent"  BY <1>3, <1>5, <1>6, SourceFound DEF Present
  <2> QED  BY <1>1, <2>1 DEF Found, Same, SameRequest
<1> QED  BY <1>10, <1>11 DEF Progress

(* file_copy has opened both files.                                        *)
LEMMA CopyOpensDone ==
  ASSUME DavInv, DavInv', Tidy, Progress, CopyOpens \/ OpenFails
  PROVE  Tidy' /\ Progress'
<1>1. Same /\ pc = "filecopy" /\ stack' = stack /\ cp' = cp
  BY FaultAdds DEF CopyOpens, OpenFails, Same, SameRequest, request
<1>2. CASE pc' = "return" /\ retval' # 0
  BY <1>1, <1>2, TidyReturns, NotGoing
<1>3. CASE CopyOpens /\ pc' = "copy" /\ ~IsDir(cp.dst) /\ Present(cp.src)
           /\ IF Present(cp.dst) THEN UNCHANGED tree ELSE Set(cp.dst, File(<<>>))
  <2>1. Current' = Current /\ Closing' = Closing /\ Current' = {cp.src}
    BY <1>1, <1>3 DEF Current, Closing
  <2>2. Tidy' /\ Waits' = Waits /\ Opens' = Opens  BY <1>1, <1>3, <2>1, TidySame
  <2> SUFFICES ASSUME Clean' PROVE Progress'  BY <2>2 DEF Progress
  <2>3. Kept /\ Arrived /\ Gone /\ Room  BY <1>1, CleanBefore DEF Progress, Going
  <2>4. cp.src \in Under(S) /\ cp.dst = At(cp.src) /\ Transfer
    BY <1>1, FileMeans, WorkMeans
  <2>5. PICK c \in Under(S) : c = cp.src  BY <2>4
  <2>6. tree \in [Paths -> Nodes] /\ orig \in [Paths -> Nodes]  BY DEF DavInv, Types
  <2>7. tree' = tree \/ tree' = [tree EXCEPT ![At(c)] = File(<<>>)]
    BY <1>3, <2>4, <2>5 DEF Set
  <2>8. \A r \in Under(S) : tree'[r] = tree[r]  BY <2>6, <2>7, AtMeans
  <2>9. \A r \in Under(S) : r # c => tree'[At(r)] = tree[At(r)]  BY <2>6, <2>7, AtMeans
  <2>10. Kept' /\ Arrived' /\ Gone' /\ \A e \in Waits' : ~Present(At(e))'
    BY <1>1, <2>1, <2>2, <2>3, <2>5, <2>8, <2>9, Filled
  <2>11. ByCopy' => Len(tree'[At(c)].data) <= Len(orig[c].data)
    <3>1. CASE tree' = tree
      BY <1>1, <2>3, <2>4, <2>5, <3>1, CleanBefore DEF Room
    <3>2. CASE tree' = [tree EXCEPT ![At(c)] = File(<<>>)]
      <4>1. At(c) \in Paths /\ c \in Paths  BY AtMeans
      <4>2. tree'[At(c)].data = <<>>  BY <2>6, <3>2, <4>1, EmptySeq, NodeMeans
      <4>3. orig[c].data \in Seq(Blocks)  BY <2>6, <4>1, NodeMeans
      <4> QED  BY <4>2, <4>3, EmptySeq, LenProperties
    <3> QED  BY <2>7, <3>1, <3>2
  <2>12. Room'
    <3>1. cp'.src = c /\ cp'.dst = At(c) /\ orig' = orig
      BY <1>1, <2>4, <2>5 DEF Same, SameRequest
    <3> QED  BY <1>3, <2>10, <2>11, <3>1 DEF Room
  <2>13. Found'
    <3>1. orig[S].kind # "absent"  BY <1>3, <2>4, SourceFound DEF Present
    <3> QED  BY <1>1, <3>1 DEF Found, Same, SameRequest
  <2> QED  BY <2>10, <2>12, <2>13 DEF Progress
<1> QED
  BY <1>2, <1>3
  DEF CopyOpens, OpenFails, Return, Goto, ERR_FORBIDDEN, ERR_FILENOTFOUND, ERR_NOMEM

LEMMA WrittenLen ==
  ASSUME NEW b \in Seq(Blocks), NEW k \in Nat, k < Len(b) + 1, NEW x \in Blocks,
         NEW m \in Nat, k < m, Len(b) <= m
  PROVE  Len(Written(b, k + 1, x)) <= m /\ (Len(b) = m => Len(Written(b, k + 1, x)) = m)
<1> DEFINE n == IF Len(b) > k + 1 THEN Len(b) ELSE k + 1
           w == [i \in 1 .. n |-> IF i = k + 1 THEN x ELSE b[i]]
<1>1. Len(b) \in Nat  BY LenProperties
<1>2. n \in Nat /\ n <= m /\ (Len(b) = m => n = m)  BY <1>1
<1>3. \A i \in 1 .. n : i # k + 1 => i \in 1 .. Len(b)  BY <1>1
<1>4. \A i \in 1 .. n : (IF i = k + 1 THEN x ELSE b[i]) \in Blocks
  BY <1>3, ElementOfSeq
<1>5. Written(b, k + 1, x) = w  BY DEF Written
<1> HIDE DEF n
<1>6. Len(w) = n  BY <1>2, <1>4
<1> QED  BY <1>2, <1>5, <1>6

(* The file that is copied, as a sequence.                                 *)
LEMMA CopyMeans ==
  ASSUME DavInv, pc = "copy"
  PROVE  /\ cp.src \in Under(S) /\ cp.dst = At(cp.src) /\ Transfer /\ cp.pos \in Nat
         /\ cp.pos <= Len(tree[cp.src].data) /\ cp.pos <= Len(tree[At(cp.src)].data)
         /\ \A i \in 1 .. cp.pos : tree[At(cp.src)].data[i] = tree[cp.src].data[i]
         /\ tree[cp.src].data \in Seq(Blocks) /\ tree[At(cp.src)].data \in Seq(Blocks)
         /\ tree[cp.src] \in Nodes /\ tree[At(cp.src)] \in Nodes
         /\ tree[cp.src].kind = "file" /\ tree[At(cp.src)].kind = "file"
         /\ tree[cp.src] = orig[cp.src] /\ orig[S].kind # "absent"
         /\ Len(tree[cp.src].data) \in Nat /\ Len(tree[At(cp.src)].data) \in Nat
<1>1. cp.src \in Under(S) /\ cp.dst = At(cp.src) /\ Transfer /\ cp.pos \in Nat
  BY DEF DavInv, Types, Copying, Control
<1>2. tree[cp.src] \in Nodes /\ tree[At(cp.src)] \in Nodes
  BY <1>1, AtMeans DEF DavInv, Types
<1>3. /\ cp.pos <= Len(tree[cp.src].data) /\ cp.pos <= Len(tree[At(cp.src)].data)
      /\ \A i \in 1 .. cp.pos : tree[At(cp.src)].data[i] = tree[cp.src].data[i]
      /\ tree[cp.src].kind = "file" /\ tree[At(cp.src)].kind = "file"
  BY <1>1 DEF DavInv, Copying, Source
<1>4. tree[cp.src].data \in Seq(Blocks) /\ tree[At(cp.src)].data \in Seq(Blocks)
  BY <1>2, NodeMeans
<1>5. tree[cp.src] = orig[cp.src] /\ orig[S].kind # "absent"
  BY <1>1, <1>3, SourceFound
<1>6. Len(tree[cp.src].data) \in Nat /\ Len(tree[At(cp.src)].data) \in Nat
  BY <1>4, LenProperties
<1> QED  BY <1>1, <1>2, <1>3, <1>4, <1>5, <1>6

LEMMA CopyBlockDone ==
  ASSUME DavInv, DavInv', Tidy, Progress, CopyBlock
  PROVE  Tidy' /\ Progress'
<1>1. /\ Same /\ pc = "copy" /\ pc' = "copy" /\ stack' = stack
      /\ cp.pos < Len(Source) /\ cp' = [cp EXCEPT !.pos = @ + 1]
      /\ Set(cp.dst, File(Written(tree[cp.dst].data, cp.pos + 1, Source[cp.pos + 1])))
  BY DEF CopyBlock, Same, SameRequest, request
<1>2. cp'.src = cp.src /\ cp'.dst = cp.dst  BY <1>1 DEF DavInv, Types
<1>3. Current' = Current /\ Closing' = Closing /\ Current' = {cp.src}
  BY <1>1, <1>2 DEF Current, Closing
<1>4. Tidy' /\ Waits' = Waits /\ Opens' = Opens  BY <1>1, <1>3, TidySame
<1> SUFFICES ASSUME Clean' PROVE Progress'  BY <1>4 DEF Progress
<1>5. Kept /\ Arrived /\ Gone /\ Room  BY <1>1, CleanBefore DEF Progress, Going
<1>6. PICK c \in Under(S) : c = cp.src  BY <1>1, CopyMeans
<1> DEFINE k == cp.pos
           b == tree[At(c)].data
           x == tree[c].data[k + 1]
           w == Written(b, k + 1, x)
<1>7. /\ k \in Nat /\ k < Len(tree[c].data) /\ k <= Len(b) /\ cp.dst = At(c)
      /\ b \in Seq(Blocks) /\ tree[c].data \in Seq(Blocks)
      /\ Len(b) \in Nat /\ Len(tree[c].data) \in Nat
      /\ tree[c] = orig[c] /\ orig[S].kind # "absent"
  BY <1>1, <1>6, CopyMeans DEF Source
<1>8. x \in Blocks
  <2>1. k + 1 \in 1 .. Len(tree[c].data)  BY <1>7
  <2> QED  BY <1>7, <2>1, ElementOfSeq
<1>9. tree' = [tree EXCEPT ![At(c)] = File(w)]  BY <1>1, <1>6, <1>7 DEF Set, Source
<1>10. w \in Seq(Blocks)
  <2>1. k < Len(b) + 1  BY <1>7
  <2> HIDE DEF b, x, k
  <2> QED  BY <1>7, <1>8, <2>1, WrittenMeans
<1>11. Len(b) <= Len(tree[c].data) => Len(w) <= Len(tree[c].data)
  <2>1. k < Len(b) + 1  BY <1>7
  <2>2. PICK m \in Nat : m = Len(tree[c].data)  BY <1>7
  <2>3. k < m  BY <1>7, <2>2
  <2> HIDE DEF b, x, k
  <2> QED  BY <1>7, <1>8, <2>1, <2>2, <2>3, WrittenLen
<1> HIDE DEF w, b, x, k
<1>12. tree \in [Paths -> Nodes]  BY DEF DavInv, Types
<1>13. \A r \in Under(S) : tree'[r] = tree[r]  BY <1>9, <1>12, AtMeans
<1>14. \A r \in Under(S) : r # c => tree'[At(r)] = tree[At(r)]  BY <1>9, <1>12, AtMeans
<1>15. Kept' /\ Arrived' /\ Gone' /\ \A e \in Waits' : ~Present(At(e))'
  BY <1>1, <1>3, <1>4, <1>5, <1>6, <1>13, <1>14, Filled
<1>16. Room'
  <2>1. ByCopy' => Len(b) <= Len(tree[c].data)
    BY <1>1, <1>5, <1>6, <1>7, CleanBefore DEF Room, b
  <2>2. tree'[At(c)].data = w  BY <1>9, <1>10, <1>12, AtMeans, NodeMeans
  <2>3. cp'.src = c /\ cp'.dst = At(c) /\ orig' = orig
    BY <1>1, <1>2, <1>6, <1>7 DEF Same, SameRequest
  <2> QED  BY <1>1, <1>7, <1>11, <1>15, <2>1, <2>2, <2>3 DEF Room
<1>17. Found'  BY <1>1, <1>7 DEF Found, Same, SameRequest
<1> QED  BY <1>15, <1>16, <1>17 DEF Progress

(* The end of the file: the copy is the file.                              *)
LEMMA CopyEndsDone ==
  ASSUME DavInv, DavInv', Tidy, Progress, pc = "copy" => ByCopy,
         CopyWriteFails \/ CopyEnds \/ CopyReadFails
  PROVE  Tidy' /\ Progress'
<1>1. /\ Same /\ pc = "copy" /\ stack' = stack /\ cp' = cp /\ tree' = tree
      /\ pc' = "return" \/ (pc' = "unlink" /\ op.method = "MOVE")
  BY FaultAdds
  DEF CopyWriteFails, CopyEnds, CopyReadFails, Same, SameRequest, request, Copied, Return, Goto
<1>2. Current' = {} /\ Closing' \subseteq {cp.src} /\ Current = {cp.src}
  BY <1>1 DEF Current, Closing
<1>3. Waits' = Waits /\ Opens' = Opens /\ (Nested => Nested')
  BY <1>1 DEF Waits, Opens, Nested
<1>4. Tidy'  BY <1>1, <1>2, <1>3, TidyStays DEF Tidy
<1> SUFFICES ASSUME Clean', Going' PROVE Progress'  BY <1>4 DEF Progress
<1>5. CopyEnds
  <2>1. ~CopyReadFails  BY FaultAdds DEF CopyReadFails, Clean, ReadErrorIgnored
  <2>2. ~CopyWriteFails  BY DEF CopyWriteFails, Return, Goto, Going, ERR_BRKPIPE
  <2> QED  BY <2>1, <2>2
<1>6. Kept /\ Arrived /\ Gone /\ Room  BY <1>1, CleanBefore DEF Progress, Going
<1>7. PICK c \in Under(S) : c = cp.src  BY <1>1, CopyMeans
<1> DEFINE b == tree[At(c)].data
           s == tree[c].data
<1>8. /\ b \in Seq(Blocks) /\ s \in Seq(Blocks) /\ Len(b) \in Nat /\ Len(s) \in Nat
      /\ Len(s) <= Len(b) /\ \A i \in 1 .. Len(s) : b[i] = s[i]
      /\ tree[c] = orig[c] /\ orig[S].kind # "absent" /\ cp.dst = At(c)
      /\ tree[c] \in Nodes /\ tree[At(c)] \in Nodes
      /\ tree[c].kind = "file" /\ tree[At(c)].kind = "file" /\ c \in Paths /\ At(c) \in Paths
  <2>1. cp.pos = Len(s)  BY <1>5, <1>7 DEF CopyEnds, Source
  <2> QED  BY <1>1, <1>7, <2>1, CopyMeans, AtMeans
<1>9. Len(b) = Len(s)
  <2>1. Len(b) <= Len(s)  BY <1>1, <1>6, <1>7, <1>8 DEF Room
  <2> QED  BY <1>8, <2>1
<1>10. b = s  BY <1>8, <1>9, SeqEqual
<1>11. tree[At(c)] = orig[c]
  <2>1. tree[At(c)] = File(b) /\ tree[c] = File(s)  BY <1>8, NodeIs
  <2> QED  BY <1>8, <1>10, <2>1
<1>12. ASSUME NEW q \in Under(c), q # c
       PROVE  tree[q] = Absent /\ tree[At(q)] = orig[q]
  <2>1. q \in Under(S) /\ Pending(q)  BY <1>1, <1>7, FileMeans
  <2>2. q \in Paths /\ At(q) \in Under(At(c)) \ {At(c)} /\ At(q) \in Paths
    BY <1>12, <2>1, AtNested, AtMeans
  <2>3. tree[q] \in Nodes /\ tree[At(q)] \in Nodes  BY <2>2 DEF DavInv, Types
  <2>4. tree[q].kind = "absent" /\ tree[At(q)].kind = "absent"
    BY <1>8, <1>12, <2>2 DEF DavInv, Shape
  <2>5. tree[q] = Absent /\ tree[At(q)] = Absent  BY <2>3, <2>4, NodeMeans
  <2>6. tree[q] = orig[q]  BY <1>6, <2>1 DEF Kept
  <2> QED  BY <2>5, <2>6
<1>13. Kept' /\ Arrived' /\ Gone' /\ Room'
  <2>1. \A q \in Under(cp.src) : tree'[At(q)] = orig[q]  BY <1>1, <1>7, <1>11, <1>12
  <2>2. op.method = "MOVE" => pc' = "unlink"
    BY <1>5 DEF CopyEnds, Copied, Goto
  <2>3. op.method = "MOVE" => \A q \in Under(cp.src) :
            tree'[q] = Absent \/ (pc' = "unlink" /\ q = cp.src)
    BY <1>1, <1>7, <1>12, <2>2
  <2>4. \A q \in Under(S) : q \notin Under(cp.src) =>
            tree'[q] = tree[q] /\ tree'[At(q)] = tree[At(q)]
    BY <1>1
  <2> QED  BY <1>1, <1>6, <2>1, <2>3, <2>4, TaskEnds
<1>14. Found'  BY <1>1, <1>8 DEF Found, Same, SameRequest
<1> QED  BY <1>13, <1>14 DEF Progress

(* The source of a copied file is removed, or its removal fails unnoticed. *)
LEMMA UnlinkDone ==
  ASSUME DavInv, DavInv', Tidy, Progress, pc = "unlink" => ByCopy, UnlinkSource
  PROVE  Tidy' /\ Progress'
<1>1. /\ Same /\ pc = "unlink" /\ stack' = stack /\ cp' = cp /\ pc' = "return"
      /\ Set(cp.src, Absent) \/ (tree' = tree /\ Fault("unlink"))
  BY FaultAdds DEF UnlinkSource, Same, SameRequest, request, Return, Goto
<1>2. Tidy' /\ Current' = {} /\ Closing' = {}  BY <1>1, TidyReturns
<1> SUFFICES ASSUME Clean' PROVE Progress'  BY <1>2 DEF Progress
<1>3. Kept /\ Arrived /\ Gone /\ Room /\ Found  BY <1>1, CleanBefore DEF Progress, Going
<1>4. Waits' = Waits /\ Opens' = Opens  BY <1>1 DEF Waits, Opens
<1>5. Current = {} /\ Closing = {cp.src} /\ Tasks = Waits /\ Tasks' = Waits
  BY <1>1, <1>2, <1>4 DEF Current, Closing, Tasks
<1>6. \A q : Pending(q)' <=> Pending(q)  BY <1>5 DEF Pending
<1>7. PICK c \in Under(S) : c = cp.src  BY WorkMeans
<1>8. tree \in [Paths -> Nodes] /\ c \in Paths  BY AtMeans DEF DavInv, Types
<1>9. tree' = [tree EXCEPT ![c] = Absent] \/ (tree' = tree /\ Fault("unlink"))
  BY <1>1, <1>7 DEF Set
<1>10. \A q \in Under(S) : q # c => tree'[q] = tree[q]  BY <1>8, <1>9, AtMeans
<1>11. \A q \in Under(S) : tree'[At(q)] = tree[At(q)]  BY <1>8, <1>9, AtMeans
<1>12. ~Pending(c)  BY <1>5, <1>7 DEF Pending, Tidy
<1>13. orig' = orig /\ op' = op  BY <1>1 DEF Same, SameRequest
<1>14. Kept'
  <2> SUFFICES ASSUME NEW q \in Under(S), Pending(q) PROVE tree'[q] = orig'[q]
    BY <1>6 DEF Kept
  <2>1. q # c  BY <1>12
  <2> QED  BY <1>3, <1>10, <1>13, <2>1 DEF Kept
<1>15. Arrived'  BY <1>3, <1>6, <1>11, <1>13 DEF Arrived, At
<1>16. Gone'
  <2> SUFFICES ASSUME op.method = "MOVE", NEW q \in Under(S), ~Pending(q), q \notin Opens
               PROVE  UnlinkIgnored' \/ tree'[q] = Absent
    BY <1>2, <1>4, <1>6, <1>13 DEF Gone
  <2>1. CASE q = c
    <3>1. CASE Fault("unlink")
      BY <1>1, <3>1, FaultAdds DEF UnlinkIgnored, ByCopy, Same, SameRequest
    <3>2. CASE tree' = [tree EXCEPT ![c] = Absent]  BY <1>8, <2>1, <3>2
    <3> QED  BY <1>9, <3>1, <3>2
  <2>2. CASE q # c
    <3>1. UnlinkIgnored \/ tree[q] = Absent  BY <1>3, <1>5, <1>7, <2>2 DEF Gone
    <3>2. UnlinkIgnored => UnlinkIgnored'  BY <1>1, CleanBefore
    <3> QED  BY <1>10, <2>2, <3>1, <3>2
  <2> QED  BY <2>1, <2>2
<1>17. Room'
  <2>1. \A e \in Waits : ~Present(At(e))'
    <3>1. \A e \in Waits : e \in Under(S)  BY WorkMeans
    <3> QED  BY <1>3, <1>11, <3>1 DEF Room, Present, At
  <2> QED  BY <1>1, <1>4, <2>1 DEF Room
<1>18. Found'  BY <1>1, <1>3, <1>13 DEF Found
<1> QED  BY <1>14, <1>15, <1>16, <1>17, <1>18 DEF Progress

LEMMA ReturnDone ==
  ASSUME DavInv, DavInv', Tidy, Progress, ReturnToDir \/ ReturnToCopyMove
  PROVE  Tidy' /\ Progress'
<1>1. /\ Same /\ pc = "return" /\ tree' = tree /\ pc' \in {"loop", "return", "answer"}
      /\ stack' = stack \/ (stack # <<>> /\ stack' = Pop)
      /\ pc' = "return" => retval' # 0
      /\ pc' = "loop" => stack' = stack /\ retval = 0
  BY DEF ReturnToDir, ReturnToCopyMove, Same, SameRequest, request, Goto
<1>2. Tidy' /\ Current' = {} /\ Closing' = {}  BY <1>1, TidyReturns
<1> SUFFICES ASSUME Clean', pc' = "loop" PROVE Progress'
  BY <1>1, <1>2, NotGoing DEF Progress
<1>3. Kept /\ Arrived /\ Gone /\ Room /\ Found  BY <1>1, CleanBefore DEF Progress, Going
<1>4. Waits' = Waits /\ Opens' = Opens  BY <1>1 DEF Waits, Opens
<1>5. Current = {} /\ Closing = {} /\ Tasks' = Tasks
  BY <1>1, <1>2, <1>4 DEF Current, Closing, Tasks
<1>6. \A q : Pending(q)' <=> Pending(q)  BY <1>5 DEF Pending
<1>7. orig' = orig /\ op' = op  BY <1>1 DEF Same, SameRequest
<1>8. Kept' /\ Arrived'  BY <1>1, <1>3, <1>6, <1>7 DEF Kept, Arrived, At
<1>9. Gone'
  <2>1. UnlinkIgnored => UnlinkIgnored'  BY <1>1, CleanBefore
  <2> QED  BY <1>1, <1>2, <1>3, <1>4, <1>5, <1>6, <1>7, <2>1 DEF Gone
<1>10. Room'  BY <1>1, <1>3, <1>4 DEF Room, Present, At
<1>11. Found'  BY <1>1, <1>3, <1>7 DEF Found
<1> QED  BY <1>8, <1>9, <1>10, <1>11 DEF Progress

(* A transfer begins: all of the source is one task, or it is renamed.     *)
LEMMA BeginsDone ==
  ASSUME DavInv, DavInv', Tidy, Course, DirByCopy \/ TopFile
  PROVE  Tidy' /\ Progress'
<1>1. /\ Same /\ tree' = tree /\ pc \in {"dir", "file"} /\ pc' \in {"mkdir", "filecopy"}
      /\ tree = orig /\ stack = <<>> /\ orig' = orig /\ op' = op
  BY DEF DirByCopy, TopFile, Same, SameRequest, request, Goto, DavInv, Control
<1>2. S \in Under(S) /\ S \in Paths /\ D \in Paths /\ At(S) = D  BY AtRoot, PathSeq
<1>3. /\ Waits' = {} /\ Nested' /\ Current' = {S} /\ Closing' = {}
      /\ (pc' = "mkdir" => Top'.todo = {})
      /\ pc' = "filecopy" => cp'.src = S /\ cp'.dst = D /\ pc = "file"
  <2>1. CASE TopFile
    <3>1. stack' = <<>> /\ pc' = "filecopy" /\ cp' = NoCopy /\ pc = "file"
      BY <1>1, <2>1 DEF TopFile, Goto
    <3>2. Len(stack') = 0  BY <3>1, EmptySeq
    <3>3. Waits' = {} /\ Nested'  BY <3>2 DEF Waits, Nested
    <3> QED  BY <3>1, <3>3 DEF NoCopy, Current, Closing
  <2>2. CASE DirByCopy
    <3> DEFINE f == [src |-> S, dst |-> D, todo |-> {}]
    <3>1. stack' = <<f>> /\ pc' = "mkdir"  BY <2>2 DEF DirByCopy, Goto
    <3>2. f.src = S /\ f.todo = {}  OBVIOUS
    <3> HIDE DEF f
    <3>3. Len(stack') = 1 /\ stack'[1] = f  BY <3>1
    <3>4. Waits' = {}  BY <3>2, <3>3 DEF Waits
    <3>5. Nested'  BY <3>3 DEF Nested
    <3>6. Top' = f  BY <3>3 DEF Top
    <3> QED  BY <3>1, <3>2, <3>4, <3>5, <3>6 DEF Current, Closing
  <2> QED  BY <2>1, <2>2
<1>4. Tasks' = {S}  BY <1>3 DEF Tasks
<1>5. Tidy'
  <2>1. pc' \in {"mkdir", "opendir"} => (Top.todo)' = {}  BY <1>1, <1>3
  <2> QED  BY <1>3, <1>4, <2>1 DEF Tidy
<1> SUFFICES ASSUME Clean' PROVE Progress'  BY <1>5 DEF Progress
<1>6. \A q \in Under(S) : Pending(q)'  BY <1>4 DEF Pending
<1>7. Kept' /\ Arrived' /\ Gone'  BY <1>1, <1>6 DEF Kept, Arrived, Gone
<1>8. Room'
  <2>1. ASSUME pc' = "filecopy", ByCopy' PROVE Len(tree'[cp'.dst].data) <= Len(orig'[cp'.src].data)
    <3>1. cp'.src = S /\ cp'.dst = D /\ pc = "file" /\ ByCopy /\ Clean
      BY <1>1, <1>3, <2>1, CleanBefore
    <3>2. tree[D] \in Nodes /\ orig[S] \in Nodes  BY <1>2 DEF DavInv, Types
    <3>3. Len(tree[D].data) <= Len(orig[S].data)
      <4>1. tree[D].data \in Seq(Blocks) /\ orig[S].data \in Seq(Blocks)
        BY <3>2, NodeMeans
      <4>2. Len(tree[D].data) \in Nat /\ Len(orig[S].data) \in Nat  BY <4>1, LenProperties
      <4>3. CASE existed
        <5>1. ~(Len(orig[D].data) > Len(orig[S].data))
          BY <3>1, <4>3 DEF Clean, TailKept, ByCopy
        <5> QED  BY <1>1, <4>2, <5>1
      <4>4. CASE ~existed
        <5>1. orig[D].kind = "absent"  BY <3>1, <4>4 DEF Course
        <5>2. tree[D].data = <<>>  BY <1>1, <3>2, <5>1, NodeMeans
        <5> QED  BY <4>2, <5>2, EmptySeq
      <4> QED  BY <4>3, <4>4
    <3> QED  BY <1>1, <3>1, <3>3
  <2> QED  BY <1>1, <1>3, <2>1 DEF Room
<1>9. Found'  BY <1>1 DEF Found
<1> QED  BY <1>7, <1>8, <1>9 DEF Progress

LEMMA DirRenameDone ==
  ASSUME DavInv, DavInv', Tidy, DirByRename \/ DirRenameFails
  PROVE  Tidy' /\ Progress'
<1>1. /\ Same /\ pc = "dir" /\ pc' = "return" /\ stack' = stack /\ stack = <<>>
      /\ tree = orig /\ orig' = orig /\ op' = op
  BY FaultAdds
  DEF DirByRename, DirRenameFails, Same, SameRequest, request, Return, Goto, DavInv, Control
<1>2. Tidy' /\ Current' = {} /\ Closing' = {}  BY <1>1, TidyReturns
<1> SUFFICES ASSUME retval' = 0 PROVE Progress'  BY <1>1, <1>2, NotGoing
<1>3. Present(S) /\ tree' = Moved(S, D)  BY DEF DirByRename, DirRenameFails, Return
<1>4. S \in Under(S) /\ At(S) = D /\ tree \in [Paths -> Nodes]
  BY AtRoot DEF DavInv, Types
<1>5. \A q \in Under(S) : tree'[q] = Absent /\ tree'[At(q)] = orig[q]
  BY <1>1, <1>3, <1>4, MovedMeans
<1>6. Waits' = {} /\ Tasks' = {}
  <2>1. Waits = {} /\ Waits' = Waits  BY <1>1, WorkMeans DEF Waits
  <2> QED  BY <1>2, <2>1 DEF Tasks
<1>7. Kept' /\ Arrived' /\ Gone'
  BY <1>1, <1>5, <1>6 DEF Kept, Arrived, Gone, Pending, At
<1>8. Room'  BY <1>1, <1>6 DEF Room
<1>9. Found'  BY <1>1, <1>3 DEF Found, Present
<1> QED  BY <1>7, <1>8, <1>9 DEF Progress

(* Steps that do not carry out a transfer.                                 *)
LEMMA OthersDone ==
  ASSUME DavInv, Tidy,
         \/ CopyMove \/ CopyMoveRefused \/ Delete \/ Removed \/ MkCol \/ MkColFails
         \/ (\E q \in Paths : Remove(q) \/ RemoveSkips(q))
         \/ PutOpen \/ PutFails \/ PutBlock \/ PutWriteFails \/ PutEnds \/ Crash
  PROVE  Tidy' /\ Progress'
<1>1. /\ stack' = stack
      /\ pc' \in {"dir", "file", "return", "remove", "put", "answer", "crashed"}
      /\ pc' = "return" => retval' # 0
  <2>1. CASE \/ CopyMove \/ CopyMoveRefused \/ Delete \/ Removed \/ MkCol \/ MkColFails \/ Crash
    BY <2>1 DEF CopyMove, CopyMoveRefused, Delete, Removed, MkCol, MkColFails, Crash, Goto,
       Return, ERR_PRECONDITION_FAILED
  <2>2. CASE \E q \in Paths : Remove(q) \/ RemoveSkips(q)
    BY <2>2 DEF Remove, RemoveSkips
  <2>3. CASE PutOpen \/ PutFails \/ PutBlock \/ PutWriteFails \/ PutEnds
    BY <2>3 DEF PutOpen, PutFails, PutBlock, PutWriteFails, PutEnds, Goto
  <2> QED  BY <2>1, <2>2, <2>3
<1>2. Tidy'  BY <1>1, TidyReturns
<1>3. Progress'  BY <1>1, NotGoing
<1> QED  BY <1>2, <1>3

(* The course of a transfer.                                               *)
LEMMA CourseOfTransfer ==
  ASSUME DavInv, Course,
         \/ DirByCopy \/ DirByRename \/ DirRenameFails \/ TopFile
         \/ MkDir \/ MkDirFails \/ OpenDir \/ OpenDirFails
         \/ (\E q \in Paths : NextEntry(q)) \/ LoopEnds \/ RmDirFails
         \/ FileRename \/ FileRenameFails \/ CopyOpens \/ OpenFails \/ CopyBlock
         \/ CopyWriteFails \/ CopyEnds \/ CopyReadFails \/ UnlinkSource
         \/ ReturnToDir \/ ReturnToCopyMove
  PROVE  Course'
<1>1. SUFFICES /\ Same
               /\ pc' \notin {"dir", "file", "remove", "put"}
               /\ pc' \in {"mkdir", "opendir", "loop", "copy", "unlink"} \/ stack' # <<>>
                    => ByCopy
               /\ pc' = "return" => retval' <= 0 \/ RenameFailed'
  BY CleanBefore DEF Course
<1>2. CASE DirByCopy \/ TopFile
  BY <1>2
  DEF DirByCopy, TopFile, Same, SameRequest, request, Goto, ByCopy, Course, DavInv, Control
<1>3. CASE DirByRename \/ DirRenameFails
  <2>1. /\ Same /\ pc = "dir" /\ pc' = "return" /\ stack' = stack /\ op.method = "MOVE"
        /\ retval' = 0 \/ (retval' = 1 /\ tree' = tree)
        /\ orig' = orig /\ op' = op
    BY <1>3, FaultAdds
    DEF DirByRename, DirRenameFails, Same, SameRequest, request, Return, Goto
  <2>2. tree = orig /\ stack = <<>>  BY <2>1 DEF DavInv, Control
  <2> QED  BY <2>1, <2>2 DEF RenameFailed, OK_CREATED
<1>4. CASE MkDir \/ MkDirFails \/ OpenDir \/ OpenDirFails \/ LoopEnds \/ RmDirFails
  BY <1>4, FaultAdds
  DEF MkDir, MkDirFails, OpenDir, OpenDirFails, LoopEnds, RmDirFails, Same, SameRequest,
      request, Goto, Return, Course, ERR_FORBIDDEN, ERR_FILENOTFOUND, ERR_NOMEM
<1>5. CASE \E q \in Paths : NextEntry(q)
  BY <1>5 DEF NextEntry, Same, SameRequest, request, Goto, Course
<1>6. CASE FileRename \/ FileRenameFails \/ CopyOpens \/ OpenFails
  BY <1>6, FaultAdds
  DEF FileRename, FileRenameFails, CopyOpens, OpenFails, Same, SameRequest, request, Goto,
      Return, Course, ByCopy, ERR_FORBIDDEN, ERR_FILENOTFOUND, ERR_NOMEM
<1>7. CASE CopyBlock \/ CopyWriteFails \/ CopyEnds \/ CopyReadFails \/ UnlinkSource
  BY <1>7, FaultAdds
  DEF CopyBlock, CopyWriteFails, CopyEnds, CopyReadFails, UnlinkSource, Copied, Same,
      SameRequest, request, Goto, Return, Course, ERR_BRKPIPE
<1>8. CASE ReturnToDir \/ ReturnToCopyMove
  <2>1. /\ Same /\ pc = "return" /\ tree' = tree /\ orig' = orig /\ op' = op
        /\ pc' \in {"loop", "return", "answer"}
        /\ pc' = "return" => retval' = retval
        /\ pc' = "loop" \/ stack' # <<>> => stack # <<>>
    BY <1>8 DEF ReturnToDir, ReturnToCopyMove, Same, SameRequest, request, Goto
  <2> QED  BY <2>1 DEF Course, RenameFailed
<1> QED  BY <1>2, <1>3, <1>4, <1>5, <1>6, <1>7, <1>8

LEMMA SizedLen ==
  ASSUME NEW b \in Seq(Blocks), NEW n \in Nat
  PROVE  Len(Sized(b, n)) = n
<1>1. Len(b) \in Nat  BY LenProperties
<1>2. \A i \in 1 .. n : (IF i <= Len(b) THEN b[i] ELSE "zero") \in Blocks
  BY <1>1, ElementOfSeq, HolesAreBlocks
<1> QED  BY <1>2 DEF Sized

(* A PUT overwrites the file it has sized.                                 *)
LEMMA CourseOfPut ==
  ASSUME DavInv, DavInv', Course, PutOpen \/ PutFails \/ PutBlock \/ PutWriteFails \/ PutEnds
  PROVE  Course'
<1>1. /\ op' = op /\ op.method = "PUT" /\ pc' \in {"put", "answer"} /\ stack' = <<>>
  <2>1. op' = op /\ stack' = stack /\ pc' \in {"put", "answer"} /\ op.method = "PUT"
    BY DEF PutOpen, PutFails, PutBlock, PutWriteFails, PutEnds, request, Goto, Course
  <2> QED  BY <2>1 DEF DavInv, Control, Transfer
<1>2. ASSUME pc' = "put"
      PROVE  /\ Len(tree'[S].data) = Len(op.body)
             /\ \A i \in 1 .. cp'.pos : tree'[S].data[i] = op.body[i]
  <2>1. /\ S \in Paths /\ tree \in [Paths -> Nodes] /\ tree[S] \in Nodes
        /\ op.body \in Seq(Blocks) /\ cp.pos \in Nat
    BY PathSeq DEF DavInv, Types
  <2>2. tree[S].data \in Seq(Blocks) /\ Len(op.body) \in Nat /\ Len(tree[S].data) \in Nat
    BY <2>1, NodeMeans, LenProperties
  <2>3. CASE PutOpen
    <3> DEFINE b == Sized(tree[S].data, Len(op.body))
    <3>1. tree' = [tree EXCEPT ![S] = File(b)] /\ cp' = cp /\ cp = NoCopy
      BY <1>2, <2>3 DEF PutOpen, Goto, Set, DavInv, Control
    <3>2. b \in Seq(Blocks) /\ Len(b) = Len(op.body)  BY <2>2, SizedMeans, SizedLen
    <3> HIDE DEF b
    <3>3. tree'[S].data = b  BY <2>1, <3>1, <3>2, NodeMeans
    <3> QED  BY <3>1, <3>2, <3>3 DEF NoCopy
  <2>4. CASE PutBlock
    <3> DEFINE k == cp.pos
               b == tree[S].data
               x == op.body[k + 1]
               w == Written(b, k + 1, x)
    <3>1. /\ pc = "put" /\ k < Len(op.body) /\ cp' = [cp EXCEPT !.pos = k + 1]
          /\ tree' = [tree EXCEPT ![S] = File(w)]
      BY <2>4 DEF PutBlock, Set
    <3>2. Len(b) = Len(op.body) /\ \A i \in 1 .. k : b[i] = op.body[i]
      BY <3>1 DEF Course
    <3>3. k \in Nat /\ b \in Seq(Blocks) /\ k < Len(b) + 1 /\ x \in Blocks
      <4>1. k + 1 \in 1 .. Len(op.body)  BY <2>1, <2>2, <3>1
      <4>2. x \in Blocks  BY <2>1, <4>1, ElementOfSeq
      <4> QED  BY <2>1, <2>2, <3>1, <3>2, <4>2
    <3>4. cp'.pos = k + 1  BY <3>1 DEF DavInv, Types
    <3>5. k < Len(op.body) /\ Len(op.body) \in Nat  BY <2>2, <3>1
    <3>6. PICK m \in Nat : m = Len(op.body)  BY <3>5
    <3> HIDE DEF b, k, x
    <3>7. /\ w \in Seq(Blocks) /\ w[k + 1] = x /\ \A i \in 1 .. k : w[i] = b[i]
      BY <3>3, WrittenMeans
    <3>8. Len(w) = m
      <4>1. Len(b) = m /\ k < m /\ Len(b) <= m  BY <3>2, <3>5, <3>6
      <4> QED  BY <3>3, <4>1, WrittenLen
    <3> HIDE DEF w
    <3>9. tree'[S].data = w  BY <2>1, <3>1, <3>7, NodeMeans
    <3>10. \A i \in 1 .. k + 1 : i = k + 1 \/ i \in 1 .. k  BY <3>3
    <3>11. \A i \in 1 .. k + 1 : w[i] = op.body[i]  BY <3>2, <3>7, <3>10 DEF x
    <3> QED  BY <3>4, <3>6, <3>8, <3>9, <3>11
  <2> QED  BY <1>2, <2>3, <2>4 DEF PutFails, PutWriteFails, PutEnds, Goto
<1> QED  BY <1>1, <1>2 DEF Course

LEMMA CourseOfOthers ==
  ASSUME DavInv, Course,
         \/ CopyMove \/ CopyMoveRefused \/ Delete \/ Removed \/ MkCol \/ MkColFails
         \/ (\E q \in Paths : Remove(q) \/ RemoveSkips(q)) \/ Crash
  PROVE  Course'
<1>1. CASE CopyMove
  <2>1. /\ pc = "start" /\ pc' \in {"return", "dir", "file"} /\ stack' = stack
        /\ existed' = Present(D) /\ orig' = orig /\ crossdev' = crossdev /\ op' = op
        /\ pc' = "return" => retval' = ERR_PRECONDITION_FAILED
    BY <1>1 DEF CopyMove, request, Goto, Return
  <2>2. tree = orig /\ stack = <<>>  BY <2>1 DEF DavInv, Control
  <2> QED  BY <2>1, <2>2 DEF Course, Present, ERR_PRECONDITION_FAILED
<1>2. CASE Crash
  BY <1>2 DEF Crash, request, Goto, Course, ByCopy
<1>3. CASE CopyMoveRefused \/ Delete \/ Removed \/ MkCol \/ MkColFails
  BY <1>3
  DEF CopyMoveRefused, Delete, Removed, MkCol, MkColFails, request, Goto, Course, ByCopy
<1>4. CASE \E q \in Paths : Remove(q) \/ RemoveSkips(q)
  BY <1>4 DEF Remove, RemoveSkips, request, Course, ByCopy
<1> QED  BY <1>1, <1>2, <1>3, <1>4
-----------------------------------------------------------------------------
(* The answers.                                                            *)
LEMMA TransferAnswers ==
  ASSUME DavInv, Tidy, Progress, Course, ReturnToCopyMove
  PROVE  SuccessMeansDone'
<1>1. /\ Same /\ pc = "return" /\ stack = <<>> /\ UNCHANGED <<tree, orig, op>>
      /\ op.method \in {"COPY", "MOVE"} /\ (retval # 0 => retval' = retval)
  BY DEF ReturnToCopyMove, Same, SameRequest, request
<1> SUFFICES ASSUME Success', Clean', ~RenameFailed'
             PROVE  /\ orig[S].kind # "absent"
                    /\ \A q \in Under(S) : tree[At(q)] = orig[q]
                    /\ op.method = "MOVE" =>
                         UnlinkIgnored' \/ \A q \in Under(S) : tree[q].kind = "absent"
  BY <1>1 DEF SuccessMeansDone, Clean, Present, At
<1>2. retval = 0
  <2> SUFFICES ASSUME retval # 0 PROVE FALSE  OBVIOUS
  <2>1. retval' = retval /\ retval \in {1, 2}
    BY <1>1 DEF Success, OK_CREATED, OK_NOCONTENT
  <2>2. RenameFailed  BY <1>1, <2>1 DEF Course
  <2> QED  BY <1>1, <2>1, <2>2 DEF RenameFailed
<1>3. Kept /\ Arrived /\ Gone /\ Found
  BY <1>1, <1>2, CleanBefore DEF Progress, Going
<1>4. Opens = {} /\ Closing = {} /\ Tasks = {}
  BY <1>1, WorkMeans DEF Closing, Tasks, Current
<1>5. \A q : ~Pending(q)  BY <1>4 DEF Pending
<1>6. \A q \in Under(S) : tree[At(q)] = orig[q]  BY <1>3, <1>5 DEF Arrived
<1>7. op.method = "MOVE" => \A q \in Under(S) : UnlinkIgnored \/ tree[q] = Absent
  BY <1>3, <1>4, <1>5 DEF Gone
<1>8. UnlinkIgnored => UnlinkIgnored'  BY <1>1, CleanBefore
<1> QED  BY <1>1, <1>3, <1>6, <1>7, <1>8, NodeMeans DEF Found

LEMMA LocalAnswers ==
  ASSUME DavInv, DavInv', Course, pc' = "answer",
         \/ CopyMoveRefused \/ Delete \/ Removed \/ MkCol \/ MkColFails
         \/ PutOpen \/ PutFails \/ PutWriteFails \/ PutEnds
  PROVE  SuccessMeansDone'
<1> SUFFICES ASSUME Success' PROVE SuccessMeansDone'  BY DEF SuccessMeansDone
<1>1. retval' \in {1, 2}  BY DEF Success, OK_CREATED, OK_NOCONTENT
<1>2. Removed \/ MkCol \/ PutEnds
  BY <1>1
  DEF CopyMoveRefused, Delete, MkColFails, PutOpen, PutFails, PutWriteFails, Goto,
      ERR_NOTHTTP, ERR_FORBIDDEN, ERR_NOMEM, ERR_FILENOTFOUND, ERR_BRKPIPE,
      ERR_INSUFFICIENT_STORAGE
<1>3. CASE Removed
  <2>1. op' = op /\ op.method = "DELETE" /\ ~Present(S) /\ tree' = tree
    BY <1>1, <1>3 DEF Removed, request, Course, ERR_FORBIDDEN
  <2>2. ASSUME NEW q \in Under(S) PROVE tree[q].kind = "absent"
    <3>1. CASE q = S  BY <2>1, <3>1 DEF Present
    <3>2. CASE q # S
      <4>1. tree[q].kind # "absent" => tree[S].kind = "dir"
        BY <3>2, PathSeq DEF DavInv, Shape
      <4> QED  BY <2>1, <4>1 DEF Present
    <3> QED  BY <3>1, <3>2
  <2> QED  BY <2>1, <2>2 DEF SuccessMeansDone, Present
<1>4. CASE MkCol
  <2>1. op' = op /\ op.method = "MKCOL" /\ Set(S, Dir)
    BY <1>1, <1>4 DEF MkCol, request, ERR_NOT_ALLOWED
  <2>2. tree'[S] = Dir  BY <2>1, PathSeq DEF Set, DavInv, Types
  <2> QED  BY <2>1, <2>2, NodeMeans DEF SuccessMeansDone, IsDir
<1>5. CASE PutEnds
  <2>1. op' = op /\ pc = "put" /\ cp.pos = Len(op.body) /\ tree' = tree
    BY <1>5 DEF PutEnds, request
  <2>2. /\ op.method = "PUT" /\ Len(tree[S].data) = Len(op.body)
        /\ \A i \in 1 .. Len(op.body) : tree[S].data[i] = op.body[i]
    BY <2>1 DEF Course
  <2>3. tree[S] \in Nodes /\ op.body \in Seq(Blocks) /\ tree[S].kind = "file"
    BY <2>1, PathSeq DEF DavInv, Types, Control
  <2>4. tree[S].data \in Seq(Blocks) /\ tree[S] = File(tree[S].data)
    BY <2>3, NodeMeans, NodeIs
  <2>5. tree[S].data = op.body  BY <2>2, <2>3, <2>4, SeqEqual
  <2> QED  BY <2>1, <2>2, <2>4, <2>5 DEF SuccessMeansDone
<1> QED  BY <1>2, <1>3, <1>4, <1>5
-----------------------------------------------------------------------------
LEMMA DoneInductive == Spec => []DoneInv
<1>1. Init /\ DavInv => DoneInv
  <2> SUFFICES ASSUME Init, DavInv PROVE DoneInv  OBVIOUS
  <2>1. pc = "start" /\ stack = <<>>  BY DEF Init
  <2>2. Waits = {} /\ Current = {} /\ Closing = {} /\ Tasks = {}
    BY <2>1, WorkMeans DEF Current, Closing, Tasks
  <2>3. Nested
    <3>1. Len(stack) = 0  BY <2>1, EmptySeq
    <3> QED  BY <3>1 DEF Nested
  <2>4. Tidy  BY <2>1, <2>2, <2>3 DEF Tidy
  <2>5. Progress /\ Course /\ SuccessMeansDone
    BY <2>1 DEF Progress, Going, Course, SuccessMeansDone, Success
  <2> QED  BY <2>4, <2>5 DEF DoneInv
<1>2. DavInv /\ DavInv' /\ DoneInv /\ [Next]_vars => DoneInv'
  <2> SUFFICES ASSUME DavInv, DavInv', DoneInv, [Next]_vars PROVE DoneInv'  OBVIOUS
  <2>t. /\ Tidy /\ Progress /\ Course /\ (pc = "copy" => ByCopy) /\ (pc = "unlink" => ByCopy)
    BY DEF DoneInv, Course
  <2>1. CASE UNCHANGED vars
    <3>1. /\ Waits' = Waits /\ Opens' = Opens /\ Current' = Current /\ Closing' = Closing
          /\ Tasks' = Tasks /\ (Nested => Nested')
      BY <2>1 DEF vars, Waits, Opens, Current, Closing, Tasks, Top, Nested
    <3>2. \A q : Pending(q)' <=> Pending(q)  BY <3>1 DEF Pending
    <3>3. Tidy'  BY <2>1, <2>t, <3>1 DEF vars, Tidy, Top
    <3>4. Clean' = Clean /\ Going' = Going /\ ByCopy' = ByCopy /\ UnlinkIgnored' = UnlinkIgnored
      BY <2>1 DEF vars, Clean, ReadErrorIgnored, TailKept, Going, ByCopy, UnlinkIgnored
    <3>5. Progress'
      BY <2>1, <2>t, <3>1, <3>2, <3>4
      DEF vars, Progress, Kept, Arrived, Gone, Room, Found, Present, Top, At
    <3>6. Course'  BY <2>1, <2>t, <3>4 DEF vars, Course, RenameFailed
    <3>7. SuccessMeansDone'
      BY <2>1, <3>4
      DEF DoneInv, vars, SuccessMeansDone, Success, ReadErrorIgnored, TailKept, RenameFailed,
          UnlinkIgnored, Present, IsDir
    <3> QED  BY <3>3, <3>5, <3>6, <3>7 DEF DoneInv
  <2>2. ASSUME Next, ~UNCHANGED vars PROVE Tidy' /\ Progress'
    BY <2>2, <2>t, BeginsDone, DirRenameDone, OthersDone, MkDirDone, OpenDirDone,
       NextEntryDone, LoopEndsDone, FileRenameDone, CopyOpensDone, CopyBlockDone,
       CopyEndsDone, UnlinkDone, ReturnDone
    DEF Next, Ended
  <2>3. ASSUME Next, ~UNCHANGED vars PROVE Course'
    BY <2>3, <2>t, CourseOfTransfer, CourseOfPut, CourseOfOthers DEF Next, Ended
  <2>4. ASSUME Next, ~UNCHANGED vars PROVE SuccessMeansDone'
    <3>1. CASE pc' # "answer"  BY <3>1 DEF SuccessMeansDone, Success
    <3>2. CASE pc' = "answer" /\ ~ReturnToCopyMove
      <4>1. \/ CopyMoveRefused \/ Delete \/ Removed \/ MkCol \/ MkColFails
            \/ PutOpen \/ PutFails \/ PutWriteFails \/ PutEnds
        <5>1. ~(CopyMove \/ DirByCopy \/ DirByRename \/ DirRenameFails \/ TopFile
                \/ MkDir \/ MkDirFails \/ OpenDir \/ OpenDirFails)
          BY <3>2 DEF CopyMove, DirByCopy, DirByRename, DirRenameFails, TopFile, MkDir,
             MkDirFails, OpenDir, OpenDirFails, Goto, Return
        <5>2. ~((\E q \in Paths : NextEntry(q)) \/ LoopEnds \/ RmDirFails \/ FileRename
                \/ FileRenameFails \/ CopyOpens \/ OpenFails)
          BY <3>2 DEF NextEntry, LoopEnds, RmDirFails, FileRename, FileRenameFails,
             CopyOpens, OpenFails, Goto, Return
        <5>3. ~(CopyBlock \/ CopyWriteFails \/ CopyEnds \/ CopyReadFails \/ UnlinkSource
                \/ ReturnToDir)
          BY <3>2 DEF CopyBlock, CopyWriteFails, CopyEnds, CopyReadFails, UnlinkSource,
             ReturnToDir, Copied, Goto, Return
        <5>4. ~((\E q \in Paths : Remove(q) \/ RemoveSkips(q)) \/ PutBlock \/ Crash)
          BY <3>2 DEF Remove, RemoveSkips, PutBlock, Crash, Goto
        <5> QED  BY <2>4, <3>2, <5>1, <5>2, <5>3, <5>4 DEF Next, Ended
      <4> QED  BY <2>t, <3>2, <4>1, LocalAnswers
    <3>3. CASE ReturnToCopyMove  BY <2>t, <3>3, TransferAnswers
    <3> QED  BY <3>1, <3>2, <3>3
  <2> QED  BY <2>1, <2>2, <2>3, <2>4 DEF DoneInv
<1> QED  BY <1>1, <1>2, DavInductive, PTL DEF Spec

(* An answer of success means that the request was carried out, for every  *)
(* tree, every set of failures and every order of the entries: what COPY   *)
(* or MOVE promised is at the destination, down the tree and block by      *)
(* block; what MOVE or DELETE promised to take away is gone; the file of a *)
(* PUT is its body.  The four exceptions are named in the property.        *)
THEOREM SuccessIsDone == Spec => []SuccessMeansDone
<1>1. DoneInv => SuccessMeansDone  BY DEF DoneInv
<1> QED  BY <1>1, DoneInductive, PTL
=============================================================================

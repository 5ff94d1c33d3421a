----------------------------- MODULE MCDavTree ------------------------------
(* Small instances of the served tree: a source with a nested directory    *)
(* and files of one and two blocks, and destinations of every kind.        *)
EXTENDS DavTree, TLC

Op(m, o, b) == [method |-> m, over |-> o, body |-> b]

MCS == <<"s">>
MCD == <<"d">>
MCPaths == {<<r>> : r \in {"s", "d"}}
             \cup {<<r, n>> : r \in {"s", "d"}, n \in {"x", "y"}}
             \cup {<<r, "x", "z">> : r \in {"s", "d"}}

(* A tree with the nodes of function f and nothing else.                   *)
Of(f) == [p \in MCPaths |-> IF p \in DOMAIN f THEN f[p] ELSE Absent]

SourceFile == (MCS :> File(<<"a", "b">>))
SourceDir == (MCS :> Dir) @@ (<<"s", "x">> :> Dir) @@ (<<"s", "y">> :> File(<<"a">>))
               @@ (<<"s", "x", "z">> :> File(<<"a", "b">>))
LongFile == (MCD :> File(<<"c", "c", "c">>))
ShortFile == (MCD :> File(<<"c">>))
FullDir == (MCD :> Dir) @@ (<<"d", "x">> :> File(<<"c">>))

Nothing == Of(<<>>)
Sources == {Of(SourceFile), Of(SourceDir), Of(MCS :> Dir)}
OntoFile == {Of(SourceFile @@ LongFile), Of(SourceFile @@ ShortFile)}
OntoOther == {Of(SourceDir @@ FullDir), Of(SourceFile @@ FullDir),
              Of(SourceDir @@ ShortFile), Of(SourceDir @@ (MCD :> Dir))}

CopyOrMove == {Op("COPY", None, <<>>), Op("MOVE", None, <<>>), Op("COPY", "F", <<>>),
               Op("MOVE", "T", <<>>)}
Others == {Op("DELETE", None, <<>>), Op("MKCOL", None, <<>>),
           Op("PUT", None, <<"n">>), Op("PUT", None, <<"n", "m", "o">>)}

AllCases == [tree : Sources \cup {Nothing}, op : CopyOrMove \cup Others]
              \cup [tree : OntoFile \cup OntoOther, op : CopyOrMove]

OverwriteFCases == [tree : OntoFile, op : {Op("COPY", "F", <<>>)}]
=============================================================================

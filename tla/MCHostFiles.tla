---------------------------- MODULE MCHostFiles -----------------------------
(***************************************************************************)
(* A tree for HostFiles: two files, a link and a directory in a directory, *)
(* objects for what two processes may create, and commands on the same     *)
(* names.                                                                  *)
(***************************************************************************)
EXTENDS HostFiles

CONSTANTS p, q, a, b, c, top, dir, f, g, h, k, l, m, none

MCKind == [o \in {top, dir, f, g, h, k, l, m} |->
              IF o \in {top, dir} THEN "dir" ELSE IF o \in {l, m} THEN "link" ELSE "file"]
MCTarget == [o \in {l, m} |-> <<b>>]
MCTree == [d \in {top, dir} |->
              [n \in {a, b, c} |-> CASE d = top /\ n = a -> dir [] d = top /\ n = b -> f
                                  [] d = dir /\ n = a -> l [] d = dir /\ n = b -> g
                                  [] OTHER -> none]]
MCByte == {<<x, n>> : x \in {p, q, f, g}, n \in 1..2} \cup {<<none, 0>>}
MCOld == [o \in {f, g, h, k} |-> IF o \in {f, g} THEN <<<<o, 1>>>> ELSE << >>]
MCHole == <<none, 0>>

Cmd(op, path, to, length) == [op |-> op, path |-> path, to |-> to, length |-> length]

Both(x, y) == [i \in {p, q} |-> IF i = p THEN x ELSE y]

WriteB == Cmd("write", <<b>>, << >>, 2)
WriteOne == Cmd("write", <<b>>, << >>, 1)
AppendB == Cmd("append", <<b>>, << >>, 1)
AppendLink == Cmd("append", <<a, a>>, << >>, 2)
ReadB == Cmd("read", <<b>>, << >>, 0)
DeleteB == Cmd("delete", <<b>>, << >>, 0)
CreateC == Cmd("create", <<c>>, << >>, 0)
RenameFile == Cmd("rename", <<a, b>>, <<b>>, 0)
RenameDirectory == Cmd("rename", <<a>>, <<c>>, 0)
LinkC == Cmd("link", <<b>>, <<c>>, 0)
SymlinkB == Cmd("symlink", <<b>>, <<a, c>>, 0)

MCSessions == {
    Both(WriteB, WriteOne), Both(WriteB, AppendB), Both(AppendB, AppendLink), Both(ReadB, AppendB),
    Both(CreateC, CreateC), Both(DeleteB, AppendLink), Both(RenameDirectory, DeleteB),
    Both(RenameFile, LinkC), Both(SymlinkB, DeleteB)}

MCWalks == {[op |-> "du", path |-> << >>], [op |-> "tree", path |-> << >>], [op |-> "du", path |-> <<b>>]}
=============================================================================

--------------------------- MODULE MCPathLookup ----------------------------
(***************************************************************************)
(* Directories for PathLookup: names met in one block, in two with the     *)
(* same inode or with different ones, behind corrupt and unused records,   *)
(* links up, down and to itself, a file where a directory is needed.       *)
(***************************************************************************)
EXTENDS PathLookup

CONSTANTS a, b      \* two names

MCInode == {2, 11, 12}
MCName == {a, b, ".."}

Rec(n, i, d) == [name |-> n, inode |-> i, defect |-> d]
To(n, i) == Rec(n, i, "none")
Unused == Rec(a, 0, "none")
Soft == Rec(a, 12, "soft")
Fatal == Rec(b, 12, "fatal")

Full(s) == [beyond |-> FALSE, records |-> s]
Beyond(s) == [beyond |-> TRUE, records |-> s]
Directory(blocks) == [dir |-> TRUE, blocks |-> blocks]
File == [dir |-> FALSE, blocks |-> << >>]

Firsts == {<<Unused, To(a, 11)>>, <<Soft, To(a, 11), To(b, 12)>>, <<To(a, 11), To(a, 12)>>,
           <<Fatal, To(a, 11)>>, <<To("..", 2), To(b, 2)>>}
Seconds == {Full(<<To(a, 12), Soft>>), Full(<<To(a, 11)>>), Full(<<Soft, To(b, 11)>>),
            Beyond(<<To(a, 12)>>), Full(<< >>)}

Roots == {Directory(<<Full(r), s>>) : r \in Firsts, s \in Seconds}
Children == {File, Directory(<< >>), Directory(<<Full(<<To("..", 2), To(b, 12)>>)>>),
             Directory(<<Full(<<To("..", 11)>>), Full(<<Fatal, To(b, 12)>>), Full(<<To(a, 11)>>)>>)}

MCImages ==
    {[i \in MCInode |-> CASE i = 2 -> r [] i = 11 -> c [] i = 12 -> d] :
        r \in Roots, c \in Children, d \in Children}

MCPaths == {<< >>, <<a>>, <<b>>, <<a, "">>, <<".", a, b>>, <<a, "..", b>>, <<b, "..", "..", a>>,
            <<a, a, a>>, <<a, "too_long">>}
=============================================================================

----------------------------- MODULE MCDirWalk -----------------------------
(***************************************************************************)
(* Directory graphs for DirWalk: a root 2 and two more inodes, with        *)
(* subdirectories in any order, links back up, links to itself, "." and    *)
(* "..", files, unused records and both kinds of corrupt record, in one    *)
(* block or two, the second possibly beyond the size of the directory.     *)
(***************************************************************************)
EXTENDS DirWalk

CONSTANTS a, b      \* two names

MCInode == {2, 11, 12}
MCName == {a, b}

Rec(n, i, t, d) == [name |-> n, inode |-> i, type |-> t, defect |-> d]

Down(i) == Rec(a, i, "dir", "none")
File == Rec(b, 12, "other", "none")
Up == Rec("..", 2, "dir", "none")
Unused == Rec(a, 0, "dir", "none")
Soft == Rec(a, 11, "dir", "soft")
Fatal == Rec(b, 12, "dir", "fatal")

Full(s) == [beyond |-> FALSE, entries |-> s]
Beyond(s) == [beyond |-> TRUE, entries |-> s]
Directory(blocks) == [dir |-> TRUE, blocks |-> blocks]
NoDirectory == [dir |-> FALSE, blocks |-> << >>]

RootRecords == {Down(11), Down(12), Soft, Fatal, Up}

Roots ==
    {Directory(<<Full(<<e, f>>)>>) : e \in RootRecords, f \in {Down(11), Down(12)}} \cup
    {Directory(<<Full(<<e>>), Full(<<f>>)>>) : e \in {Soft, Fatal, Down(12)}, f \in {Down(11)}} \cup
    {Directory(<<Full(<<Down(11), Unused>>), Beyond(<<Down(12)>>)>>)}

Seconds ==
    {Directory(<< >>)} \cup
    {Directory(<<Full(<<Unused, e>>)>>) : e \in {Down(2), Down(12), Soft}} \cup
    {Directory(<<Full(<<e>>), Full(<<File>>)>>) : e \in {Down(12), Fatal}}

Thirds == {NoDirectory, Directory(<<Full(<<Down(11)>>)>>), Directory(<<Full(<<Up, File>>)>>)}

MCImages ==
    {[i \in MCInode |-> CASE i = 2 -> r [] i = 11 -> s [] i = 12 -> t] :
        r \in Roots, s \in Seconds, t \in Thirds}
=============================================================================

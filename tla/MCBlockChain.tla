---------------------------- MODULE MCBlockChain ----------------------------
(***************************************************************************)
(* Images for BlockChain: three inodes over the blocks 1..4 of a five      *)
(* block image (5 is out of range).  Blocks 3 and 4 serve as indirect      *)
(* tables and hold each other, themselves, repetitions, holes and 5.       *)
(***************************************************************************)
EXTENDS BlockChain

File(direct, table) ==
    [kind |-> "file", extents |-> FALSE, direct |-> direct, table |-> table, deeper |-> FALSE]

Free == [File(<< >>, 0) EXCEPT !.kind = "free"]
Other == [File(<< >>, 0) EXCEPT !.kind = "other"]
Extents == [File(<< >>, 0) EXCEPT !.extents = TRUE]
Deeper == [File(<<1>>, 0) EXCEPT !.deeper = TRUE]

Firsts == {Free, Extents, Deeper, File(<<1, 1>>, 0), File(<<5>>, 0), File(<<2, 0>>, 4), File(<<4>>, 4)}
Seconds == {File(<<1, 2>>, 0), File(<<3>>, 4), Other}
Thirds == {File(<<2>>, 0), File(<<3, 2>>, 0), File(<< >>, 3), Free}

Contents == {<<3, 4>>, <<5, 1>>, <<2, 0, 1>>}

Numbered(a, b, c) == [i \in Number |-> CASE i = 1 -> a [] i = 2 -> b [] i = 3 -> c]

Holding(c) == [k \in 0..4 |-> CASE k = 4 -> c [] k = 3 -> <<4, 1>> [] OTHER -> << >>]

MCImages ==
    {[inode |-> Numbered(a, b, c), content |-> Holding(d)] :
        a \in Firsts, b \in Seconds, c \in Thirds, d \in Contents}

(* No inode to analyze in a full inode space: nothing is ever allocated,   *)
(* so no failure stops the scan.                                           *)
FullSpace ==
    {[inode |-> Numbered(a, Free, Free), content |-> Holding(<< >>)] :
        a \in {Free, File(<<5>>, 0)}}
=============================================================================

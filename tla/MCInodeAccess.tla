--------------------------- MODULE MCInodeAccess ---------------------------
(***************************************************************************)
(* Images for InodeAccess, in two families.  The first varies the geometry *)
(* at the limits of its arithmetic and has a plain directory; the second   *)
(* varies the directory inode and its extent tree on a sound geometry of   *)
(* 33 blocks, whose inode tables are one and a half blocks long.           *)
(***************************************************************************)
EXTENDS InodeAccess, TLC

Good ==
    [f \in Field |->
        CASE f = "inodes_count" -> 14
          [] f = "blocks_count_lo" -> 33
          [] f = "first_data_block" -> 1
          [] f = "blocks_per_group" -> 16
          [] f = "inodes_per_group" -> 6
          [] f = "magic" -> EXT4_SUPER_MAGIC
          [] f = "inode_size" -> 256
          [] OTHER -> 0]

(* 64-bit: blocks beyond W32, most of them behind OffMax. *)
Large == [Good EXCEPT !["incompat64"] = 1, !["blocks_count_hi"] = W32 - 3,
                      !["blocks_per_group"] = W32 - 1, !["inodes_count"] = W32 - 1]

(* The sum of calculate_group_count wraps to 0, and to less than a group. *)
Wrapping(perGroup) ==
    [Large EXCEPT !["blocks_count_lo"] = W32 - 1, !["blocks_count_hi"] = W32 - 1,
                  !["blocks_per_group"] = perGroup]

FarTable == [Good EXCEPT !["first_data_block"] = 32]
BadSize == [Good EXCEPT !["inode_size"] = 100]

Ref(b) == [lo |-> b % W32, hi |-> b \div W32]
Desc(b) == [block_bitmap |-> Ref(2), inode_bitmap |-> Ref(3), inode_table |-> Ref(b)]
Tables(first, second, third) == (0 :> Desc(first) @@ 1 :> Desc(second) @@ 2 :> Desc(third))

Direct(blocks, indirect) ==
    [kind |-> "directory", extents |-> FALSE, root |-> NoNode,
     direct |-> blocks, indirect |-> indirect]

Image(super, length, tables) ==
    [sb |-> super, length |-> length, descriptor |-> tables,
     inode |-> Direct(<<20>>, FALSE), node |-> << >>]

GoodLength == 33 * 1024
Sparse == OffMax

Geometries ==
    {Image(Good, GoodLength, Tables(first, second, 21)) : first \in {5, 31, 32}, second \in {6, 0, 33}} \cup
    {Image(Good, 4096, Tables(5, 8, 21)), Image(Good, 1500, Tables(5, 8, 21)),
     Image(FarTable, GoodLength, Tables(5, 8, 21)), Image(BadSize, GoodLength, Tables(5, 8, 21))} \cup
    {Image(Large, Sparse, Tables(first, 2 * W32, 8)) : first \in {W32, 2 * W32 - 1, 4 * W32 - 1, 4 * W32}} \cup
    {Image(Wrapping(perGroup), Sparse, Tables(5, 8, 21)) : perGroup \in {2, 3, W32 - 1}}

-----------------------------------------------------------------------------
Extent(logical, length, start) ==
    [logical |-> logical, length |-> length, start |-> start, leaf |-> 0]
Index(leaf) == [logical |-> 0, length |-> 0, start |-> 0, leaf |-> leaf]
Node(depth, entries) ==
    [sound |-> TRUE, depth |-> depth, claims |-> Len(entries), entries |-> entries]

Two == Extent(0, 2, 20)             \* two blocks
Unwritten == Extent(2, 7, 24)       \* three blocks, not yet written
Longest == Extent(2, 4, 24)         \* LenMask + 1 blocks: masked to none
Outside == Extent(2, 2, 32)         \* the second block is out of range
First == Extent(5, 1, 0)            \* block 0

Leaves == {Node(0, <<Two, e>>) : e \in {Unwritten, Longest, Outside, First}}

OnRoot(root, nodes) ==
    [sb |-> Good, length |-> GoodLength, descriptor |-> Tables(5, 8, 21),
     inode |-> [kind |-> "directory", extents |-> TRUE, root |-> root,
                direct |-> << >>, indirect |-> FALSE],
     node |-> nodes]

Trees ==
    {OnRoot(leaf, << >>) : leaf \in Leaves \cup
        {NoNode, Node(0, <<Two, Extent(2, 0, 0)>>), Node(0, <<Two, Two, Two>>)}} \cup
    {OnRoot(Node(1, indexes), 10 :> leaf @@ 11 :> Node(0, <<Unwritten>>)) :
        indexes \in {<<Index(10)>>, <<Index(11), Index(10)>>, <<Index(10), Index(10)>>,
                     <<Index(12)>>, <<Index(33)>>},
        leaf \in Leaves \cup {[Node(0, <<Two>>) EXCEPT !.claims = 2],
                              [Node(0, <<Two>>) EXCEPT !.claims = MaxEntries + 1],
                              Node(1, <<Index(10)>>)}} \cup
    {OnRoot(Node(2, <<Index(10), Index(13)>>),
            10 :> Node(1, indexes) @@ 11 :> Node(0, <<Two>>) @@ 13 :> [Node(1, <<Index(11)>>) EXCEPT !.claims = n]) :
        indexes \in {<<Index(11), Index(11)>>, <<Index(11), Index(10)>>}, n \in {1, 2}} \cup
    {OnRoot(Node(MaxDepth + 1, <<Index(10)>>), 10 :> Node(MaxDepth, <<Index(10)>>))}

Others ==
    {[Image(Good, GoodLength, Tables(5, 8, 21)) EXCEPT !.inode = i] :
        i \in {Direct(<<20, 0, 21>>, FALSE), Direct(<<20, 33>>, FALSE), Direct(<<0, 22>>, TRUE)} \cup
              {[Direct(<<20>>, FALSE) EXCEPT !.kind = k] : k \in {"free", "other", "short_symlink"}}}

MCVolumes == Geometries \cup Trees \cup Others

(* In the first and the second group, the last of the table, the last and  *)
(* the first beyond the last of the file system, and 0.                    *)
MCNumbers == {0, 1, 2, 4, 6, 7, 8, 14, 15}
=============================================================================

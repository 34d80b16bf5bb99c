---------------------------- MODULE InodeAccess ----------------------------
(***************************************************************************)
(* One command on one image, from ext4_fs_open to ext4_fs_close, reading   *)
(* directories by inode number (ext4_list_directory_inode): the group      *)
(* descriptor is read and validated (ext4_group.c), the inode located,     *)
(* read and validated (ext4_inode.c), and its blocks handed to a callback, *)
(* direct ones or those of its extent tree (visit_inode_data_blocks and    *)
(* visit_extent_node, ext4_dir.c).  The C recursion over the tree is the   *)
(* variable stack.                                                         *)
(***************************************************************************)
EXTENDS Geometry, Sequences

CONSTANTS
    Volumes,        \* the images
    Numbers,        \* inode numbers asked for
    MaxRequests,    \* bound: directories read by one command
    LenMask,        \* 0x7FFF in the code
    MaxDepth,       \* 5 in the code
    RootEntries,    \* 4 in the code: what fits the 60 bytes of i_block
    MaxEntries      \* 340 in the code

(* A node of an extent tree, on disk.  claims is the number of entries its *)
(* header announces, entries are those its block really holds.  An entry   *)
(* is read as an extent in a leaf and as an index above; sound is magic    *)
(* and entries <= max_entries.                                             *)
Entry == [logical : Nat, length : 0..(2 * LenMask + 1), start : Nat, leaf : Nat]
TreeNode == [sound : BOOLEAN, depth : Nat, claims : Nat, entries : Seq(Entry)]

RawInode == [kind : {"free", "directory", "other", "short_symlink"}, extents : BOOLEAN,
             root : TreeNode, direct : Seq(Nat), indirect : BOOLEAN]

(* An image: its superblock, its length in bytes, its group descriptors by *)
(* group, the content of every inode (where they are does not depend on    *)
(* it), and the blocks that hold nodes of the extent tree.                 *)

ASSUME InodeAccessAssumption ==
    /\ \A v \in Volumes :
        /\ v.sb \in Copy /\ v.length \in Nat
        /\ \A f \in WordFields : v.sb[f] < W32
        /\ DOMAIN v.descriptor \subseteq Nat
        /\ \A g \in DOMAIN v.descriptor : v.descriptor[g] \in RawDescriptor
        /\ v.inode \in RawInode
        /\ v.inode.root.claims <= RootEntries => v.inode.root.claims <= Len(v.inode.root.entries)
        /\ DOMAIN v.node \subseteq Nat
        /\ \A b \in DOMAIN v.node : v.node[b] \in TreeNode
    /\ Numbers \subseteq Nat
    /\ MaxRequests \in Nat /\ LenMask \in Nat \ {0}
    /\ MaxDepth \in Nat /\ RootEntries \in Nat /\ MaxEntries \in Nat

VARIABLES
    volume,     \* the image, read only
    open,       \* whether the descriptor of the image is open
    pc,         \* the place in the code
    number,     \* the inode asked for
    table,      \* inode_table
    stack,      \* active calls of visit_extent_node, innermost last
    handed,     \* data blocks handed to the callback, <<logical, physical>>
    status,     \* what the last request returned: "none", "ok" or "failed"
    requests,   \* history: requests begun
    located,    \* history: the inodes that were located
    faults      \* history: what the environment made fail

command == <<volume, open>>
vars == <<command, pc, number, table, stack, handed, status, requests, located, faults>>

Label == {"closed", "super", "idle", "descriptor", "locate", "inode", "visit", "done"}

(* The node in the inode, which is in no block. *)
Root == -1

Frame == [node : {Root} \cup Nat, depth : 0..MaxDepth, next : Nat \ {0}]

(* Type correctness; the recursion is never deeper than the depth the root *)
(* announces, and every call in it works at the depth its caller gave it.  *)
TypeOK ==
    /\ volume \in Volumes /\ open \in BOOLEAN /\ pc \in Label
    /\ number \in Numbers \cup {0} /\ table \in 0..(W64 - 1)
    /\ stack \in Seq(Frame)
    /\ Len(stack) <= MaxDepth + 1
    /\ \A n \in 1..Len(stack) : stack[n].depth = volume.inode.root.depth - (n - 1)
    /\ handed \in Seq(Nat \X Nat)
    /\ status \in {"none", "ok", "failed"}
    /\ requests \in 0..MaxRequests
    /\ located \subseteq [number : Numbers, group : Nat, offset : 0..(W64 - 1), table : Nat]
    /\ faults \subseteq {"open", "super", "descriptor", "inode", "node"}

Init ==
    /\ volume \in Volumes
    /\ open = FALSE /\ pc = "closed" /\ number = 0 /\ table = 0
    /\ stack = << >> /\ handed = << >> /\ status = "none"
    /\ requests = 0 /\ located = {} /\ faults = {}

sb == volume.sb
inode == volume.inode

-----------------------------------------------------------------------------
(* Bound: the environment makes each kind of system call fail once. *)
Fault(what) == what \notin faults /\ faults' = faults \cup {what}

Readable(offset, size) == offset + size <= volume.length

(* ext4_fs_open: the image is opened, ... *)
OpenImage ==
    /\ pc = "closed"
    /\ \/ open' = TRUE /\ pc' = "super" /\ UNCHANGED faults
       \/ Fault("open") /\ pc' = "done" /\ UNCHANGED open
    /\ UNCHANGED <<volume, number, table, stack, handed, status, requests, located>>

(* ... its superblock is read and validated, ... *)
Mount ==
    /\ pc = "super"
    /\ Readable(EXT4_SUPERBLOCK_OFFSET, EXT4_SUPERBLOCK_SIZE)
    /\ OpensAsFilesystem(sb)
    /\ pc' = "idle"
    /\ UNCHANGED <<command, number, table, stack, handed, status, requests, located, faults>>

(* Mutated form of Refuse: the early return forgets the descriptor. *)
RefuseOpen ==
    /\ pc = "super"
    /\ \/ Fault("super")
       \/ ~Readable(EXT4_SUPERBLOCK_OFFSET, EXT4_SUPERBLOCK_SIZE) /\ UNCHANGED faults
       \/ ~OpensAsFilesystem(sb) /\ UNCHANGED faults
    /\ pc' = "done"
    /\ UNCHANGED <<command, number, table, stack, handed, status, requests, located>>

(* ... or the image is closed again. *)
Refuse ==
    /\ pc = "super"
    /\ \/ Fault("super")
       \/ ~Readable(EXT4_SUPERBLOCK_OFFSET, EXT4_SUPERBLOCK_SIZE) /\ UNCHANGED faults
       \/ ~OpensAsFilesystem(sb) /\ UNCHANGED faults
    /\ open' = FALSE /\ pc' = "done"
    /\ UNCHANGED <<volume, number, table, stack, handed, status, requests, located>>

(* ext4_fs_close, at the end of the operation. *)
Close ==
    /\ pc = "idle"
    /\ open' = FALSE /\ pc' = "done"
    /\ UNCHANGED <<volume, number, table, stack, handed, status, requests, located, faults>>

-----------------------------------------------------------------------------
(* A request returns. *)
Fail == pc' = "idle" /\ status' = "failed"
Succeed == pc' = "idle" /\ status' = "ok"

(* ext4_list_directory_inode(n) as far as ext4_read_group_desc. *)
Request(n) ==
    /\ pc = "idle" /\ requests < MaxRequests
    /\ requests' = requests + 1 /\ number' = n
    /\ stack' = << >> /\ handed' = << >>
    /\ IF ValidInodeNumber(sb, n) /\ DescriptorOffsetOk(sb, GroupOf(sb, n))
       THEN pc' = "descriptor" /\ status' = "none"
       ELSE Fail
    /\ UNCHANGED <<command, table, located, faults>>

Zero == [lo |-> 0, hi |-> 0]

DescriptorAt(group) ==
    IF group \in DOMAIN volume.descriptor THEN volume.descriptor[group]
    ELSE [block_bitmap |-> Zero, inode_bitmap |-> Zero, inode_table |-> Zero]

(* ext4_read_group_desc; no memory and a failing read are one fault. *)
ReadDescriptor ==
    /\ pc = "descriptor"
    /\ LET group == GroupOf(sb, number)
           raw == DescriptorAt(group)
       IN  \/ /\ Readable(DescriptorOffset(sb, group), GroupDescSize(sb))
              /\ ValidDescriptor(sb, raw)
              /\ table' = CombineBlock(sb, raw.inode_table)
              /\ pc' = "locate"
              /\ UNCHANGED <<status, faults>>
           \/ /\ \/ Fault("descriptor")
                 \/ /\ ~Readable(DescriptorOffset(sb, group), GroupDescSize(sb))
                       \/ ~ValidDescriptor(sb, raw)
                    /\ UNCHANGED faults
              /\ Fail
              /\ UNCHANGED table
    /\ UNCHANGED <<command, number, stack, handed, requests, located>>

(* ext4_inode_offset *)
Locate ==
    /\ pc = "locate"
    /\ IF InodeOffsetOk(sb, number, table)
       THEN /\ located' = located \cup
                   {[number |-> number, group |-> GroupOf(sb, number),
                     offset |-> InodeOffset(sb, number, table), table |-> table]}
            /\ pc' = "inode" /\ UNCHANGED status
       ELSE Fail /\ UNCHANGED located
    /\ UNCHANGED <<command, number, table, stack, handed, requests, faults>>

-----------------------------------------------------------------------------
(* Extents: the length is the low fifteen bits of its field. *)
Masked(length) == length % (LenMask + 1)

(* validate_extent_tree, on the root in the inode. *)
ValidRoot(node) ==
    /\ node.sound
    /\ node.claims <= RootEntries
    /\ \A k \in 1..node.claims :
        LET e == node.entries[k]
        IN  IF node.depth = 0
            THEN e.start = 0 \/ Masked(e.length) = 0
                    \/ BlockRangeValid(sb, e.start, Masked(e.length))
            ELSE BlockIndexValid(sb, e.leaf)

(* validate_inode_blocks *)
ValidInodeBlocks(raw) ==
    /\ raw.kind # "free"
    /\ \/ raw.kind = "short_symlink"
       \/ raw.extents /\ ValidRoot(raw.root)
       \/ /\ ~raw.extents
          /\ \A k \in 1..Len(raw.direct) :
                raw.direct[k] # 0 => BlockIndexValid(sb, raw.direct[k])

(* The tests visit_extent_node makes before it looks at the entries. *)
NodeAccepted(node, depth) ==
    node.sound /\ node.depth = depth /\ node.claims <= MaxEntries

(* Mutated form of RootAccepted: any depth. *)
RootAnyDepth(node) == NodeAccepted(node, node.depth)

RootAccepted(node) == node.depth <= MaxDepth /\ NodeAccepted(node, node.depth)

InodeReadable ==
    /\ Readable(InodeOffset(sb, number, table), InodeSize(sb))
    /\ ValidInodeBlocks(inode)
    /\ inode.kind = "directory"

(* The loop over the direct blocks: those that are not 0.                  *)
Used(direct) ==
    LET upTo[k \in 0..Len(direct)] ==
            IF k = 0 THEN << >>
            ELSE IF direct[k] # 0 THEN Append(upTo[k - 1], <<k - 1, direct[k]>>)
            ELSE upTo[k - 1]
    IN  upTo[Len(direct)]

(* ext4_read_inode succeeds on a directory; the visit of its extent tree   *)
(* begins, unless the root is refused,                                     *)
EnterTree ==
    /\ pc = "inode" /\ InodeReadable /\ inode.extents
    /\ IF RootAccepted(inode.root)
       THEN /\ stack' = <<[node |-> Root, depth |-> inode.root.depth, next |-> 1]>>
            /\ pc' = "visit" /\ UNCHANGED status
       ELSE Fail /\ UNCHANGED stack
    /\ UNCHANGED <<command, number, table, handed, requests, located, faults>>

(* or its direct blocks are handed over, and an indirect one refused.  The *)
(* callback, visit_data_block, never stops the visit.                      *)
VisitDirect ==
    /\ pc = "inode" /\ InodeReadable /\ ~inode.extents
    /\ handed' = Used(inode.direct)
    /\ IF inode.indirect THEN Fail ELSE Succeed
    /\ UNCHANGED <<command, number, table, stack, requests, located, faults>>

InodeFails ==
    /\ pc = "inode"
    /\ \/ Fault("inode")
       \/ ~InodeReadable /\ UNCHANGED faults
    /\ Fail
    /\ UNCHANGED <<command, number, table, stack, handed, requests, located>>

-----------------------------------------------------------------------------
(* visit_extent_node *)

NoNode == [sound |-> FALSE, depth |-> 0, claims |-> 0, entries |-> << >>]

NodeAt(block) ==
    IF block = Root THEN inode.root
    ELSE IF block \in DOMAIN volume.node THEN volume.node[block]
    ELSE NoNode

Top == stack[Len(stack)]
TopNode == NodeAt(Top.node)
EntryAt == TopNode.entries[Top.next]
AtEntry == pc = "visit" /\ Top.next <= TopNode.claims

Advance == [stack EXCEPT ![Len(stack)].next = @ + 1]

(* Mutated form of Blocks: the last block of the extent is left out. *)
BlocksButLast(e) ==
    [j \in 1..(Masked(e.length) - 1) |-> <<e.logical + j - 1, e.start + j - 1>>]

Blocks(e) == [j \in 1..Masked(e.length) |-> <<e.logical + j - 1, e.start + j - 1>>]

(* Whether the block of the node really holds the entry. *)
Held == Top.next <= Len(TopNode.entries)

VisitExtent ==
    /\ AtEntry /\ Top.depth = 0 /\ Held
    /\ IF BlockRangeValid(sb, EntryAt.start, Masked(EntryAt.length))
       THEN /\ handed' = handed \o Blocks(EntryAt)
            /\ stack' = Advance
            /\ UNCHANGED <<pc, status>>
       ELSE Fail /\ stack' = << >> /\ UNCHANGED handed
    /\ UNCHANGED <<command, number, table, requests, located, faults>>

Descend ==
    /\ AtEntry /\ Top.depth > 0 /\ Held
    /\ \/ /\ BlockIndexValid(sb, EntryAt.leaf)
          /\ NodeAccepted(NodeAt(EntryAt.leaf), Top.depth - 1)
          /\ stack' = Append(Advance, [node |-> EntryAt.leaf, depth |-> Top.depth - 1, next |-> 1])
          /\ UNCHANGED <<pc, status, faults>>
       \/ /\ \/ /\ ~BlockIndexValid(sb, EntryAt.leaf) \/ ~NodeAccepted(NodeAt(EntryAt.leaf), Top.depth - 1)
                /\ UNCHANGED faults
             \/ Fault("node")
          /\ Fail /\ stack' = << >>
    /\ UNCHANGED <<command, number, table, handed, requests, located>>

(* 340 entries fit a block of 4096 bytes.  The header of a smaller node    *)
(* may announce more than it holds, and the loop then reads behind the     *)
(* buffer: an extent is handed over that is nowhere on the image, a node   *)
(* of any content is visited (here, one that holds nothing), or the visit  *)
(* fails.                                                                  *)
ReadBeyondNode ==
    /\ AtEntry /\ ~Held
    /\ \/ /\ Top.depth = 0
          /\ \E block \in 0..1 : BlockIndexValid(sb, block) /\ handed' = Append(handed, <<0, block>>)
          /\ stack' = Advance /\ UNCHANGED <<pc, status>>
       \/ Top.depth > 0 /\ stack' = Advance /\ UNCHANGED <<pc, status, handed>>
       \/ Fail /\ stack' = << >> /\ UNCHANGED handed
    /\ UNCHANGED <<command, number, table, requests, located, faults>>

Ascend ==
    /\ pc = "visit" /\ Top.next > TopNode.claims
    /\ stack' = SubSeq(stack, 1, Len(stack) - 1)
    /\ IF Len(stack) = 1 THEN Succeed ELSE UNCHANGED <<pc, status>>
    /\ UNCHANGED <<command, number, table, handed, requests, located, faults>>

Next ==
    \/ OpenImage \/ Mount \/ Refuse \/ Close
    \/ \E n \in Numbers : Request(n)
    \/ ReadDescriptor \/ Locate \/ EnterTree \/ VisitDirect \/ InodeFails
    \/ VisitExtent \/ Descend \/ ReadBeyondNode \/ Ascend

Spec == Init /\ [][Next]_vars

(* A single thread that always runs on. *)
FairSpec == Spec /\ WF_vars(Next)

-----------------------------------------------------------------------------
(* Properties *)

(* The inode table the file system gives a group, in bytes and without any *)
(* width: a whole number of inodes, inside the image.                      *)
TableStart(l) == l.table * BlockSize(sb)
TableEnd(l) == TableStart(l) + sb["inodes_per_group"] * InodeSize(sb)

(* A located inode is a whole slot of the inode table of its group, that   *)
(* table ends inside the file system, and the inode is addressable with    *)
(* off_t.                                                                  *)
InTable(l) ==
    /\ TableStart(l) <= l.offset /\ l.offset + InodeSize(sb) <= TableEnd(l)
    /\ (l.offset - TableStart(l)) % InodeSize(sb) = 0
    /\ (TableEnd(l) - 1) \div BlockSize(sb) < BlocksCount(sb)
    /\ l.offset + InodeSize(sb) <= OffMax

Overlap(k, l) ==
    k.offset < l.offset + InodeSize(sb) /\ l.offset < k.offset + InodeSize(sb)

(* Products and sums of numbers from the image, each tested apart, never   *)
(* wrap together: every inode is located in its table, and two inode       *)
(* numbers are two places, which overlap only if the image gives two       *)
(* groups overlapping inode tables.                                        *)
InodesInPlace ==
    \A k \in located :
        /\ InTable(k)
        /\ \A l \in located : k.number # l.number /\ Overlap(k, l) =>
               /\ k.group # l.group
               /\ TableStart(k) < TableEnd(l) /\ TableStart(l) < TableEnd(k)

(* The number of groups that guards every access is the exact ceiling: a   *)
(* sum that wraps never leaves a count that is accepted.                   *)
GroupsAreExact ==
    pc \notin {"closed", "super", "done"} =>
        LET n == GroupsCount(sb)
        IN  /\ (n - 1) * sb["blocks_per_group"] < BlocksCount(sb)
            /\ BlocksCount(sb) <= n * sb["blocks_per_group"]

(* What ext4 means by a length: up to LenMask + 1 blocks written, or, with *)
(* the high bit and more, blocks allocated and not yet written.            *)
TrueLength(length) == IF length <= LenMask + 1 THEN length ELSE length - (LenMask + 1)

TrueBlocks(e) ==
    [j \in 1..TrueLength(e.length) |-> <<e.logical + j - 1, e.start + j - 1>>]

(* The parts of all n, in order. *)
Joined(part, n) ==
    LET last[k \in 0..n] == IF k = 0 THEN << >> ELSE part[n - k + 1] \o last[k - 1]
    IN  last[n]

NodeIn(v, b) == IF b = Root THEN v.inode.root ELSE v.node[b]
Count(node) == IF node.claims <= Len(node.entries) THEN node.claims ELSE Len(node.entries)

(* What each entry of node b maps at depth d, given the depth below. *)
Parts(v, d, b, below) ==
    [k \in 1..Count(NodeIn(v, b)) |->
        LET e == NodeIn(v, b).entries[k]
        IN  IF d = 0 THEN TrueBlocks(e)
            ELSE IF e.leaf \in DOMAIN v.node THEN below[e.leaf]
            ELSE << >>]

(* The blocks every subtree of every depth maps, in order. *)
Maps(v) ==
    LET below[d \in 0..MaxDepth] ==
            [b \in {Root} \cup DOMAIN v.node |->
                Joined(Parts(v, d, b, IF d = 0 THEN << >> ELSE below[d - 1]), Count(NodeIn(v, b)))]
    IN  below

Mapped == Maps(volume)[inode.root.depth][Root]

(* No node claims more entries than its block holds. *)
NodesHold ==
    \A b \in {Root} \cup DOMAIN volume.node : NodeAt(b).claims <= Len(NodeAt(b).entries)

(* A visit hands over the blocks the tree maps, in order, and blocks of    *)
(* the file system only; one that returns 0 has missed none, not even of   *)
(* an extent whose length the mask changes, or of a node met twice.  (On   *)
(* nodes that hold what they claim: see ReadBeyondNode.)                   *)
VisitIsExact ==
    inode.extents /\ inode.root.depth <= MaxDepth /\ NodesHold =>
        /\ \A k \in 1..Len(handed) : handed[k][2] < BlocksCount(sb)
        /\ Len(handed) <= Len(Mapped) /\ handed = SubSeq(Mapped, 1, Len(handed))
        /\ status = "ok" => handed = Mapped

(* Whatever fails, and on every tree, cyclic ones included, the command    *)
(* ends, with the image closed.                                            *)
EndsClosed == <>[](pc = "done" /\ ~open)
=============================================================================

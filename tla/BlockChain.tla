----------------------------- MODULE BlockChain -----------------------------
(***************************************************************************)
(* Block ownership: ext4_traverse_inode_blocks (ext4_block.c) collecting   *)
(* the block references of one inode, and ext4_build_chain_analysis        *)
(* (ext4_chain.c) indexing the owners of every block of the image, as the  *)
(* commands ext4-chain ("chain"), ext4-shared and ext4-corruption-scan     *)
(* ("scan") run them.                                                      *)
(*                                                                         *)
(* A step handles one inode header, one block reference, or one entry of   *)
(* the owner index.  Allocation and I/O may fail at each of them.          *)
(* Corruption counters are kept as "zero or not", which is all the code    *)
(* asks of them.                                                           *)
(***************************************************************************)
EXTENDS Integers, Sequences, FiniteSets

CONSTANTS
    W32,            \* modulus of uint32_t, the type of the inode counter
    InodesCount,    \* s_inodes_count
    BlocksCount,    \* number of blocks of the image
    Images

Number == 1..InodesCount

(* direct and table are block[0..11] and block[12]; deeper says block[13]  *)
(* or block[14] is used (out of range, they make the inode unreadable like *)
(* an out-of-range table); content is what a block holds when it is read   *)
(* as an indirect table.  0 is a hole.  "other" is neither a file nor a    *)
(* directory; a short symbolic link, whose block[] is text, has no blocks. *)
Inode == [kind : {"free", "file", "other"}, extents : BOOLEAN,
          direct : Seq(Nat), table : Nat, deeper : BOOLEAN]

Image == [inode : [Number -> Inode], content : [0..(BlocksCount - 1) -> Seq(Nat)]]

ASSUME ChainAssumption ==
    /\ W32 \in Nat /\ InodesCount \in 1..(W32 - 1)
    /\ BlocksCount \in Nat \ {0}
    /\ Images \subseteq Image

VARIABLES
    image,          \* the file system, read only
    mode,           \* "chain" or "scan"
    next,           \* inode_number
    pc,             \* "inode", "direct", "indirect", "index" or "done"
    pos,            \* index in the sequence pc is working through
    seen,           \* seen_blocks of the traversal
    refs,           \* chain.refs
    bad,            \* chain.corruption_count > 0
    chains,         \* analysis.chains, by inode number
    owners,         \* analysis.owners
    corruption,     \* analysis.corruption_count > 0
    status,         \* the status the command returns
    faults          \* history: the kinds of failure that have occurred

chain == <<seen, refs, bad>>
analysis == <<chains, owners, corruption>>
vars == <<image, mode, next, pc, pos, chain, analysis, status, faults>>

Ref == [logical : Nat, block : Nat, kind : {"direct", "table", "single"}]
Owner == [block : Nat, inodes : Seq(Number)]

This == image.inode[next]
Table == image.content[This.table]
Fault == {"inode", "traversal", "index"}

(* Type correctness; pos never leaves the sequence it indexes. *)
TypeOK ==
    /\ image \in Images /\ mode \in {"chain", "scan"}
    /\ next \in 0..(W32 - 1)
    /\ pc \in {"inode", "direct", "indirect", "index", "done"}
    /\ pc \in {"direct", "indirect", "index"} => next \in Number
    /\ pc = "direct" => pos \in 1..(Len(This.direct) + 1)
    /\ pc = "indirect" => pos \in 1..(Len(Table) + 1)
    /\ pc = "index" => pos \in 1..(Len(refs) + 1)
    /\ seen \subseteq Nat
    /\ refs \in Seq(Ref)
    /\ bad \in BOOLEAN
    /\ chains \subseteq Number
    /\ owners \in Seq(Owner)
    /\ corruption \in BOOLEAN
    /\ status \in {0, 1}
    /\ faults \subseteq Fault

Init ==
    /\ image \in Images
    /\ mode \in {"chain", "scan"}
    /\ next \in (IF mode = "chain" THEN Number ELSE {1})
    /\ pc = "inode" /\ pos = 1
    /\ seen = {} /\ refs = << >> /\ bad = FALSE
    /\ chains = {} /\ owners = << >> /\ corruption = FALSE
    /\ status = 0 /\ faults = {}

-----------------------------------------------------------------------------
InRange(block) == block < BlocksCount

(* Bound: each kind of failure strikes once. *)
Fails(why) == why \notin faults /\ faults' = faults \cup {why}

(* ext4_read_inode refuses a free inode and one with a block out of range. *)
Readable(inode) ==
    /\ inode.kind # "free"
    /\ inode.extents \/ /\ \A k \in DOMAIN inode.direct : InRange(inode.direct[k])
                        /\ InRange(inode.table)

(* Mutated form of GoTo: the index is not reset. *)
GoToOnly(label) == pc' = label /\ UNCHANGED pos

GoTo(label) == pc' = label /\ pos' = 1

Following(n) == (n + 1) % W32

NextInode == next' = Following(next) /\ pc' = "inode" /\ UNCHANGED pos

(* Mutated form of Abandon: the scan does not step past the inode. *)
AbandonInPlace ==
    IF mode = "scan"
    THEN GoTo("inode") /\ corruption' = TRUE /\ UNCHANGED <<next, status>>
    ELSE GoTo("done") /\ status' = 1 /\ UNCHANGED <<next, corruption>>

(* build_chain_for_inode returned non-zero: its references are lost, and a *)
(* scan counts a corruption and goes on.                                   *)
Abandon ==
    IF mode = "scan"
    THEN NextInode /\ corruption' = TRUE /\ UNCHANGED status
    ELSE GoTo("done") /\ status' = 1 /\ UNCHANGED <<next, corruption>>

ScanEnds ==
    /\ pc = "inode" /\ mode = "scan" /\ next > InodesCount
    /\ GoTo("done")
    /\ UNCHANGED <<image, mode, next, chain, analysis, status, faults>>

(* A free inode, or one that is neither a file nor a directory.  Inode 0,  *)
(* met when the counter has wrapped, may look free.                        *)
SkipInode ==
    /\ pc = "inode" /\ mode = "scan" /\ next <= InodesCount
    /\ next # 0 => /\ This.kind \in {"free", "other"}
                   /\ This.kind = "other" => Readable(This)
    /\ NextInode
    /\ UNCHANGED <<image, mode, chain, analysis, status, faults>>

(* The inode cannot be located, read or validated. *)
UnreadableInode ==
    /\ pc = "inode" /\ next <= InodesCount
    /\ \/ /\ next # 0 => ~Readable(This) /\ (mode = "scan" => This.kind # "free")
          /\ UNCHANGED faults
       \/ next # 0 /\ Fails("inode")
    /\ Abandon
    /\ UNCHANGED <<image, mode, chain, chains, owners>>

(* ext4_build_chain_for_inode starts with an empty chain; an inode mapped  *)
(* by extents is reported and not traversed.                               *)
BeginTraversal ==
    /\ pc = "inode" /\ next \in Number
    /\ Readable(This)
    /\ mode = "scan" => This.kind = "file"
    /\ seen' = {} /\ refs' = << >>
    /\ IF This.kind = "file" /\ ~This.extents
       THEN GoTo("direct") /\ bad' = FALSE /\ UNCHANGED corruption
       ELSE /\ GoTo(IF mode = "scan" THEN "index" ELSE "done")
            /\ bad' = (This.kind = "file")
            /\ corruption' = (corruption \/ (mode = "scan" /\ bad'))
    /\ UNCHANGED <<image, mode, next, chains, owners, status, faults>>

-----------------------------------------------------------------------------
(* Mutated forms of Fresh: no look at the blocks seen, and no range check. *)
FreshAgain(block) == block # 0 /\ InRange(block)
FreshAnywhere(block) == block # 0 /\ block \notin seen

Fresh(block) == block # 0 /\ InRange(block) /\ block \notin seen

(* emit_block: record a new reference, report one out of range or repeated.*)
EmitBlock(block, logical, kind) ==
    IF Fresh(block)
    THEN /\ seen' = seen \cup {block}
         /\ refs' = Append(refs, [logical |-> logical, block |-> block, kind |-> kind])
         /\ UNCHANGED bad
    ELSE bad' = (bad \/ block # 0) /\ UNCHANGED <<seen, refs>>

VisitDirect ==
    /\ pc = "direct" /\ pos <= Len(This.direct)
    /\ EmitBlock(This.direct[pos], pos - 1, "direct")
    /\ pos' = pos + 1
    /\ UNCHANGED <<image, mode, next, pc, analysis, status, faults>>

AtTable == pc = "direct" /\ pos > Len(This.direct) /\ This.table # 0

(* The table is read even when it was reported as a repeated block. *)
VisitTable ==
    /\ AtTable
    /\ EmitBlock(This.table, 12, "table")
    /\ GoTo("indirect")
    /\ UNCHANGED <<image, mode, next, analysis, status, faults>>

VisitIndirect ==
    /\ pc = "indirect" /\ pos <= Len(Table)
    /\ IF Table[pos] = This.table
       THEN bad' = TRUE /\ UNCHANGED <<seen, refs>>
       ELSE EmitBlock(Table[pos], 11 + pos, "single")
    /\ pos' = pos + 1
    /\ UNCHANGED <<image, mode, next, pc, analysis, status, faults>>

(* Mutated form of Concluded: double and triple indirection is not reported. *)
ConcludedEarly == bad' = bad

Concluded == bad' = (bad \/ This.deeper)

Traversed ==
    /\ \/ pc = "direct" /\ pos > Len(This.direct) /\ This.table = 0
       \/ pc = "indirect" /\ pos > Len(Table)
    /\ Concluded
    /\ corruption' = (corruption \/ (mode = "scan" /\ bad'))
    /\ GoTo(IF mode = "scan" THEN "index" ELSE "done")
    /\ UNCHANGED <<image, mode, next, seen, refs, chains, owners, status, faults>>

(* Memory for a new reference, or memory for the table or its block, fails.*)
TraversalFails ==
    /\ \/ pc = "direct" /\ pos <= Len(This.direct) /\ Fresh(This.direct[pos])
       \/ AtTable
       \/ /\ pc = "indirect" /\ pos <= Len(Table)
          /\ Table[pos] # This.table /\ Fresh(Table[pos])
    /\ Fails("traversal")
    /\ Abandon
    /\ UNCHANGED <<image, mode, chain, chains, owners>>

-----------------------------------------------------------------------------
(* add_block_owner and add_owner_inode: block gets one entry, and i is in  *)
(* it once.                                                                *)
Owned(block) == {k \in DOMAIN owners : owners[k].block = block}

(* Mutated form of WithEntry: find_owner is not asked. *)
WithNewEntry(block) == Append(owners, [block |-> block, inodes |-> << >>])

WithEntry(block) ==
    IF Owned(block) # {} THEN owners
    ELSE Append(owners, [block |-> block, inodes |-> << >>])

(* Mutated form of WithInode: the first owner is kept, later ones ignored. *)
WithFirstInode(list, block, i) ==
    [k \in DOMAIN list |->
        IF list[k].block = block /\ list[k].inodes = << >>
        THEN [list[k] EXCEPT !.inodes = <<i>>] ELSE list[k]]

WithInode(list, block, i) ==
    [k \in DOMAIN list |->
        IF list[k].block = block /\ \A n \in DOMAIN list[k].inodes : list[k].inodes[n] # i
        THEN [list[k] EXCEPT !.inodes = Append(@, i)] ELSE list[k]]

IndexRef ==
    /\ pc = "index" /\ pos <= Len(refs)
    /\ owners' = WithInode(WithEntry(refs[pos].block), refs[pos].block, next)
    /\ pos' = pos + 1
    /\ UNCHANGED <<image, mode, next, pc, chain, chains, corruption, status, faults>>

(* Memory for the entry or for its owner fails, or, after the last         *)
(* reference, for the chain: the scan stops.                               *)
IndexFails ==
    /\ pc = "index"
    /\ Fails("index")
    /\ \/ UNCHANGED owners
       \/ pos <= Len(refs) /\ owners' = WithEntry(refs[pos].block)
    /\ status' = 1
    /\ GoTo("done")
    /\ UNCHANGED <<image, mode, next, chain, chains, corruption>>

AddChain ==
    /\ pc = "index" /\ pos > Len(refs)
    /\ chains' = chains \cup {next}
    /\ NextInode
    /\ UNCHANGED <<image, mode, chain, owners, corruption, status, faults>>

Next ==
    \/ ScanEnds \/ SkipInode \/ UnreadableInode \/ BeginTraversal
    \/ VisitDirect \/ VisitTable \/ VisitIndirect \/ Traversed \/ TraversalFails
    \/ IndexRef \/ IndexFails \/ AddChain

Spec == Init /\ [][Next]_vars

(* A single thread that always runs on. *)
FairSpec == Spec /\ WF_vars(Next)

-----------------------------------------------------------------------------
(* Properties.  The reference is the set of blocks an inode within the     *)
(* analyzer's scope refers to, read off the image.                         *)

Targets(i) ==
    LET inode == image.inode[i]
        named == {inode.direct[k] : k \in DOMAIN inode.direct} \cup {inode.table}
        listed == IF inode.table = 0 THEN {}
                  ELSE {image.content[inode.table][k] :
                           k \in DOMAIN image.content[inode.table]}
    IN  IF inode.kind # "file" \/ inode.extents THEN {}
        ELSE {block \in named \cup listed : block \in 1..(BlocksCount - 1)}

Collected == {refs[k].block : k \in DOMAIN refs}

(* While a chain is collected no block enters it twice and none that is    *)
(* not the inode's own, whatever cycles and repetitions the image holds;   *)
(* a chain that is printed with status 0 is the whole of it.               *)
ChainIsExact ==
    /\ pc \in {"direct", "indirect", "index"} =>
        /\ Cardinality(Collected) = Len(refs)
        /\ Collected \subseteq Targets(next)
    /\ pc = "index" \/ (pc = "done" /\ mode = "chain" /\ status = 0) =>
        Collected = Targets(next)

(* A block is reported as shared only if two inodes do refer to it: every  *)
(* owner in the index is real, even while the scan fails half way.         *)
OnlyRealSharing ==
    \A k \in DOMAIN owners : \A n \in DOMAIN owners[k].inodes :
        owners[k].block \in Targets(owners[k].inodes[n])

(* One entry for a block and one mention of an inode in it: the number of  *)
(* owners that is printed is not inflated.                                 *)
OneEntryPerBlock ==
    \A k \in DOMAIN owners :
        /\ Owned(owners[k].block) = {k}
        /\ \A m, n \in DOMAIN owners[k].inodes :
            m # n => owners[k].inodes[m] # owners[k].inodes[n]

Shared == {owners[k].block : k \in {j \in DOMAIN owners : Len(owners[j].inodes) > 1}}

(* Sharing between two analyzed inodes is always found: corruption in a    *)
(* third inode, an unreadable one, or a failed traversal does not hide it. *)
SharingIsFound ==
    pc = "done" /\ mode = "scan" /\ status = 0 =>
        \A i, j \in chains : i # j => Targets(i) \cap Targets(j) \subseteq Shared

(* A scan that reports no corruption and status 0 has looked at every      *)
(* block of every file and directory: nothing was skipped in silence.      *)
CleanScanIsComplete ==
    pc = "done" /\ mode = "scan" /\ status = 0 /\ ~corruption =>
        /\ chains = {i \in Number : image.inode[i].kind = "file"}
        /\ \A i \in chains : ~image.inode[i].extents /\ ~image.inode[i].deeper
        /\ \A i \in chains : \A block \in Targets(i) :
            \E k \in Owned(block) : \E n \in DOMAIN owners[k].inodes : owners[k].inodes[n] = i

(* The scan of the whole inode space ends.                                 *)
ScanEndsAtLast == <>(pc = "done")
=============================================================================

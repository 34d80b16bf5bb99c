------------------------------ MODULE Geometry ------------------------------
(***************************************************************************)
(* Where group descriptors and inodes are: ext4_group.c and                *)
(* ext4_inode_offset of ext4_inode.c, over the superblock the file system  *)
(* was opened with.  As in the code a product or a sum that might wrap is  *)
(* tested before it is made.                                               *)
(*                                                                         *)
(* A raw descriptor gives each of its three blocks as a low and a high     *)
(* half; only descriptors of 64 bytes or more have the high one.           *)
(***************************************************************************)
EXTENDS Superblock

RawBlock == [lo : Nat, hi : Nat]
RawDescriptor == [block_bitmap : RawBlock, inode_bitmap : RawBlock, inode_table : RawBlock]

(* ext4_fs_open: what a superblock must pass to be used as a file system. *)
OpensAsFilesystem(sb) ==
    ValidSuperblock(sb) /\ GroupCountOk(BlocksCount(sb), sb["blocks_per_group"])

GroupsCount(sb) == GroupQuotient(BlocksCount(sb), sb["blocks_per_group"])

BlockIndexValid(sb, index) == index < BlocksCount(sb)

(* ext4_block_range_valid *)
BlockRangeValid(sb, start, count) ==
    /\ count # 0
    /\ start < BlocksCount(sb)
    /\ count <= BlocksCount(sb) - start

ProductFits(a, b) == a <= (W64 - 1) \div b

(* The fields that are uint32_t on disk and are multiplied or added here.  *)
WordFields == {"inodes_count", "blocks_count_lo", "blocks_count_hi", "first_data_block",
               "blocks_per_group", "inodes_per_group"}

-----------------------------------------------------------------------------
(* descriptor_table_offset *)

TableBlock(sb) == sb["first_data_block"] + 1

DescriptorOffset(sb, group) ==
    U64(U64(TableBlock(sb) * BlockSize(sb)) + U64(group * GroupDescSize(sb)))

DescriptorOffsetOk(sb, group) ==
    /\ group < GroupsCount(sb)
    /\ BlockIndexValid(sb, TableBlock(sb))
    /\ ProductFits(TableBlock(sb), BlockSize(sb))
    /\ ProductFits(group, GroupDescSize(sb))
    /\ U64(TableBlock(sb) * BlockSize(sb)) <= W64 - 1 - U64(group * GroupDescSize(sb))
    /\ OffsetRangeValid(DescriptorOffset(sb, group), GroupDescSize(sb))

(* ext4_read_group_desc puts the halves together. *)
CombineBlock(sb, raw) ==
    IF GroupDescSize(sb) >= 64 THEN raw.lo + raw.hi * W32 ELSE raw.lo

(* Mutated form of InodeTableBlocks: the last, partial block is forgotten. *)
InodeTableBlocksDown(sb) == U64(sb["inodes_per_group"] * InodeSize(sb)) \div BlockSize(sb)

InodeTableBlocks(sb) ==
    U64(U64(sb["inodes_per_group"] * InodeSize(sb)) + BlockSize(sb) - 1) \div BlockSize(sb)

(* validate_group_desc *)
ValidDescriptor(sb, raw) ==
    /\ \A field \in DOMAIN raw :
        /\ CombineBlock(sb, raw[field]) # 0
        /\ BlockIndexValid(sb, CombineBlock(sb, raw[field]))
    /\ BlockRangeValid(sb, CombineBlock(sb, raw.inode_table), InodeTableBlocks(sb))

-----------------------------------------------------------------------------
(* ext4_inode.c *)

(* validate_inode_number *)
ValidInodeNumber(sb, number) ==
    /\ number # 0 /\ number <= sb["inodes_count"]
    /\ sb["inodes_per_group"] # 0

GroupOf(sb, number) == (number - 1) \div sb["inodes_per_group"]

IndexInGroup(sb, number) == (number - 1) % sb["inodes_per_group"]

InodeOffset(sb, number, table) ==
    U64(U64(table * BlockSize(sb)) + U64(IndexInGroup(sb, number) * InodeSize(sb)))

(* ext4_inode_offset: the tests made before each product and sum. *)
InodeOffsetOk(sb, number, table) ==
    /\ ProductFits(table, BlockSize(sb))
    /\ ProductFits(IndexInGroup(sb, number), InodeSize(sb))
    /\ U64(table * BlockSize(sb)) <= W64 - 1 - U64(IndexInGroup(sb, number) * InodeSize(sb))
    /\ OffsetRangeValid(InodeOffset(sb, number, table), InodeSize(sb))
=============================================================================

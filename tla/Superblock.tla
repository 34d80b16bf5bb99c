----------------------------- MODULE Superblock -----------------------------
(***************************************************************************)
(* The decoded ext4 superblock and the pure functions the program computes *)
(* from it (ext4_super.c, ext4_backup.c).  A superblock copy is a function *)
(* from the names of the fields that steer the control flow to numbers.    *)
(*                                                                         *)
(* C arithmetic is unsigned and wraps: W32 and W64 == W32 * W32 are the    *)
(* moduli of uint32_t and uint64_t, OffMax is LLONG_MAX, the largest       *)
(* off_t.  They are parameters, so that TLC can meet every wrap and limit  *)
(* with small numbers, and the lemmas hold for every width.                *)
(***************************************************************************)
EXTENDS Integers, FiniteSets

CONSTANTS W32, OffMax

ASSUME WidthAssumption ==
    /\ W32 \in Nat /\ W32 > 1
    /\ OffMax \in Nat /\ OffMax > 2048

W64 == W32 * W32

U64(n) == n % W64

EXT4_SUPERBLOCK_OFFSET   == 1024
EXT4_SUPERBLOCK_SIZE     == 1024
EXT4_SUPER_MAGIC         == 61267           \* 0xEF53
EXT4_MIN_BLOCK_SIZE      == 1024
EXT4_MAX_BLOCK_SIZE      == 65536
EXT4_GOOD_OLD_INODE_SIZE == 128
EXT4_GOOD_OLD_DESC_SIZE  == 32

-----------------------------------------------------------------------------
(* The fields, grouped in byte order.  A transfer of the 1024 bytes that   *)
(* stops early has moved a prefix of these groups: Part[1] are bytes 0-55, *)
(* Part[2] bytes 56-119, Part[3] bytes 120-511, Part[4] bytes 512-1023.    *)
(* "incompat64" is the 64BIT bit of s_feature_incompat; "early", "late"    *)
(* stand for the bytes of Part[2] and Part[4] that nothing branches on     *)
(* (feature words, timestamps, checksum).                                  *)

Part == << {"inodes_count", "blocks_count_lo", "first_data_block",
            "log_block_size", "blocks_per_group", "inodes_per_group"},
           {"magic", "inode_size", "incompat64", "uuid", "early"},
           {"desc_size", "blocks_count_hi"},
           {"late"} >>

NParts == 4

Field == UNION {Part[i] : i \in 1..NParts}

Copy == [Field -> Nat]

-----------------------------------------------------------------------------
(* ext4_super.c *)

BlockSize(sb) ==
    IF sb["log_block_size"] > 6 THEN 0
    ELSE EXT4_MIN_BLOCK_SIZE * <<1, 2, 4, 8, 16, 32, 64>>[sb["log_block_size"] + 1]

BlocksCount(sb) ==
    IF sb["incompat64"] # 0 \/ sb["blocks_count_hi"] # 0
    THEN sb["blocks_count_lo"] + sb["blocks_count_hi"] * W32
    ELSE sb["blocks_count_lo"]

InodeSize(sb) ==
    IF sb["inode_size"] = 0 THEN EXT4_GOOD_OLD_INODE_SIZE ELSE sb["inode_size"]

GroupDescSize(sb) ==
    IF sb["incompat64"] = 0 THEN EXT4_GOOD_OLD_DESC_SIZE
    ELSE IF sb["desc_size"] = 0 THEN 64
    ELSE sb["desc_size"]

PowersOfTwo == {2^k : k \in 0..16}

(* ext4_validate_superblock *)
ValidSuperblock(sb) ==
    /\ sb["magic"] = EXT4_SUPER_MAGIC
    /\ BlockSize(sb) >= EXT4_MIN_BLOCK_SIZE
    /\ BlockSize(sb) <= EXT4_MAX_BLOCK_SIZE
    /\ BlocksCount(sb) # 0
    /\ sb["inodes_count"] # 0
    /\ sb["blocks_per_group"] # 0
    /\ sb["inodes_per_group"] # 0
    /\ InodeSize(sb) >= EXT4_GOOD_OLD_INODE_SIZE
    /\ InodeSize(sb) <= BlockSize(sb)
    /\ InodeSize(sb) \in PowersOfTwo
    /\ GroupDescSize(sb) >= EXT4_GOOD_OLD_DESC_SIZE
    /\ GroupDescSize(sb) <= BlockSize(sb)
    /\ GroupDescSize(sb) % 8 = 0

(* The quotient of calculate_group_count and safe_group_count, with the    *)
(* 64-bit sum that may wrap, and the test both put on it.                  *)
GroupQuotient(blocks, perGroup) == U64(blocks + perGroup - 1) \div perGroup

(* Mutated form of GroupCountOk: no group at all is accepted. *)
GroupCountOrNone(blocks, perGroup) ==
    perGroup # 0 /\ GroupQuotient(blocks, perGroup) <= W32 - 1

GroupCountOk(blocks, perGroup) ==
    /\ perGroup # 0
    /\ GroupQuotient(blocks, perGroup) # 0
    /\ GroupQuotient(blocks, perGroup) <= W32 - 1

(* offset > OffMax - size compares unsigned numbers once the first two     *)
(* tests have passed, so the difference cannot wrap.                       *)
OffsetRangeValid(offset, size) ==
    /\ offset <= OffMax
    /\ size <= OffMax
    /\ offset <= OffMax - size

-----------------------------------------------------------------------------
(* ext4_backup.c *)

IsPowerOf(value, base) ==
    LET strip[v \in Nat] == IF v # 0 /\ v % base = 0 THEN strip[v \div base]
                            ELSE v
    IN  value >= 1 /\ strip[value] = 1

HasSparseSuper(group) ==
    \/ group \in {0, 1}
    \/ \E base \in {3, 5, 7} : IsPowerOf(group, base)

(* safe_group_count: the geometry discovery needs.  Neither the magic nor  *)
(* the rest of ValidSuperblock is asked for.                               *)
UsableGeometry(sb) ==
    /\ BlockSize(sb) >= EXT4_MIN_BLOCK_SIZE
    /\ BlockSize(sb) <= EXT4_MAX_BLOCK_SIZE
    /\ BlocksCount(sb) # 0
    /\ GroupCountOk(BlocksCount(sb), sb["blocks_per_group"])

BackupGroups(sb) ==
    {g \in 1..(GroupQuotient(BlocksCount(sb), sb["blocks_per_group"]) - 1) :
        HasSparseSuper(g)}

BackupBlock(sb, group) ==
    U64(U64(group * sb["blocks_per_group"]) + sb["first_data_block"])

BackupOffset(sb, group) == U64(BackupBlock(sb, group) * BlockSize(sb))

(* backup_offset: the tests made before each product and sum. *)
BackupOffsetOk(sb, group) ==
    /\ group <= (W64 - 1) \div sb["blocks_per_group"]
    /\ U64(group * sb["blocks_per_group"]) <= W64 - 1 - sb["first_data_block"]
    /\ BackupBlock(sb, group) <= (W64 - 1) \div BlockSize(sb)
    /\ OffsetRangeValid(BackupOffset(sb, group), EXT4_SUPERBLOCK_SIZE)
    /\ BackupOffset(sb, group) % BlockSize(sb) = 0
=============================================================================

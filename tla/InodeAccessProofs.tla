------------------------- MODULE InodeAccessProofs -------------------------
(***************************************************************************)
(* Proofs about Geometry and InodeAccess for every image and every width:  *)
(* an accepted number of groups is exact, a located inode is a slot of the *)
(* inode table of its group, the state has its type and the recursion its  *)
(* depth, and the visit of an extent tree hands over exactly the blocks    *)
(* the tree maps.                                                          *)
(***************************************************************************)
EXTENDS InodeAccess, FiniteSetTheorems, SequenceTheorems, WellFoundedInduction, TLAPS

-----------------------------------------------------------------------------
(* Arithmetic *)

(* The width of uint64_t is the square of that of uint32_t. *)
LEMMA Widths == W32 \in Nat /\ W32 > 1 /\ W64 \in Nat /\ W64 > W32 /\ OffMax \in Nat
<1>1. \A a \in Nat : a > 1 => a * a \in Nat /\ a * a > a
    OBVIOUS
<1> QED
    BY <1>1, WidthAssumption DEF W64

(* Division with remainder. *)
LEMMA Division ==
    ASSUME NEW a \in Nat, NEW b \in Nat, b > 0
    PROVE  /\ a \div b \in Nat /\ a % b \in 0..(b - 1)
           /\ a = b * (a \div b) + (a % b)
    OBVIOUS

(* Products grow with their factors. *)
LEMMA Monotonic ==
    ASSUME NEW a \in Nat, NEW q \in Nat, NEW b \in Nat, a <= q
    PROVE  a * b \in Nat /\ a * b <= q * b
    OBVIOUS

(* The test a <= UINT64_MAX / b is exact: the product does not wrap. *)
LEMMA ProductTest ==
    ASSUME NEW a \in Nat, NEW b \in Nat, b > 0, ProductFits(a, b)
    PROVE  a * b \in 0..(W64 - 1) /\ U64(a * b) = a * b
<1> DEFINE q == (W64 - 1) \div b
<1>1. W64 - 1 \in Nat /\ W64 \in Nat /\ W64 > 0
    BY Widths
<1>2. q \in Nat /\ q * b <= W64 - 1
  <2>1. q \in Nat /\ (W64 - 1) % b \in 0..(b - 1) /\ W64 - 1 = b * q + ((W64 - 1) % b)
      BY <1>1, Division
  <2> HIDE DEF q
  <2>2. b * q = q * b /\ b * q \in Nat
      BY <2>1
  <2> QED
      BY <1>1, <2>1, <2>2
<1>3. a <= q
    BY DEF ProductFits
<1> HIDE DEF q
<1>4. a * b \in Nat /\ a * b <= q * b
    BY <1>2, <1>3, Monotonic
<1>5. a * b \in Nat /\ a * b < W64
  <2>1. q * b \in Nat
      BY <1>2
  <2> QED
      BY <1>1, <1>2, <1>4, <2>1
<1> QED
    BY <1>1, <1>5 DEF U64

(* calculate_group_count and safe_group_count, on 64-bit counts: the sum   *)
(* may wrap, but then the quotient is 0 and refused, so that an accepted   *)
(* quotient is the ceiling of blocks / perGroup.                           *)
LEMMA AcceptedCountIsCeiling ==
    ASSUME NEW blocks \in 1..(W64 - 1), NEW perGroup \in 1..(W32 - 1),
           GroupCountOk(blocks, perGroup)
    PROVE  LET n == GroupQuotient(blocks, perGroup)
           IN  /\ n \in Nat
               /\ (n - 1) * perGroup < blocks
               /\ blocks <= n * perGroup
<1> DEFINE s == blocks + perGroup - 1
           n == GroupQuotient(blocks, perGroup)
<1>1. blocks \in Nat /\ perGroup \in Nat /\ perGroup > 0 /\ perGroup < W64 /\ blocks < W64
    BY Widths
<1>2. s \in Nat /\ s < W64 + perGroup - 1
    BY <1>1, Widths
<1>3. s < W64
  <2>1. SUFFICES ASSUME s >= W64 PROVE FALSE
      BY <1>2, Widths
  <2>2. U64(s) = s - W64
    <3>1. \A a, w \in Nat : w > 0 /\ w <= a /\ a < w + w => a % w = a - w
        OBVIOUS
    <3> QED
        BY <1>1, <1>2, <2>1, <3>1, Widths DEF U64
  <2>3. s - W64 \in Nat /\ s - W64 < perGroup
      BY <1>1, <1>2, <2>1, Widths
  <2>4. n = 0
    <3>1. \A a, b \in Nat : a < b => a \div b = 0
        OBVIOUS
    <3> QED
        BY <1>1, <2>2, <2>3, <3>1 DEF GroupQuotient
  <2> QED
      BY <2>4 DEF GroupCountOk
<1>4. U64(s) = s
    BY <1>2, <1>3, Widths DEF U64
<1>5. n = s \div perGroup
    BY <1>4 DEF GroupQuotient
<1>6. n \in Nat /\ s % perGroup \in 0..(perGroup - 1) /\ s = perGroup * n + (s % perGroup)
    BY <1>1, <1>2, <1>5, Division
<1>7. \A k, p, r, b \in Nat :
          p > 0 /\ r < p /\ b + p - 1 = p * k + r => (k - 1) * p < b /\ b <= k * p
    OBVIOUS
<1> HIDE DEF n
<1>8. s % perGroup \in Nat /\ s % perGroup < perGroup
    BY <1>1, <1>6
<1>9. (n - 1) * perGroup < blocks /\ blocks <= n * perGroup
    BY <1>1, <1>6, <1>7, <1>8
<1> QED
    BY <1>6, <1>9 DEF n

-----------------------------------------------------------------------------
(* Superblocks that passed ext4_fs_open *)

(* The numbers a superblock gives, and their ranges once it is validated.  *)
LEMMA GeometryRanges ==
    ASSUME NEW b \in Copy, \A f \in WordFields : b[f] < W32, OpensAsFilesystem(b)
    PROVE  /\ BlockSize(b) \in Nat /\ BlockSize(b) >= 1024 /\ BlockSize(b) <= 65536
           /\ InodeSize(b) \in Nat /\ InodeSize(b) >= 128 /\ InodeSize(b) <= BlockSize(b)
           /\ GroupDescSize(b) \in Nat
           /\ BlocksCount(b) \in 1..(W64 - 1)
           /\ b["blocks_per_group"] \in 1..(W32 - 1)
           /\ b["inodes_per_group"] \in 1..(W32 - 1)
           /\ b["inodes_count"] \in Nat
<1>1. \A f \in Field : b[f] \in Nat
    BY DEF Copy
<1>2. WordFields \subseteq Field /\ {"log_block_size", "inode_size", "incompat64", "desc_size"} \subseteq Field
    BY DEF WordFields, Field, Part, NParts
<1>3. /\ b["blocks_count_lo"] \in 0..(W32 - 1) /\ b["blocks_count_hi"] \in 0..(W32 - 1)
      /\ b["blocks_per_group"] \in 1..(W32 - 1) /\ b["inodes_per_group"] \in 1..(W32 - 1)
      /\ b["inodes_count"] \in Nat
    BY <1>1, <1>2, Widths DEF WordFields, OpensAsFilesystem, ValidSuperblock
<1>4. BlockSize(b) \in Nat
  <2>1. CASE b["log_block_size"] > 6
      BY <2>1 DEF BlockSize
  <2>2. CASE ~(b["log_block_size"] > 6)
    <3>1. b["log_block_size"] + 1 \in 1..7
        BY <1>1, <1>2, <2>2
    <3>2. <<1, 2, 4, 8, 16, 32, 64>>[b["log_block_size"] + 1] \in Nat
        BY <3>1
    <3> QED
        BY <2>2, <3>2 DEF BlockSize, EXT4_MIN_BLOCK_SIZE
  <2> QED
      BY <2>1, <2>2
<1>5. InodeSize(b) \in Nat /\ GroupDescSize(b) \in Nat
    BY <1>1, <1>2 DEF InodeSize, GroupDescSize, EXT4_GOOD_OLD_INODE_SIZE, EXT4_GOOD_OLD_DESC_SIZE
<1>6. /\ BlockSize(b) >= 1024 /\ BlockSize(b) <= 65536
      /\ InodeSize(b) >= 128 /\ InodeSize(b) <= BlockSize(b)
    BY <1>4, <1>5 DEF OpensAsFilesystem, ValidSuperblock, EXT4_MIN_BLOCK_SIZE,
                      EXT4_MAX_BLOCK_SIZE, EXT4_GOOD_OLD_INODE_SIZE
<1>7. BlocksCount(b) \in 1..(W64 - 1)
  <2>1. \A lo, hi \in 0..(W32 - 1) : lo + hi * W32 \in Nat /\ lo + hi * W32 < W32 * W32
    <3>1. ASSUME NEW lo \in 0..(W32 - 1), NEW hi \in 0..(W32 - 1)
          PROVE  lo + hi * W32 \in Nat /\ lo + hi * W32 < W32 * W32
      <4>1. hi * W32 <= (W32 - 1) * W32 /\ hi * W32 \in Nat
          BY Widths, Monotonic
      <4>2. (W32 - 1) * W32 = W32 * W32 - W32 /\ W32 * W32 \in Nat
          BY Widths
      <4> QED
          BY <4>1, <4>2, Widths
    <3> QED
        BY <3>1
  <2>2. BlocksCount(b) \in Nat /\ BlocksCount(b) < W64
      BY <1>3, <2>1, Widths DEF BlocksCount, W64
  <2>3. BlocksCount(b) # 0
      BY DEF OpensAsFilesystem, ValidSuperblock
  <2> QED
      BY <2>2, <2>3, Widths
<1> QED
    BY <1>3, <1>4, <1>5, <1>6, <1>7

(* ext4_inode_offset: the tests before its products and its sum exclude    *)
(* every wrap, and what passes is addressable with off_t.                  *)
LEMMA InodeOffsetExact ==
    ASSUME NEW b \in Copy, \A f \in WordFields : b[f] < W32, OpensAsFilesystem(b),
           NEW n \in Nat, ValidInodeNumber(b, n), NEW t \in Nat, InodeOffsetOk(b, n, t)
    PROVE  /\ IndexInGroup(b, n) \in Nat /\ IndexInGroup(b, n) < b["inodes_per_group"]
           /\ InodeOffset(b, n, t) = t * BlockSize(b) + IndexInGroup(b, n) * InodeSize(b)
           /\ InodeOffset(b, n, t) \in 0..(W64 - 1)
           /\ InodeOffset(b, n, t) + InodeSize(b) <= OffMax
<1> DEFINE bs == BlockSize(b)
           is == InodeSize(b)
           i == IndexInGroup(b, n)
<1>1. /\ bs \in Nat /\ bs > 0 /\ is \in Nat /\ is > 0
      /\ b["inodes_per_group"] \in Nat /\ b["inodes_per_group"] > 0
    BY GeometryRanges, Widths
<1>2. i \in Nat /\ i < b["inodes_per_group"]
  <2>1. n - 1 \in Nat
      BY DEF ValidInodeNumber
  <2>2. (n - 1) % b["inodes_per_group"] \in 0..(b["inodes_per_group"] - 1)
      BY <1>1, <2>1, Division
  <2> QED
      BY <1>1, <2>2 DEF IndexInGroup
<1>3. ProductFits(t, bs) /\ ProductFits(i, is)
    BY DEF InodeOffsetOk
<1>4. U64(t * bs) <= W64 - 1 - U64(i * is)
    BY DEF InodeOffsetOk
<1>5. OffsetRangeValid(InodeOffset(b, n, t), is)
    BY DEF InodeOffsetOk
<1>6. InodeOffset(b, n, t) = U64(U64(t * bs) + U64(i * is))
    BY DEF InodeOffset
<1> HIDE DEF bs, is, i
<1>7. t * bs \in 0..(W64 - 1) /\ U64(t * bs) = t * bs
    BY <1>1, <1>3, ProductTest
<1>8. i * is \in 0..(W64 - 1) /\ U64(i * is) = i * is
    BY <1>1, <1>2, <1>3, ProductTest
<1>9. t * bs + i * is \in 0..(W64 - 1)
    BY <1>4, <1>7, <1>8, Widths
<1>10. U64(t * bs + i * is) = t * bs + i * is
    BY <1>9, Widths DEF U64
<1>11. InodeOffset(b, n, t) = t * bs + i * is
    BY <1>6, <1>7, <1>8, <1>10
<1>12. InodeOffset(b, n, t) + is <= OffMax
    BY <1>1, <1>5, <1>9, <1>11, Widths DEF OffsetRangeValid
<1> QED
    BY <1>2, <1>9, <1>11, <1>12 DEF bs, is, i

(* The first byte behind an inode table that starts at block t. *)
EndOfTable(b, t) == t * BlockSize(b) + b["inodes_per_group"] * InodeSize(b)

(* validate_group_desc: the blocks of an inode table cover it, and they    *)
(* are blocks of the file system.                                          *)
LEMMA TableInFilesystem ==
    ASSUME W32 >= EXT4_MAX_BLOCK_SIZE,
           NEW b \in Copy, \A f \in WordFields : b[f] < W32, OpensAsFilesystem(b),
           NEW t \in Nat, BlockRangeValid(b, t, InodeTableBlocks(b))
    PROVE  /\ EndOfTable(b, t) \in Nat \ {0}
           /\ (EndOfTable(b, t) - 1) \div BlockSize(b) < BlocksCount(b)
<1> DEFINE bs == BlockSize(b)
           size == b["inodes_per_group"] * InodeSize(b)
           count == InodeTableBlocks(b)
           blocks == BlocksCount(b)
<1>1. bs \in Nat /\ bs >= 1024 /\ bs <= 65536 /\ blocks \in Nat
    BY GeometryRanges, Widths
<1>2. size \in Nat /\ size > 0 /\ size + bs - 1 < W64
  <2>1. /\ b["inodes_per_group"] \in Nat /\ b["inodes_per_group"] >= 1 /\ b["inodes_per_group"] <= W32 - 1
        /\ InodeSize(b) \in Nat /\ InodeSize(b) >= 1 /\ InodeSize(b) <= W32
      BY GeometryRanges, Widths DEF EXT4_MAX_BLOCK_SIZE
  <2>2. \A p, z \in Nat : p >= 1 /\ z >= 1 /\ p <= W32 - 1 /\ z <= W32 =>
            p * z \in Nat /\ p * z > 0 /\ p * z <= W32 * W32 - W32
    <3>1. ASSUME NEW p \in Nat, NEW z \in Nat, p >= 1, z >= 1, p <= W32 - 1, z <= W32
          PROVE  p * z \in Nat /\ p * z > 0 /\ p * z <= W32 * W32 - W32
      <4>1. p * z \in Nat /\ p * z <= (W32 - 1) * z
          BY <3>1, Widths, Monotonic
      <4>2. z * (W32 - 1) <= W32 * (W32 - 1)
          BY <3>1, Widths, Monotonic
      <4>3. (W32 - 1) * z = z * (W32 - 1) /\ W32 * (W32 - 1) = W32 * W32 - W32 /\ W32 * W32 \in Nat
          BY <3>1, Widths
      <4>4. p * z > 0
          BY <3>1
      <4> QED
          BY <4>1, <4>2, <4>3, <4>4, <3>1, Widths
    <3> QED
        BY <3>1
  <2>3. size \in Nat /\ size > 0 /\ size <= W32 * W32 - W32
      BY <2>1, <2>2
  <2> HIDE DEF size
  <2>4. bs <= W32
      BY <1>1, Widths DEF EXT4_MAX_BLOCK_SIZE
  <2> HIDE DEF bs
  <2>5. W32 * W32 \in Nat /\ W64 = W32 * W32
      BY Widths DEF W64
  <2> QED
      BY <1>1, <2>3, <2>4, <2>5, Widths
<1>3. count = (size + bs - 1) \div bs
  <2>1. U64(size) = size /\ U64(size + bs - 1) = size + bs - 1
    <3>1. \A a \in Nat : a < W64 => U64(a) = a
        BY Widths DEF U64
    <3>2. size + bs - 1 \in Nat /\ size < W64 /\ size + bs - 1 < W64
        BY <1>1, <1>2, Widths
    <3> QED
        BY <1>2, <3>1, <3>2
  <2>2. count = U64(U64(size) + bs - 1) \div bs
      BY DEF InodeTableBlocks
  <2> QED
      BY <2>1, <2>2
<1>4. t < blocks /\ count <= blocks - t
    BY DEF BlockRangeValid
<1> HIDE DEF bs, size, count, blocks
<1>5. count \in Nat /\ size <= count * bs
  <2> DEFINE r == (size + bs - 1) % bs
  <2>1. size + bs - 1 \in Nat
      BY <1>1, <1>2
  <2>2. count \in Nat /\ r \in 0..(bs - 1) /\ size + bs - 1 = bs * count + r
    <3>1. bs > 0
        BY <1>1
    <3> QED
        BY <1>1, <1>3, <2>1, <3>1, Division
  <2> HIDE DEF r
  <2>3. bs * count = count * bs /\ bs * count \in Nat
      BY <1>1, <2>2
  <2> QED
      BY <1>1, <1>2, <2>2, <2>3
<1>6. t * bs + size <= blocks * bs
  <2>1. (t + count) * bs <= blocks * bs
      BY <1>1, <1>4, <1>5, Monotonic
  <2>2. (t + count) * bs = t * bs + count * bs /\ t * bs \in Nat /\ count * bs \in Nat
      BY <1>1, <1>5
  <2> QED
      BY <1>1, <1>2, <1>5, <2>1, <2>2
<1>7. t * bs + size \in Nat /\ t * bs + size > 0
    BY <1>1, <1>2
<1>8. ((t * bs + size) - 1) \div bs < blocks
  <2>1. \A a, d, c \in Nat : d > 0 /\ a < c * d => a \div d < c
      OBVIOUS
  <2>2. (t * bs + size) - 1 \in Nat /\ (t * bs + size) - 1 < blocks * bs
    <3>1. blocks * bs \in Nat
        BY <1>1
    <3>2. \A x, y \in Nat : 0 < x /\ x <= y => x - 1 \in Nat /\ x - 1 < y
        OBVIOUS
    <3> QED
        BY <1>6, <1>7, <3>1, <3>2
  <2> QED
      BY <1>1, <2>1, <2>2
<1>9. EndOfTable(b, t) = t * bs + size
    BY DEF EndOfTable, bs, size
<1> QED
    BY <1>7, <1>8, <1>9 DEF bs, blocks

-----------------------------------------------------------------------------
(* The invariant *)

(* The descriptor of a group that was read and validated gives this table. *)
TableOf(group, block) ==
    /\ ValidDescriptor(sb, DescriptorAt(group))
    /\ block = CombineBlock(sb, DescriptorAt(group).inode_table)

(* An inode that was located passed every test, with its own group's table. *)
Placed(l) ==
    /\ l.number \in Nat /\ ValidInodeNumber(sb, l.number)
    /\ l.group = GroupOf(sb, l.number)
    /\ TableOf(l.group, l.table)
    /\ InodeOffsetOk(sb, l.number, l.table)
    /\ l.offset = InodeOffset(sb, l.number, l.table)

IInv ==
    /\ volume \in Volumes
    /\ pc \notin {"closed", "super", "done"} \/ located # {} => OpensAsFilesystem(sb)
    /\ pc \in {"descriptor", "locate"} => number \in Nat /\ ValidInodeNumber(sb, number)
    /\ pc = "locate" => TableOf(GroupOf(sb, number), table)
    /\ \A l \in located : Placed(l)

(* What the assumption says of the image at hand. *)
LEMMA VolumeType ==
    ASSUME volume \in Volumes
    PROVE  /\ sb \in Copy /\ \A f \in WordFields : sb[f] < W32
           /\ \A g \in DOMAIN volume.descriptor : volume.descriptor[g] \in RawDescriptor
    BY InodeAccessAssumption DEF sb

(* Every step of the program keeps the invariant. *)
LEMMA InvStep == IInv /\ [Next]_vars => IInv'
<1> SUFFICES ASSUME IInv, [Next]_vars PROVE IInv'
    OBVIOUS
<1> USE DEF IInv, TableOf, Placed, DescriptorAt, sb, command
<1>1. CASE OpenImage
    BY <1>1 DEF OpenImage
<1>2. CASE Mount
    BY <1>2 DEF Mount
<1>3. CASE Refuse
    BY <1>3 DEF Refuse
<1>4. CASE Close
    BY <1>4 DEF Close
<1>5. ASSUME NEW n \in Numbers, Request(n) PROVE IInv'
    BY <1>5, InodeAccessAssumption DEF Request, Fail
<1>6. CASE ReadDescriptor
    BY <1>6 DEF ReadDescriptor, Fail
<1>7. CASE Locate
    BY <1>7 DEF Locate, Fail
<1>8. CASE EnterTree \/ VisitDirect \/ InodeFails
    BY <1>8 DEF EnterTree, VisitDirect, InodeFails, Fail, Succeed
<1>9. CASE VisitExtent \/ Descend \/ ReadBeyondNode \/ Ascend
    BY <1>9 DEF VisitExtent, Descend, ReadBeyondNode, Ascend, AtEntry, Fail, Succeed
<1>10. CASE UNCHANGED vars
    BY <1>10 DEF vars
<1> QED
    BY <1>1, <1>2, <1>3, <1>4, <1>5, <1>6, <1>7, <1>8, <1>9, <1>10 DEF Next

(* The invariant holds in every reachable state.                           *)
LEMMA Invariant == Spec => []IInv
<1>1. Init => IInv
    BY DEF Init, IInv
<1> QED
    BY <1>1, InvStep, PTL DEF Spec

(* The number of groups that guards every access to a group is the exact   *)
(* ceiling, on every image and although the sum in it may wrap.            *)
THEOREM GroupCountIsExact == Spec => []GroupsAreExact
<1>1. IInv => GroupsAreExact
  <2> SUFFICES ASSUME IInv, pc \notin {"closed", "super", "done"}
               PROVE  LET n == GroupsCount(sb)
                      IN  /\ (n - 1) * sb["blocks_per_group"] < BlocksCount(sb)
                          /\ BlocksCount(sb) <= n * sb["blocks_per_group"]
      BY DEF GroupsAreExact
  <2>1. /\ sb \in Copy /\ \A f \in WordFields : sb[f] < W32
        /\ OpensAsFilesystem(sb)
      BY VolumeType DEF IInv
  <2>2. BlocksCount(sb) \in 1..(W64 - 1) /\ sb["blocks_per_group"] \in 1..(W32 - 1)
      BY <2>1, GeometryRanges
  <2>3. GroupCountOk(BlocksCount(sb), sb["blocks_per_group"])
      BY <2>1 DEF OpensAsFilesystem
  <2> QED
      BY <2>2, <2>3, AcceptedCountIsCeiling DEF GroupsCount
<1> QED
    BY <1>1, Invariant, PTL

-----------------------------------------------------------------------------
(* Located inodes *)

(* The block of a table is a number. *)
LEMMA TableBlockType ==
    ASSUME volume \in Volumes, NEW group
    PROVE  CombineBlock(sb, DescriptorAt(group).inode_table) \in Nat
<1>1. DescriptorAt(group) \in RawDescriptor
    BY VolumeType DEF DescriptorAt, Zero, RawDescriptor, RawBlock
<1>2. /\ DescriptorAt(group).inode_table.lo \in Nat
      /\ DescriptorAt(group).inode_table.hi \in Nat
    BY <1>1 DEF RawDescriptor, RawBlock
<1>3. \A a, c \in Nat : a + c * W32 \in Nat
    BY Widths
<1> QED
    BY <1>2, <1>3 DEF CombineBlock

(* One located inode: a slot of its table, whose end is in the file system. *)
LEMMA PlacedInTable ==
    ASSUME W32 >= EXT4_MAX_BLOCK_SIZE, volume \in Volumes, OpensAsFilesystem(sb),
           NEW l, Placed(l)
    PROVE  /\ InTable(l)
           /\ l.table \in Nat /\ l.offset \in Nat
           /\ IndexInGroup(sb, l.number) \in Nat
           /\ l.offset = l.table * BlockSize(sb) + IndexInGroup(sb, l.number) * InodeSize(sb)
<1> DEFINE bs == BlockSize(sb)
           is == InodeSize(sb)
           i == IndexInGroup(sb, l.number)
           perGroup == sb["inodes_per_group"]
<1>1. sb \in Copy /\ \A f \in WordFields : sb[f] < W32
    BY VolumeType
<1>2. l.table \in Nat
    BY TableBlockType DEF Placed, TableOf
<1>3. /\ bs \in Nat /\ is \in Nat /\ is > 0
      /\ perGroup \in Nat /\ perGroup > 0
    BY <1>1, GeometryRanges, Widths
<1>4. /\ i \in Nat /\ i < perGroup
      /\ l.offset = l.table * bs + i * is
      /\ l.offset \in Nat /\ l.offset + is <= OffMax
    BY <1>1, <1>2, InodeOffsetExact DEF Placed
<1>5. BlockRangeValid(sb, l.table, InodeTableBlocks(sb))
    BY DEF Placed, TableOf, ValidDescriptor
<1>6. TableEnd(l) \in Nat /\ TableEnd(l) = l.table * bs + perGroup * is
  <2>1. TableEnd(l) = EndOfTable(sb, l.table)
      BY DEF TableEnd, TableStart, EndOfTable
  <2> QED
      BY <1>1, <1>2, <1>5, <2>1, TableInFilesystem DEF TableEnd, TableStart
<1>7. (TableEnd(l) - 1) \div bs < BlocksCount(sb)
  <2>1. TableEnd(l) = EndOfTable(sb, l.table)
      BY DEF TableEnd, TableStart, EndOfTable
  <2> QED
      BY <1>1, <1>2, <1>5, <2>1, TableInFilesystem
<1>8. TableStart(l) = l.table * bs
    BY DEF TableStart
<1> HIDE DEF bs, is, i, perGroup
<1>9. l.table * bs \in Nat /\ i * is \in Nat /\ (i * is) % is = 0
  <2>1. \A a, b \in Nat : b > 0 => a * b \in Nat /\ (a * b) % b = 0
      OBVIOUS
  <2> QED
      BY <1>2, <1>3, <1>4, <2>1
<1>10. i * is + is <= perGroup * is
  <2>1. (i + 1) * is <= perGroup * is
      BY <1>3, <1>4, Monotonic
  <2>2. (i + 1) * is = i * is + is
      BY <1>3, <1>4
  <2> QED
      BY <2>1, <2>2
<1>11. /\ TableStart(l) <= l.offset /\ l.offset + is <= TableEnd(l)
       /\ (l.offset - TableStart(l)) % is = 0
  <2>1. l.offset - TableStart(l) = i * is
      BY <1>4, <1>8, <1>9
  <2>2. perGroup * is \in Nat
      BY <1>3
  <2> QED
      BY <1>3, <1>4, <1>6, <1>8, <1>9, <1>10, <2>1, <2>2
<1>12. InTable(l)
    BY <1>4, <1>7, <1>11 DEF InTable, bs, is
<1> QED
    BY <1>2, <1>4, <1>12 DEF bs, is, i

(* Two inodes of one group are two slots. *)
LEMMA SlotsApart ==
    ASSUME NEW i \in Nat, NEW j \in Nat, i # j, NEW size \in Nat, size > 0, NEW start \in Nat
    PROVE  ~(start + i * size < start + j * size + size /\ start + j * size < start + i * size + size)
<1>1. \A a, b \in Nat : a < b => a * size + size <= b * size /\ a * size \in Nat /\ b * size \in Nat
  <2>1. ASSUME NEW a \in Nat, NEW b \in Nat, a < b
        PROVE  a * size + size <= b * size /\ a * size \in Nat /\ b * size \in Nat
    <3>1. (a + 1) * size <= b * size
        BY <2>1, Monotonic
    <3>2. (a + 1) * size = a * size + size /\ a * size \in Nat /\ b * size \in Nat
        OBVIOUS
    <3> QED
        BY <3>1, <3>2
  <2> QED
      BY <2>1
<1>2. i < j \/ j < i
    OBVIOUS
<1> QED
    BY <1>1, <1>2

(* A number is determined by its group and its index in it. *)
LEMMA NumberFromPlace ==
    ASSUME NEW p \in Nat, p > 0, NEW n \in Nat, NEW m \in Nat,
           n \div p = m \div p, n % p = m % p
    PROVE  n = m
<1>1. n = p * (n \div p) + (n % p) /\ m = p * (m \div p) + (m % p)
    BY Division
<1> QED
    BY <1>1

(* Two inode numbers are two places: products and sums of numbers from the *)
(* image, each tested apart, never wrap together; and the places overlap   *)
(* only if the image makes the tables of two groups overlap.  The real     *)
(* width, 2^32, is larger than any block.                                  *)
THEOREM LocatedInPlace ==
    ASSUME W32 >= EXT4_MAX_BLOCK_SIZE
    PROVE  Spec => []InodesInPlace
<1>1. IInv => InodesInPlace
  <2> SUFFICES ASSUME IInv, NEW k \in located
               PROVE  /\ InTable(k)
                      /\ \A l \in located : k.number # l.number /\ Overlap(k, l) =>
                             /\ k.group # l.group
                             /\ TableStart(k) < TableEnd(l) /\ TableStart(l) < TableEnd(k)
      BY DEF InodesInPlace
  <2>1. volume \in Volumes /\ OpensAsFilesystem(sb) /\ Placed(k)
      BY DEF IInv
  <2>2. sb \in Copy /\ \A f \in WordFields : sb[f] < W32
      BY <2>1, VolumeType
  <2>3. /\ BlockSize(sb) \in Nat /\ InodeSize(sb) \in Nat /\ InodeSize(sb) > 0
        /\ sb["inodes_per_group"] \in Nat /\ sb["inodes_per_group"] > 0
      BY <2>1, <2>2, GeometryRanges, Widths
  <2>4. ASSUME NEW l \in located, k.number # l.number, Overlap(k, l)
        PROVE  /\ k.group # l.group
               /\ TableStart(k) < TableEnd(l) /\ TableStart(l) < TableEnd(k)
    <3>1. Placed(l)
        BY DEF IInv
    <3>2. /\ InTable(k) /\ InTable(l) /\ k.offset \in Nat /\ l.offset \in Nat
          /\ k.table \in Nat /\ l.table \in Nat
        BY <2>1, <3>1, PlacedInTable
    <3>3. TableStart(k) \in Nat /\ TableStart(l) \in Nat /\ TableEnd(k) \in Nat /\ TableEnd(l) \in Nat
      <4>1. \A a, b, c, d \in Nat : a * b \in Nat /\ a * b + c * d \in Nat
          OBVIOUS
      <4> QED
          BY <2>3, <3>2, <4>1 DEF TableStart, TableEnd
    <3>4. TableStart(k) < TableEnd(l) /\ TableStart(l) < TableEnd(k)
        BY <2>3, <2>4, <3>2, <3>3 DEF Overlap, InTable
    <3>5. ASSUME k.group = l.group PROVE FALSE
      <4> DEFINE i == IndexInGroup(sb, k.number)
                 j == IndexInGroup(sb, l.number)
                 start == k.table * BlockSize(sb)
      <4>1. k.table = l.table
          BY <2>1, <3>1, <3>5 DEF Placed, TableOf
      <4>2. /\ i \in Nat /\ k.offset = start + i * InodeSize(sb)
            /\ j \in Nat /\ l.offset = start + j * InodeSize(sb)
          BY <2>1, <3>1, <4>1, PlacedInTable
      <4>3. start \in Nat
          BY <2>3, <3>2
      <4>4. i # j
        <5>1. k.number - 1 \in Nat /\ l.number - 1 \in Nat
            BY <2>1, <3>1 DEF Placed, ValidInodeNumber
        <5>2. (k.number - 1) \div sb["inodes_per_group"] = (l.number - 1) \div sb["inodes_per_group"]
            BY <2>1, <3>1, <3>5 DEF Placed, GroupOf
        <5>3. ASSUME i = j PROVE FALSE
          <6>1. (k.number - 1) % sb["inodes_per_group"] = (l.number - 1) % sb["inodes_per_group"]
              BY <5>3 DEF IndexInGroup
          <6>2. k.number - 1 = l.number - 1
              BY <2>3, <5>1, <5>2, <6>1, NumberFromPlace
          <6>3. k.number \in Nat /\ l.number \in Nat
              BY <2>1, <3>1 DEF Placed
          <6> QED
              BY <2>4, <6>2, <6>3
        <5> QED
            BY <5>3
      <4> HIDE DEF i, j, start
      <4>5. ~(k.offset < l.offset + InodeSize(sb) /\ l.offset < k.offset + InodeSize(sb))
          BY <2>3, <4>2, <4>3, <4>4, SlotsApart
      <4> QED
          BY <2>4, <4>5 DEF Overlap
    <3> QED
        BY <3>4, <3>5
  <2> QED
      BY <2>1, <2>4, PlacedInTable
<1> QED
    BY <1>1, Invariant, PTL
LEMMA Smallest ==
    ASSUME NEW S \in SUBSET Nat, S # {}
    PROVE  \E m \in S : \A k \in S : m <= k
<1> DEFINE below == {0..n : n \in S}
<1>1. below \subseteq FiniteSubsetsOf(Nat) /\ below # {}
    <2>1. \A n \in Nat : IsFiniteSet(0..n) /\ 0..n \in SUBSET Nat
        BY FS_Interval
    <2> QED BY <2>1 DEF FiniteSubsetsOf
<1>2. PICK x \in below : \A y \in below : <<y, x>> \notin StrictSubsetOrdering(Nat)
    <2> HIDE DEF below
    <2> QED
    BY <1>1, FS_StrictSubsetOrderingWellFounded, WFMin
<1>3. PICK m \in S : x = 0..m
    OBVIOUS
<1>4. ASSUME NEW k \in S, k < m PROVE FALSE
    <2>1. 0..k \subseteq 0..m /\ 0..k # 0..m
        <3>1. m \in 0..m /\ m \notin 0..k
            BY <1>4
        <3> QED BY <1>4, <3>1
    <2>2. <<0..k, 0..m>> \in StrictSubsetOrdering(Nat)
        BY <2>1 DEF StrictSubsetOrdering
    <2> QED
        BY <1>2, <1>3, <2>2
<1> QED
    BY <1>4

(* Induction.                                                              *)
LEMMA Induction ==
    ASSUME NEW S, 0 \in S, \A n \in Nat : n \in S => n + 1 \in S
    PROVE  Nat \subseteq S
<1> SUFFICES ASSUME Nat \ S # {} PROVE FALSE
    OBVIOUS
<1>1. PICK m \in Nat \ S : \A k \in Nat \ S : m <= k
    BY Smallest
<1>2. m # 0 /\ m - 1 \in Nat /\ m - 1 + 1 = m
    BY <1>1
<1> QED
    BY <1>1, <1>2

-----------------------------------------------------------------------------
(* What a tree maps *)

Pairs == Seq(Nat \X Nat)

(* Two sequences joined.                                                   *)
Cat(a, b) == a \o b

(* The last k of n parts, in order.                                        *)
LastFrom(part, n, f) == f = [k \in 0..n |-> IF k = 0 THEN << >> ELSE part[n - k + 1] \o f[k - 1]]

Last(part, n, k) == (CHOOSE f : LastFrom(part, n, f))[k]

LEMMA LastExists ==
    ASSUME NEW part, NEW n \in Nat
    PROVE  \E f : LastFrom(part, n, f)
<1> DEFINE Step(s, k) == part[n - k + 1] \o s
           S == {m \in Nat : \E f : f = [k \in 0..m |-> IF k = 0 THEN << >> ELSE Step(f[k - 1], k)]}
<1>1. 0 \in S
  <2> DEFINE f == [k \in 0..0 |-> << >>]
  <2> HIDE DEF Step
  <2>1. f = [k \in 0..0 |-> IF k = 0 THEN << >> ELSE Step(f[k - 1], k)]
      OBVIOUS
  <2> QED
      BY <2>1
<1>2. ASSUME NEW m \in Nat, m \in S
      PROVE  m + 1 \in S
  <2> HIDE DEF Step
  <2>1. PICK f : f = [k \in 0..m |-> IF k = 0 THEN << >> ELSE Step(f[k - 1], k)]
      BY <1>2
  <2> DEFINE g == [k \in 0..(m + 1) |-> IF k <= m THEN f[k] ELSE Step(f[m], k)]
             h == [k \in 0..(m + 1) |-> IF k = 0 THEN << >> ELSE Step(g[k - 1], k)]
  <2>2. \A k \in 0..(m + 1) : g[k] = h[k]
    <3> TAKE k \in 0..(m + 1)
    <3>1. CASE k = 0
      <4>1. f[0] = << >>
          BY <2>1
      <4> QED BY <3>1, <4>1
    <3>2. CASE k # 0 /\ k <= m
      <4>1. k \in 0..m /\ k - 1 \in 0..m /\ k - 1 \in 0..(m + 1)
          BY <3>2
      <4>2. f[k] = Step(f[k - 1], k)
          BY <2>1, <3>2, <4>1
      <4>3. g[k] = f[k] /\ g[k - 1] = f[k - 1]
          BY <3>2, <4>1
      <4>4. h[k] = Step(g[k - 1], k)
          BY <3>2
      <4> QED BY <4>2, <4>3, <4>4
    <3>3. CASE k = m + 1
      <4>1. g[k] = Step(f[m], k) /\ g[k - 1] = f[m]
          BY <3>3
      <4>2. h[k] = Step(g[k - 1], k)
          BY <3>3
      <4> QED BY <4>1, <4>2
    <3> QED
        BY <3>1, <3>2, <3>3
  <2>3. g = h
      BY <2>2
  <2> HIDE DEF g
  <2> QED
      BY <2>3
<1> HIDE DEF S
<1>3. Nat \subseteq S
    BY <1>1, <1>2, Induction
<1> QED
    BY <1>3 DEF S, LastFrom

LEMMA LastUnfolds ==
    ASSUME NEW part, NEW n \in Nat
    PROVE  /\ Joined(part, n) = Last(part, n, n)
           /\ Last(part, n, 0) = << >>
           /\ \A k \in 1..n : Last(part, n, k) = Cat(part[n - k + 1], Last(part, n, k - 1))
<1> DEFINE f == CHOOSE f : LastFrom(part, n, f)
<1>1. Joined(part, n) = Last(part, n, n)
    BY DEF Joined, Last, LastFrom
<1>2. LastFrom(part, n, f)
    BY LastExists
<1>3. \A k : Last(part, n, k) = f[k]
    BY DEF Last
<1> HIDE DEF f
<1>4. Last(part, n, 0) = << >>
    BY <1>2, <1>3 DEF LastFrom
<1>5. ASSUME NEW k \in 1..n
      PROVE  Last(part, n, k) = Cat(part[n - k + 1], Last(part, n, k - 1))
  <2>1. k \in 0..n /\ k # 0
      OBVIOUS
  <2>2. f[k] = Cat(part[n - k + 1], f[k - 1])
      BY <1>2, <2>1 DEF LastFrom, Cat
  <2> QED
      BY <1>3, <2>2
<1> QED
    BY <1>1, <1>4, <1>5

LEMMA LastType ==
    ASSUME NEW n \in Nat, NEW part \in [1..n -> Pairs]
    PROVE  \A k \in 0..n : Last(part, n, k) \in Pairs
<1> DEFINE S == {k \in Nat : k <= n => Last(part, n, k) \in Pairs}
<1>1. 0 \in S
  <2>1. Last(part, n, 0) = << >>
      BY LastUnfolds
  <2>2. << >> \in Pairs
      BY EmptySeq DEF Pairs
  <2> QED
      BY <2>1, <2>2
<1>2. ASSUME NEW k \in Nat, k \in S
      PROVE  k + 1 \in S
  <2> SUFFICES ASSUME k + 1 <= n PROVE Last(part, n, k + 1) \in Pairs
      OBVIOUS
  <2> DEFINE j == k + 1
  <2>1. j \in 1..n /\ j - 1 = k /\ n - j + 1 \in 1..n
      OBVIOUS
  <2> HIDE DEF S, j
  <2>2. Last(part, n, j) = Cat(part[n - j + 1], Last(part, n, k))
      BY <2>1, LastUnfolds
  <2>3. Last(part, n, k) \in Pairs /\ part[n - j + 1] \in Pairs
    <3>1. k <= n
        BY <2>1
    <3> QED BY <1>2, <2>1, <3>1 DEF S
  <2> QED
      BY <2>2, <2>3, ConcatProperties DEF Pairs, j, Cat
<1> HIDE DEF S
<1>3. Nat \subseteq S
    BY <1>1, <1>2, Induction
<1> QED
    BY <1>3 DEF S

Nodes(v) == {Root} \cup DOMAIN v.node

(* What the nodes map at one depth, given the depth below.                 *)
Level(v, d, below) == [b \in Nodes(v) |-> Joined(Parts(v, d, b, below), Count(NodeIn(v, b)))]

LevelFrom(v, n, f) == f = [d \in 0..n |-> Level(v, d, IF d = 0 THEN << >> ELSE f[d - 1])]

LEMMA LevelsExist ==
    ASSUME NEW v, NEW n \in Nat
    PROVE  \E f : LevelFrom(v, n, f)
<1> DEFINE Step(d, s) == Level(v, d, s)
           S == {m \in Nat : \E f : f = [d \in 0..m |-> IF d = 0 THEN Step(0, << >>) ELSE Step(d, f[d - 1])]}
<1>1. 0 \in S
  <2> DEFINE f == [d \in 0..0 |-> Step(0, << >>)]
  <2> HIDE DEF Step
  <2>1. f = [d \in 0..0 |-> IF d = 0 THEN Step(0, << >>) ELSE Step(d, f[d - 1])]
      OBVIOUS
  <2> QED
      BY <2>1
<1>2. ASSUME NEW m \in Nat, m \in S
      PROVE  m + 1 \in S
  <2> HIDE DEF Step
  <2>1. PICK f : f = [d \in 0..m |-> IF d = 0 THEN Step(0, << >>) ELSE Step(d, f[d - 1])]
      BY <1>2
  <2> DEFINE g == [d \in 0..(m + 1) |-> IF d <= m THEN f[d] ELSE Step(d, f[m])]
             h == [d \in 0..(m + 1) |-> IF d = 0 THEN Step(0, << >>) ELSE Step(d, g[d - 1])]
  <2>2. \A d \in 0..(m + 1) : g[d] = h[d]
    <3> TAKE d \in 0..(m + 1)
    <3>1. CASE d = 0
      <4>1. f[0] = Step(0, << >>)
          BY <2>1
      <4> QED BY <3>1, <4>1
    <3>2. CASE d # 0 /\ d <= m
      <4>1. d \in 0..m /\ d - 1 \in 0..m /\ d - 1 \in 0..(m + 1)
          BY <3>2
      <4>2. f[d] = Step(d, f[d - 1])
          BY <2>1, <3>2, <4>1
      <4>3. g[d] = f[d] /\ g[d - 1] = f[d - 1]
          BY <3>2, <4>1
      <4>4. h[d] = Step(d, g[d - 1])
          BY <3>2
      <4> QED BY <4>2, <4>3, <4>4
    <3>3. CASE d = m + 1
      <4>1. g[d] = Step(d, f[m]) /\ g[d - 1] = f[m]
          BY <3>3
      <4>2. h[d] = Step(d, g[d - 1])
          BY <3>3
      <4> QED BY <4>1, <4>2
    <3> QED
        BY <3>1, <3>2, <3>3
  <2>3. g = h
      BY <2>2
  <2> HIDE DEF g
  <2> QED
      BY <2>3
<1> HIDE DEF S
<1>3. Nat \subseteq S
    BY <1>1, <1>2, Induction
<1>4. PICK f : f = [d \in 0..n |-> IF d = 0 THEN Step(0, << >>) ELSE Step(d, f[d - 1])]
    BY <1>3 DEF S
<1>5. \A d : (IF d = 0 THEN Step(0, << >>) ELSE Step(d, f[d - 1]))
                = Level(v, d, IF d = 0 THEN << >> ELSE f[d - 1])
    OBVIOUS
<1>6. LevelFrom(v, n, f)
    BY <1>4, <1>5 DEF LevelFrom
<1> QED
    BY <1>6

LEMMA MapsUnfolds ==
    ASSUME NEW v, NEW d \in 0..MaxDepth, NEW b \in Nodes(v)
    PROVE  /\ d = 0 => Maps(v)[0][b] = Joined(Parts(v, 0, b, << >>), Count(NodeIn(v, b)))
           /\ d # 0 => Maps(v)[d][b] = Joined(Parts(v, d, b, Maps(v)[d - 1]), Count(NodeIn(v, b)))
<1>1. MaxDepth \in Nat
    BY InodeAccessAssumption
<1> DEFINE f == CHOOSE f : LevelFrom(v, MaxDepth, f)
<1>2. Maps(v) = f
    BY DEF Maps, LevelFrom, Level, Nodes
<1>3. LevelFrom(v, MaxDepth, f)
    BY <1>1, LevelsExist
<1> HIDE DEF f
<1>4. f[d] = Level(v, d, IF d = 0 THEN << >> ELSE f[d - 1])
    BY <1>3 DEF LevelFrom
<1>5. f[d][b] = Joined(Parts(v, d, b, IF d = 0 THEN << >> ELSE f[d - 1]), Count(NodeIn(v, b)))
    BY <1>4 DEF Level
<1>6. CASE d = 0
    BY <1>2, <1>5, <1>6
<1>7. CASE d # 0
    BY <1>2, <1>5, <1>7
<1> QED
    BY <1>6, <1>7

(* The true length of an extent is the masked one, unless that is 0.       *)
LEMMA LengthMasked ==
    ASSUME NEW length \in 0..(2 * LenMask + 1)
    PROVE  /\ Masked(length) \in Nat /\ TrueLength(length) \in Nat
           /\ Masked(length) # 0 => TrueLength(length) = Masked(length)
<1> DEFINE m == LenMask + 1
           q == length \div m
           r == length % m
<1>1. m \in Nat \ {0} /\ m > 0 /\ length \in Nat /\ length < 2 * m
    BY InodeAccessAssumption
<1>2. q \in Nat /\ r \in 0..(m - 1) /\ length = m * q + r
  <2> HIDE DEF m
  <2> QED BY <1>1, Division
<1> HIDE DEF q, r
<1>3. CASE length < m
  <2>1. q = 0
    <3> HIDE DEF m
    <3>1. q # 0 => m * q >= m
        BY <1>1, <1>2
    <3>2. m * q \in Nat /\ r \in Nat
        BY <1>1, <1>2
    <3> QED
        BY <1>1, <1>2, <1>3, <3>1, <3>2
  <2>2. r = length
    <3> HIDE DEF m
    <3> QED BY <1>1, <1>2, <2>1
  <2> QED
      BY <1>1, <1>3, <2>2, InodeAccessAssumption DEF Masked, TrueLength, r
<1>4. CASE length = m
  <2>1. r = 0
    <3> HIDE DEF m
    <3>1. q >= 2 => m * q >= 2 * m
        BY <1>1, <1>2
    <3>2. m * q \in Nat /\ r \in Nat /\ r < m
        BY <1>1, <1>2
    <3>3. q = 0 \/ q = 1 \/ q >= 2
        BY <1>2
    <3>4. q = 1 => m * q = m
        BY <1>1
    <3>5. q = 0 => m * q = 0
        BY <1>1
    <3> QED
        BY <1>1, <1>2, <1>4, <3>1, <3>2, <3>3, <3>4, <3>5
  <2> QED
      BY <1>1, <1>4, <2>1, InodeAccessAssumption DEF Masked, TrueLength, r
<1>5. CASE length > m
  <2>1. r = length - m
    <3> HIDE DEF m
    <3>1. q >= 2 => m * q >= 2 * m
        BY <1>1, <1>2
    <3>2. m * q \in Nat /\ r \in Nat /\ r < m
        BY <1>1, <1>2
    <3>3. q = 0 \/ q = 1 \/ q >= 2
        BY <1>2
    <3>4. q = 1 => m * q = m
        BY <1>1
    <3>5. q = 0 => m * q = 0
        BY <1>1
    <3> QED
        BY <1>1, <1>2, <1>5, <3>1, <3>2, <3>3, <3>4, <3>5
  <2> QED
      BY <1>1, <1>5, <2>1, InodeAccessAssumption DEF Masked, TrueLength, r
<1> QED
    BY <1>1, <1>3, <1>4, <1>5

LEMMA EntryType ==
    ASSUME NEW e \in Entry
    PROVE  e.logical \in Nat /\ e.length \in 0..(2 * LenMask + 1) /\ e.start \in Nat /\ e.leaf \in Nat
BY DEF Entry

LEMMA BlocksType ==
    ASSUME NEW e \in Entry
    PROVE  /\ Blocks(e) \in Pairs /\ Len(Blocks(e)) = Masked(e.length)
           /\ \A j \in 1..Masked(e.length) : Blocks(e)[j] = <<e.logical + j - 1, e.start + j - 1>>
           /\ TrueBlocks(e) \in Pairs
           /\ Masked(e.length) # 0 => TrueBlocks(e) = Blocks(e)
<1>1. /\ Masked(e.length) \in Nat /\ TrueLength(e.length) \in Nat
      /\ Masked(e.length) # 0 => TrueLength(e.length) = Masked(e.length)
    BY LengthMasked, EntryType
<1>2. \A n \in Nat : [j \in 1..n |-> <<e.logical + j - 1, e.start + j - 1>>] \in Pairs
  <2> TAKE n \in Nat
  <2>1. \A j \in 1..n : e.logical + j - 1 \in Nat /\ e.start + j - 1 \in Nat
      BY EntryType
  <2>2. [j \in 1..n |-> <<e.logical + j - 1, e.start + j - 1>>] \in [1..n -> Nat \X Nat]
      BY <2>1
  <2> QED
      BY <2>2, SeqDef DEF Pairs
<1>3. Blocks(e) \in Pairs /\ DOMAIN Blocks(e) = 1..Masked(e.length)
    BY <1>1, <1>2 DEF Blocks
<1>4. Len(Blocks(e)) = Masked(e.length)
    BY <1>1, <1>3, LenProperties DEF Pairs
<1>5. TrueBlocks(e) \in Pairs
    BY <1>1, <1>2 DEF TrueBlocks
<1>6. Masked(e.length) # 0 => TrueBlocks(e) = Blocks(e)
    BY <1>1 DEF TrueBlocks, Blocks
<1> QED
    BY <1>3, <1>4, <1>5, <1>6 DEF Blocks

LEMMA NodeType ==
    ASSUME NEW v \in Volumes, NEW b \in Nodes(v)
    PROVE  /\ NodeIn(v, b) \in TreeNode /\ NodeIn(v, b).claims \in Nat
           /\ NodeIn(v, b).entries \in Seq(Entry)
           /\ Count(NodeIn(v, b)) \in Nat /\ Count(NodeIn(v, b)) <= NodeIn(v, b).claims
           /\ \A k \in 1..Count(NodeIn(v, b)) : NodeIn(v, b).entries[k] \in Entry
<1>1. NodeIn(v, b) \in TreeNode
  <2>1. v.inode.root \in TreeNode
      BY InodeAccessAssumption DEF RawInode
  <2>2. \A c \in DOMAIN v.node : v.node[c] \in TreeNode
      BY InodeAccessAssumption
  <2> QED
      BY <2>1, <2>2 DEF NodeIn, Nodes
<1> DEFINE node == NodeIn(v, b)
<1>2. node.claims \in Nat /\ node.entries \in Seq(Entry) /\ Len(node.entries) \in Nat
    BY <1>1, LenProperties DEF TreeNode
<1> HIDE DEF node
<1>3. Count(node) \in Nat /\ Count(node) <= node.claims /\ Count(node) <= Len(node.entries)
    BY <1>2 DEF Count
<1>4. \A k \in 1..Count(node) : node.entries[k] \in Entry
  <2>1. \A k \in 1..Count(node) : k \in 1..Len(node.entries)
      BY <1>2, <1>3
  <2> QED
      BY <1>2, <2>1, ElementOfSeq
<1> QED
    BY <1>1, <1>2, <1>3, <1>4 DEF node

(* What an entry of a node at depth d maps.                                *)
Portion(v, d, e) ==
    IF d = 0 THEN TrueBlocks(e)
    ELSE IF e.leaf \in DOMAIN v.node THEN Maps(v)[d - 1][e.leaf]
    ELSE << >>

PartsOf(v, d, b) == [k \in 1..Count(NodeIn(v, b)) |-> Portion(v, d, NodeIn(v, b).entries[k])]

(* What the entries of node b from n on map at depth d.                    *)
Left(v, d, b, n) == Last(PartsOf(v, d, b), Count(NodeIn(v, b)), Count(NodeIn(v, b)) - n + 1)

LEMMA MapsJoined ==
    ASSUME NEW v, NEW d \in 0..MaxDepth, NEW b \in Nodes(v)
    PROVE  Maps(v)[d][b] = Joined(PartsOf(v, d, b), Count(NodeIn(v, b)))
<1>1. CASE d = 0
  <2>1. Parts(v, 0, b, << >>) = PartsOf(v, 0, b)
      BY DEF Parts, PartsOf, Portion
  <2> QED
      BY <1>1, <2>1, MapsUnfolds
<1>2. CASE d # 0
  <2>1. Parts(v, d, b, Maps(v)[d - 1]) = PartsOf(v, d, b)
      BY <1>2 DEF Parts, PartsOf, Portion
  <2> QED
      BY <1>2, <2>1, MapsUnfolds
<1> QED
    BY <1>1, <1>2

LEMMA MapsType ==
    ASSUME NEW v \in Volumes
    PROVE  \A d \in 0..MaxDepth, b \in Nodes(v) : Maps(v)[d][b] \in Pairs
<1>1. MaxDepth \in Nat
    BY InodeAccessAssumption
<1> DEFINE S == {d \in Nat : d <= MaxDepth => \A b \in Nodes(v) : Maps(v)[d][b] \in Pairs}
<1>2. ASSUME NEW d \in 0..MaxDepth, NEW b \in Nodes(v),
             \A e \in Entry : Portion(v, d, e) \in Pairs
      PROVE  Maps(v)[d][b] \in Pairs
  <2> DEFINE n == Count(NodeIn(v, b))
  <2>1. n \in Nat /\ \A k \in 1..n : NodeIn(v, b).entries[k] \in Entry
      BY NodeType
  <2>2. PartsOf(v, d, b) \in [1..n -> Pairs]
      BY <1>2, <2>1 DEF PartsOf
  <2>3. Maps(v)[d][b] = Joined(PartsOf(v, d, b), n)
      BY MapsJoined
  <2> HIDE DEF n
  <2> HIDE DEF S
  <2>4. n \in 0..n
      BY <2>1
  <2>5. Joined(PartsOf(v, d, b), n) = Last(PartsOf(v, d, b), n, n)
      BY <2>1, LastUnfolds
  <2> QED
      BY <2>1, <2>2, <2>3, <2>4, <2>5, LastType
<1>3. 0 \in S
  <2>1. \A e \in Entry : Portion(v, 0, e) \in Pairs
      BY BlocksType DEF Portion
  <2> QED
      BY <1>1, <1>2, <2>1
<1>4. ASSUME NEW d \in Nat, d \in S
      PROVE  d + 1 \in S
  <2> SUFFICES ASSUME d + 1 <= MaxDepth PROVE \A b \in Nodes(v) : Maps(v)[d + 1][b] \in Pairs
      OBVIOUS
  <2> DEFINE j == d + 1
  <2>1. j \in 0..MaxDepth /\ j # 0 /\ j - 1 = d /\ d <= MaxDepth
      BY <1>1
  <2>2. \A b \in Nodes(v) : Maps(v)[d][b] \in Pairs
      BY <1>4, <2>1
  <2> HIDE DEF j
  <2>3. \A e \in Entry : Portion(v, j, e) \in Pairs
    <3>1. << >> \in Pairs
        BY EmptySeq DEF Pairs
    <3> QED
        BY <2>1, <2>2, <3>1 DEF Portion, Nodes
  <2>4. \A b \in Nodes(v) : Maps(v)[j][b] \in Pairs
      BY <1>2, <2>1, <2>3
  <2> QED
      BY <2>4 DEF j
<1> HIDE DEF S
<1>5. Nat \subseteq S
    BY <1>3, <1>4, Induction
<1> QED
    BY <1>1, <1>5 DEF S

LEMMA PartType ==
    ASSUME NEW v \in Volumes, NEW d \in 0..MaxDepth, NEW e \in Entry
    PROVE  Portion(v, d, e) \in Pairs
<1>1. CASE d = 0
    BY <1>1, BlocksType DEF Portion
<1>2. CASE d # 0
  <2>1. d - 1 \in 0..MaxDepth
      BY <1>2, InodeAccessAssumption
  <2>2. << >> \in Pairs
      BY EmptySeq DEF Pairs
  <2> QED
      BY <1>2, <2>1, <2>2, MapsType DEF Portion, Nodes
<1> QED
    BY <1>1, <1>2

(* From the first entry on a node maps everything, behind the last one     *)
(* nothing, and in between the part of one entry and what follows.         *)
LEMMA LeftUnfolds ==
    ASSUME NEW v \in Volumes, NEW d \in 0..MaxDepth, NEW b \in Nodes(v),
           NEW n \in 1..(Count(NodeIn(v, b)) + 1)
    PROVE  /\ Left(v, d, b, n) \in Pairs
           /\ n = 1 => Left(v, d, b, n) = Maps(v)[d][b]
           /\ n = Count(NodeIn(v, b)) + 1 => Left(v, d, b, n) = << >>
           /\ n <= Count(NodeIn(v, b)) =>
                  Left(v, d, b, n) = Cat(Portion(v, d, NodeIn(v, b).entries[n]), Left(v, d, b, n + 1))
<1> DEFINE c == Count(NodeIn(v, b))
           p == PartsOf(v, d, b)
<1>1. c \in Nat /\ \A k \in 1..c : NodeIn(v, b).entries[k] \in Entry
    BY NodeType
<1>2. p \in [1..c -> Pairs] /\ \A k \in 1..c : p[k] = Portion(v, d, NodeIn(v, b).entries[k])
    BY <1>1, PartType DEF PartsOf
<1>3. Maps(v)[d][b] = Joined(p, c)
    BY MapsJoined
<1>4. \A m : Left(v, d, b, m) = Last(p, c, c - m + 1)
    BY DEF Left
<1> HIDE DEF c, p
<1>5. n \in 1..(c + 1)
    BY DEF c
<1>6. c - n + 1 \in 0..c
    BY <1>1, <1>5
<1>7. Left(v, d, b, n) \in Pairs
    BY <1>1, <1>2, <1>4, <1>6, LastType
<1>8. n = 1 => Left(v, d, b, n) = Maps(v)[d][b]
  <2>1. n = 1 => c - n + 1 = c
      BY <1>1
  <2> QED
      BY <1>1, <1>3, <1>4, <2>1, LastUnfolds
<1>9. n = c + 1 => Left(v, d, b, n) = << >>
  <2>1. n = c + 1 => c - n + 1 = 0
      BY <1>1
  <2> QED
      BY <1>1, <1>4, <2>1, LastUnfolds
<1>10. ASSUME n <= c
       PROVE  Left(v, d, b, n) = Cat(Portion(v, d, NodeIn(v, b).entries[n]), Left(v, d, b, n + 1))
  <2> DEFINE k == c - n + 1
  <2>1. k \in 1..c /\ c - k + 1 = n /\ k - 1 = c - (n + 1) + 1 /\ n \in 1..c
      BY <1>1, <1>5, <1>10
  <2>2. Left(v, d, b, n) = Last(p, c, k) /\ Left(v, d, b, n + 1) = Last(p, c, k - 1)
      BY <1>4, <2>1
  <2> HIDE DEF k
  <2>3. Last(p, c, k) = Cat(p[c - k + 1], Last(p, c, k - 1))
      BY <1>1, <2>1, LastUnfolds
  <2> QED
      BY <1>2, <2>1, <2>2, <2>3
<1> QED
    BY <1>7, <1>8, <1>9, <1>10 DEF c

-----------------------------------------------------------------------------
(* The visit *)

(* Where the calls of visit_extent_node stand.                             *)
StackOn(v, s) ==
    /\ s \in Seq(Frame)
    /\ \A k \in 1..Len(s) :
        /\ s[k].depth = v.inode.root.depth - (k - 1)
        /\ s[k].node \in Nodes(v)
        /\ s[k].next <= NodeIn(v, s[k].node).claims + 1

(* What every call has still to hand over, and its callers after it.       *)
LeftOf(v, f) == Left(v, f.depth, f.node, f.next)

PendingOn(v, s, r) ==
    /\ r \in [0..Len(s) -> Pairs] /\ r[0] = << >>
    /\ \A k \in 1..Len(s) : r[k] = Cat(LeftOf(v, s[k]), r[k - 1])

StackInv == StackOn(volume, stack) /\ (pc = "visit" <=> stack # << >>)

Sound == inode.extents /\ inode.root.depth <= MaxDepth /\ NodesHold

(* What has been handed over, with what is left, is what the tree maps.    *)
HandedInv ==
    /\ handed \in Pairs
    /\ status \in {"none", "ok", "failed"}
    /\ pc \in {"descriptor", "locate", "inode"} => handed = << >>
    /\ pc \in {"descriptor", "locate", "inode", "visit"} => status = "none"
    /\ Sound =>
        /\ \A k \in 1..Len(handed) : handed[k][2] < BlocksCount(sb)
        /\ pc = "visit" => \E r : PendingOn(volume, stack, r) /\ Mapped = Cat(handed, r[Len(stack)])
        /\ pc # "visit" => \E t \in Pairs : Mapped = Cat(handed, t)
        /\ status = "ok" => handed = Mapped

VisitInv == volume \in Volumes /\ StackInv /\ HandedInv

(* The image does not change.                                              *)
LEMMA VolumeKept ==
    ASSUME UNCHANGED volume
    PROVE  /\ sb' = sb /\ inode' = inode /\ Mapped' = Mapped
           /\ \A b : NodeAt(b)' = NodeAt(b)
           /\ NodesHold' <=> NodesHold
           /\ Sound' <=> Sound
<1>1. sb' = sb /\ inode' = inode
    BY DEF sb, inode
<1>2. Mapped' = Mapped
    BY <1>1 DEF Mapped
<1>4. \A b : NodeAt(b)' = NodeAt(b)
    BY <1>1 DEF NodeAt
<1>5. NodesHold' <=> NodesHold
    BY <1>4 DEF NodesHold
<1> QED
    BY <1>1, <1>2, <1>4, <1>5 DEF Sound

LEMMA MappedType ==
    ASSUME volume \in Volumes, inode.root.depth <= MaxDepth
    PROVE  inode.root.depth \in 0..MaxDepth /\ Mapped \in Pairs
<1>1. inode.root \in TreeNode /\ MaxDepth \in Nat
    BY InodeAccessAssumption DEF inode, RawInode
<1>2. inode.root.depth \in 0..MaxDepth
    BY <1>1 DEF TreeNode
<1> QED
    BY <1>2, MapsType DEF Mapped, Nodes

(* A node that is on the image.                                            *)
LEMMA NodeAtIn ==
    ASSUME volume \in Volumes, NEW b \in Nodes(volume)
    PROVE  NodeAt(b) = NodeIn(volume, b)
BY DEF NodeAt, NodeIn, Nodes, inode

LEMMA HoldsAll ==
    ASSUME volume \in Volumes, NodesHold, NEW b \in Nodes(volume)
    PROVE  Count(NodeIn(volume, b)) = NodeIn(volume, b).claims
<1>1. NodeAt(b).claims <= Len(NodeAt(b).entries)
    BY DEF NodesHold, Nodes
<1> QED
    BY <1>1, NodeAtIn DEF Count

(* The innermost call.                                                     *)
LEMMA TopType ==
    ASSUME volume \in Volumes, StackInv, pc = "visit"
    PROVE  /\ Len(stack) \in Nat \ {0} /\ Len(stack) \in 1..Len(stack)
           /\ Top \in Frame /\ Top.node \in Nodes(volume) /\ Top.depth \in 0..MaxDepth
           /\ TopNode = NodeIn(volume, Top.node)
           /\ Top.next \in Nat \ {0} /\ Top.next <= TopNode.claims + 1
           /\ Top.depth = inode.root.depth - (Len(stack) - 1)
           /\ TopNode.claims \in Nat /\ TopNode.entries \in Seq(Entry)
<1>1. stack \in Seq(Frame) /\ stack # << >>
    BY DEF StackInv, StackOn
<1>2. Len(stack) \in Nat \ {0} /\ Len(stack) \in 1..Len(stack)
  <2>1. Len(stack) \in Nat /\ Len(stack) # 0
      BY <1>1, LenProperties, EmptySeq
  <2> DEFINE n == Len(stack)
  <2>2. n \in Nat /\ n # 0
      BY <2>1
  <2> HIDE DEF n
  <2>3. n \in Nat \ {0} /\ n \in 1..n
      BY <2>2
  <2> QED BY <2>3 DEF n
<1>3. Top \in Frame
    BY <1>1, <1>2, ElementOfSeq DEF Top
<1>4. /\ Top.node \in Nodes(volume)
      /\ Top.next <= NodeIn(volume, Top.node).claims + 1
      /\ Top.depth = inode.root.depth - (Len(stack) - 1)
    BY <1>2 DEF StackInv, StackOn, Top, inode
<1>5. TopNode = NodeIn(volume, Top.node)
    BY <1>4, NodeAtIn DEF TopNode
<1>6. TopNode.claims \in Nat /\ TopNode.entries \in Seq(Entry)
    BY <1>4, <1>5, NodeType
<1> QED
    BY <1>2, <1>3, <1>4, <1>5, <1>6 DEF Frame

(* The last element of a sequence, and the sequence without it.            *)
LEMMA Ends ==
    ASSUME NEW S, NEW s \in Seq(S), s # << >>
    PROVE  /\ Len(s) \in Nat \ {0} /\ Len(s) \in 1..Len(s) /\ s[Len(s)] \in S
           /\ \A k \in 1..(Len(s) - 1) : k \in 1..Len(s) /\ k # Len(s) /\ s[k] \in S
           /\ SubSeq(s, 1, Len(s) - 1) \in Seq(S) /\ Len(SubSeq(s, 1, Len(s) - 1)) = Len(s) - 1
           /\ \A k \in 1..(Len(s) - 1) : SubSeq(s, 1, Len(s) - 1)[k] = s[k]
<1> DEFINE n == Len(s)
           t == SubSeq(s, 1, n - 1)
<1>1. n \in Nat /\ n # 0
    BY LenProperties, EmptySeq
<1>2. n \in 1..n /\ n - 1 \in Nat /\ n - 1 <= n /\ n \in Nat \ {0}
      /\ \A k \in 1..(n - 1) : k \in 1..n /\ k # n
  <2> HIDE DEF n
  <2> QED BY <1>1
<1>3. \A k \in 1..n : s[k] \in S
    BY ElementOfSeq
<1>4. /\ t \in Seq(S) /\ Len(t) = IF 1 <= n - 1 THEN (n - 1) - 1 + 1 ELSE 0
      /\ \A k \in 1..((n - 1) - 1 + 1) : t[k] = s[1 + k - 1]
    BY <1>2, <1>3, SubSeqProperties
<1>5. (IF 1 <= n - 1 THEN (n - 1) - 1 + 1 ELSE 0) = n - 1 /\ (n - 1) - 1 + 1 = n - 1
      /\ \A k \in 1..(n - 1) : 1 + k - 1 = k
  <2> HIDE DEF n, t
  <2> QED BY <1>1, <1>2
<1>6. Len(t) = n - 1 /\ \A k \in 1..(n - 1) : t[k] = s[k]
  <2> HIDE DEF n, t
  <2> QED BY <1>4, <1>5
<1> QED
    BY <1>2, <1>3, <1>4, <1>6

(* A call goes on to its next entry.                                       *)
Advanced(s) == [s EXCEPT ![Len(s)].next = @ + 1]

LEMMA AdvanceOn ==
    ASSUME NEW v \in Volumes, NEW s, s # << >>, StackOn(v, s),
           NEW f, f = s[Len(s)], f.next <= NodeIn(v, f.node).claims,
           NEW t, t = Advanced(s)
    PROVE  /\ StackOn(v, t) /\ Len(t) = Len(s) /\ t # << >>
           /\ t[Len(s)].node = f.node /\ t[Len(s)].depth = f.depth /\ t[Len(s)].next = f.next + 1
           /\ \A k \in 1..(Len(s) - 1) : t[k] = s[k]
<1>1. s \in Seq(Frame)
    BY DEF StackOn
<1>2. /\ Len(s) \in Nat \ {0} /\ Len(s) \in 1..Len(s) /\ f \in Frame
      /\ \A k \in 1..(Len(s) - 1) : k \in 1..Len(s) /\ k # Len(s)
    BY <1>1, Ends
<1> DEFINE g == [f EXCEPT !.next = @ + 1]
           n == Len(s)
<1>3. g \in Frame /\ g.node = f.node /\ g.depth = f.depth /\ g.next = f.next + 1
    BY <1>2 DEF Frame
<1>4. t = [s EXCEPT ![n] = g]
    BY <1>2 DEF Advanced
<1>5. /\ f.node \in Nodes(v) /\ f.depth = v.inode.root.depth - (n - 1)
    BY <1>2 DEF StackOn
<1>6. NodeIn(v, f.node).claims \in Nat /\ f.next \in Nat
    BY <1>2, <1>5, NodeType DEF Frame
<1> HIDE DEF g
<1>7. t \in Seq(Frame) /\ Len(t) = n
    BY <1>1, <1>2, <1>3, <1>4, ExceptSeq
<1>8. t[n] = g /\ \A k \in 1..n : k # n => t[k] = s[k]
    BY <1>1, <1>2, <1>4, ExceptSeq
<1>9. \A k \in 1..n :
        /\ t[k].depth = v.inode.root.depth - (k - 1)
        /\ t[k].node \in Nodes(v)
        /\ t[k].next <= NodeIn(v, t[k].node).claims + 1
  <2> TAKE k \in 1..n
  <2>1. CASE k = n
    <3>1. g.next <= NodeIn(v, g.node).claims + 1
        BY <1>3, <1>6
    <3> QED
        BY <1>3, <1>5, <1>8, <2>1, <3>1
  <2>2. CASE k # n
      BY <1>8, <2>2 DEF StackOn
  <2> QED
      BY <2>1, <2>2
<1>10. StackOn(v, t)
    BY <1>7, <1>9 DEF StackOn
<1>11. t # << >>
    BY <1>2, <1>7, EmptySeq
<1> QED
    BY <1>2, <1>3, <1>7, <1>8, <1>10, <1>11

LEMMA PairsJoin ==
    \A a, b \in Pairs :
        /\ Cat(a, b) \in Pairs /\ Cat(a, << >>) = a /\ Cat(<< >>, a) = a
        /\ Len(a) \in Nat /\ Len(Cat(a, b)) = Len(a) + Len(b)
        /\ \A k \in 1..(Len(a) + Len(b)) : Cat(a, b)[k] = IF k <= Len(a) THEN a[k] ELSE b[k - Len(a)]
<1> SUFFICES ASSUME NEW a \in Pairs, NEW b \in Pairs
             PROVE  /\ Cat(a, b) \in Pairs /\ Cat(a, << >>) = a /\ Cat(<< >>, a) = a
                    /\ Len(a) \in Nat /\ Len(Cat(a, b)) = Len(a) + Len(b)
                    /\ \A k \in 1..(Len(a) + Len(b)) :
                           Cat(a, b)[k] = IF k <= Len(a) THEN a[k] ELSE b[k - Len(a)]
    OBVIOUS
<1>1. a \in Seq(Nat \X Nat) /\ b \in Seq(Nat \X Nat)
    BY DEF Pairs
<1>2. /\ a \o b \in Seq(Nat \X Nat) /\ Len(a \o b) = Len(a) + Len(b)
      /\ \A k \in 1..(Len(a) + Len(b)) : (a \o b)[k] = IF k <= Len(a) THEN a[k] ELSE b[k - Len(a)]
    BY <1>1, ConcatProperties
<1>3. a \o << >> = a /\ << >> \o a = a
    BY <1>1, ConcatEmptySeq
<1>4. Len(a) \in Nat
    BY <1>1, LenProperties
<1> QED
    BY <1>2, <1>3, <1>4 DEF Pairs, Cat

LEMMA PairsAssociative ==
    \A a, b, c \in Pairs : Cat(Cat(a, b), c) = Cat(a, Cat(b, c))
<1> SUFFICES ASSUME NEW a \in Pairs, NEW b \in Pairs, NEW c \in Pairs
             PROVE  Cat(Cat(a, b), c) = Cat(a, Cat(b, c))
    OBVIOUS
<1> DEFINE i == Len(a)
           j == Len(b)
           k == Len(c)
           ab == Cat(a, b)
           bc == Cat(b, c)
           x == Cat(ab, c)
           y == Cat(a, bc)
<1>1. /\ ab \in Pairs /\ Len(ab) = i + j /\ i \in Nat /\ j \in Nat
      /\ \A n \in 1..(i + j) : ab[n] = IF n <= i THEN a[n] ELSE b[n - i]
    BY PairsJoin
<1>2. /\ bc \in Pairs /\ Len(bc) = j + k /\ k \in Nat
      /\ \A n \in 1..(j + k) : bc[n] = IF n <= j THEN b[n] ELSE c[n - j]
    BY PairsJoin
<1> HIDE DEF ab, bc
<1>3. /\ x \in Pairs /\ Len(x) = Len(ab) + Len(c)
      /\ \A n \in 1..(Len(ab) + Len(c)) : x[n] = IF n <= Len(ab) THEN ab[n] ELSE c[n - Len(ab)]
    BY <1>1, PairsJoin
<1>4. /\ y \in Pairs /\ Len(y) = Len(a) + Len(bc)
      /\ \A n \in 1..(Len(a) + Len(bc)) : y[n] = IF n <= Len(a) THEN a[n] ELSE bc[n - Len(a)]
    BY <1>2, PairsJoin
<1> HIDE DEF x, y
<1>5. /\ Len(x) = (i + j) + k
      /\ \A n \in 1..((i + j) + k) : x[n] = IF n <= i + j THEN ab[n] ELSE c[n - (i + j)]
    BY <1>1, <1>3
<1>6. /\ Len(y) = i + (j + k)
      /\ \A n \in 1..(i + (j + k)) : y[n] = IF n <= i THEN a[n] ELSE bc[n - i]
    BY <1>2, <1>4
<1> HIDE DEF i, j, k
<1>7. (i + j) + k = i + (j + k)
    BY <1>1, <1>2
<1>8. ASSUME NEW n \in 1..(i + (j + k))
      PROVE  x[n] = y[n]
  <2>1. CASE n <= i
    <3>1. n <= i + j /\ n \in 1..(i + j)
        BY <1>1, <1>2, <2>1
    <3> QED
        BY <1>1, <1>5, <1>6, <1>7, <2>1, <3>1
  <2>2. CASE ~(n <= i) /\ n <= i + j
    <3>1. n \in 1..(i + j) /\ n - i \in 1..(j + k) /\ n - i <= j
        BY <1>1, <1>2, <2>2
    <3>2. x[n] = b[n - i] /\ y[n] = bc[n - i] /\ bc[n - i] = b[n - i]
        BY <1>1, <1>2, <1>5, <1>6, <1>7, <2>2, <3>1
    <3> QED
        BY <3>2
  <2>3. CASE ~(n <= i + j)
    <3>1. n - i \in 1..(j + k) /\ ~(n - i <= j) /\ ~(n <= i) /\ n - i - j = n - (i + j)
        BY <1>1, <1>2, <2>3
    <3>2. x[n] = c[n - (i + j)] /\ y[n] = bc[n - i] /\ bc[n - i] = c[n - i - j]
        BY <1>2, <1>5, <1>6, <1>7, <2>3, <3>1
    <3> QED
        BY <3>1, <3>2
  <2> QED
      BY <2>1, <2>2, <2>3
<1>9. x \in Seq(Nat \X Nat) /\ y \in Seq(Nat \X Nat) /\ Len(x) = Len(y) /\ Len(y) = i + (j + k)
    BY <1>3, <1>4, <1>5, <1>6, <1>7 DEF Pairs
<1>10. x = y
    BY <1>8, <1>9, SeqEqual
<1> QED
    BY <1>10 DEF x, y, ab, bc

(* What is left of a call, without its next entry.                         *)
LEMMA AdvancePending ==
    ASSUME NEW v \in Volumes, NEW s, s # << >>, StackOn(v, s),
           NEW f, f = s[Len(s)], f.next <= NodeIn(v, f.node).claims,
           Count(NodeIn(v, f.node)) = NodeIn(v, f.node).claims,
           NEW t, t = Advanced(s),
           NEW r, PendingOn(v, s, r)
    PROVE  LET p == Portion(v, f.depth, NodeIn(v, f.node).entries[f.next])
           IN  p \in Pairs /\ \E q : PendingOn(v, t, q) /\ r[Len(s)] = Cat(p, q[Len(s)])
<1>7. /\ StackOn(v, t) /\ Len(t) = Len(s)
      /\ t[Len(s)].node = f.node /\ t[Len(s)].depth = f.depth /\ t[Len(s)].next = f.next + 1
      /\ \A k \in 1..(Len(s) - 1) : t[k] = s[k]
    BY AdvanceOn
<1> DEFINE p == Portion(v, f.depth, NodeIn(v, f.node).entries[f.next])
           n == Len(s)
           a == Left(v, f.depth, f.node, f.next + 1)
           q == [r EXCEPT ![n] = Cat(a, r[n - 1])]
<1>1. s \in Seq(Frame)
    BY DEF StackOn
<1>2. /\ n \in Nat \ {0} /\ n \in 1..n /\ f \in Frame
    BY <1>1, Ends
<1>3. f.depth \in 0..MaxDepth /\ f.next \in Nat \ {0} /\ f.node \in Nodes(v)
    BY <1>2 DEF Frame, StackOn
<1>4. /\ f.next \in 1..(Count(NodeIn(v, f.node)) + 1) /\ f.next + 1 \in 1..(Count(NodeIn(v, f.node)) + 1)
      /\ f.next <= Count(NodeIn(v, f.node)) /\ f.next \in 1..Count(NodeIn(v, f.node))
    BY <1>3, NodeType
<1>5. a \in Pairs /\ LeftOf(v, f) = Cat(p, a)
    BY <1>3, <1>4, LeftUnfolds DEF LeftOf
<1>6. p \in Pairs
    BY <1>3, <1>4, NodeType, PartType
<1>8. LeftOf(v, t[n]) = a
  <2>1. t[n].depth = f.depth /\ t[n].node = f.node /\ t[n].next = f.next + 1
      BY <1>7
  <2> QED
      BY <2>1 DEF LeftOf
<1>16. Len(t) = n /\ \A k \in 1..(n - 1) : t[k] = s[k]
    BY <1>7
<1> HIDE DEF p, a, n
<1>9. n - 1 \in 0..n /\ n \in 0..n /\ n # 0 /\ n - 1 # n
    BY <1>2
<1>10. r \in [0..n -> Pairs] /\ r[0] = << >> /\ r[n - 1] \in Pairs /\ r[n] = Cat(LeftOf(v, f), r[n - 1])
    BY <1>2, <1>9 DEF PendingOn, n
<1>11. Cat(a, r[n - 1]) \in Pairs
    BY <1>5, <1>10, PairsJoin
<1>12. q \in [0..n -> Pairs] /\ q[0] = << >> /\ q[n] = Cat(a, r[n - 1]) /\ \A k \in 0..n : k # n => q[k] = r[k]
    BY <1>9, <1>10, <1>11
<1> HIDE DEF q
<1>13. \A k \in 1..n : q[k] = Cat(LeftOf(v, t[k]), q[k - 1])
  <2> TAKE k \in 1..n
  <2>1. CASE k = n
      BY <1>8, <1>9, <1>12, <2>1
  <2>2. CASE k # n
    <3>1. k \in 1..(n - 1) /\ k \in 0..n /\ k - 1 \in 0..n /\ k - 1 # n
        BY <1>2, <2>2
    <3>2. r[k] = Cat(LeftOf(v, s[k]), r[k - 1])
        BY DEF PendingOn, n
    <3> QED
        BY <1>16, <1>12, <2>2, <3>1, <3>2
  <2> QED
      BY <2>1, <2>2
<1>14. PendingOn(v, t, q)
    BY <1>16, <1>12, <1>13 DEF PendingOn
<1>15. r[n] = Cat(p, q[n])
  <2>1. Cat(Cat(p, a), r[n - 1]) = Cat(p, Cat(a, r[n - 1]))
      BY <1>5, <1>6, <1>10, PairsAssociative
  <2> QED
      BY <1>5, <1>10, <1>12, <2>1
<1> QED
    BY <1>6, <1>14, <1>15 DEF p, n

(* A call for a node begins.                                               *)
Pushed(s, g) == Append(s, g)

LEMMA Push ==
    ASSUME NEW v \in Volumes, NEW s, StackOn(v, s), NEW g \in Frame,
           g.depth = v.inode.root.depth - Len(s), g.node \in Nodes(v), g.next = 1,
           NEW t, t = Pushed(s, g)
    PROVE  /\ StackOn(v, t) /\ t # << >> /\ Len(t) = Len(s) + 1
           /\ t[Len(s) + 1] = g /\ \A k \in 1..Len(s) : t[k] = s[k]
<1> DEFINE n == Len(s)
<1>1. s \in Seq(Frame) /\ n \in Nat
    BY LenProperties DEF StackOn
<1>2. /\ t \in Seq(Frame) /\ Len(t) = n + 1 /\ t[n + 1] = g /\ \A k \in 1..n : t[k] = s[k]
    BY <1>1, AppendProperties DEF Pushed
<1>3. NodeIn(v, g.node).claims \in Nat
    BY NodeType
<1>4. \A k \in 1..(n + 1) :
        /\ t[k].depth = v.inode.root.depth - (k - 1)
        /\ t[k].node \in Nodes(v)
        /\ t[k].next <= NodeIn(v, t[k].node).claims + 1
  <2> TAKE k \in 1..(n + 1)
  <2>1. CASE k = n + 1
    <3>1. k - 1 = n /\ g.next <= NodeIn(v, g.node).claims + 1
        BY <1>1, <1>3, <2>1
    <3> QED
        BY <1>2, <2>1, <3>1
  <2>2. CASE k # n + 1
    <3>1. k \in 1..n
      <4> HIDE DEF n
      <4> QED BY <1>1, <2>2
    <3> QED
        BY <1>2, <3>1 DEF StackOn
  <2> QED
      BY <2>1, <2>2
<1>5. StackOn(v, t)
    BY <1>2, <1>4 DEF StackOn
<1>6. t # << >>
    BY <1>1, <1>2, EmptySeq
<1> QED
    BY <1>2, <1>5, <1>6

LEMMA PushPending ==
    ASSUME NEW v \in Volumes, NEW s, StackOn(v, s), NEW g \in Frame,
           g.depth = v.inode.root.depth - Len(s), g.node \in Nodes(v), g.next = 1,
           NEW t, t = Pushed(s, g), NEW r, PendingOn(v, s, r)
    PROVE  \E q : PendingOn(v, t, q) /\ q[Len(t)] = Cat(Maps(v)[g.depth][g.node], r[Len(s)])
<1> DEFINE n == Len(s)
           a == LeftOf(v, g)
           q == [k \in 0..(n + 1) |-> IF k = n + 1 THEN Cat(a, r[n]) ELSE r[k]]
<1>1. n \in Nat
    BY LenProperties DEF StackOn
<1>2. Len(t) = n + 1 /\ t[n + 1] = g /\ \A k \in 1..n : t[k] = s[k]
    BY Push
<1>3. a \in Pairs /\ a = Maps(v)[g.depth][g.node]
  <2>1. g.depth \in 0..MaxDepth /\ 1 \in 1..(Count(NodeIn(v, g.node)) + 1)
      BY NodeType DEF Frame
  <2> QED
      BY <2>1, LeftUnfolds DEF LeftOf
<1> HIDE DEF a, n
<1>4. n \in 0..n /\ n + 1 \in 0..(n + 1) /\ 0 # n + 1 /\ 0 \in 0..(n + 1)
      /\ \A k \in 0..(n + 1) : k # n + 1 => k \in 0..n
    BY <1>1
<1>5. r \in [0..n -> Pairs] /\ r[0] = << >> /\ r[n] \in Pairs
    BY <1>4 DEF PendingOn, n
<1>6. Cat(a, r[n]) \in Pairs
    BY <1>3, <1>5, PairsJoin
<1>7. /\ q \in [0..(n + 1) -> Pairs] /\ q[0] = << >> /\ q[n + 1] = Cat(a, r[n])
      /\ \A k \in 0..(n + 1) : k # n + 1 => q[k] = r[k]
    BY <1>4, <1>5, <1>6
<1> HIDE DEF q
<1>8. \A k \in 1..(n + 1) : q[k] = Cat(LeftOf(v, t[k]), q[k - 1])
  <2> TAKE k \in 1..(n + 1)
  <2>1. CASE k = n + 1
    <3>1. k - 1 = n /\ n \in 0..(n + 1) /\ n # n + 1
        BY <1>1, <2>1
    <3> QED
        BY <1>2, <1>7, <2>1, <3>1 DEF a
  <2>2. CASE k # n + 1
    <3>1. k \in 1..n /\ k \in 0..(n + 1) /\ k - 1 \in 0..(n + 1) /\ k - 1 # n + 1
        BY <1>1, <2>2
    <3>2. r[k] = Cat(LeftOf(v, s[k]), r[k - 1])
        BY <3>1 DEF PendingOn, n
    <3> QED
        BY <1>2, <1>7, <2>2, <3>1, <3>2
  <2> QED
      BY <2>1, <2>2
<1>9. PendingOn(v, t, q)
    BY <1>2, <1>7, <1>8 DEF PendingOn
<1> QED
    BY <1>2, <1>3, <1>7, <1>9 DEF n

(* A call returns.                                                         *)
Popped(s) == SubSeq(s, 1, Len(s) - 1)

LEMMA Pop ==
    ASSUME NEW v \in Volumes, NEW s, s # << >>, StackOn(v, s),
           NEW t, t = Popped(s)
    PROVE  /\ StackOn(v, t) /\ Len(s) \in Nat \ {0} /\ Len(t) = Len(s) - 1
           /\ \A k \in 1..(Len(s) - 1) : t[k] = s[k]
<1>1. /\ Len(s) \in Nat \ {0} /\ t \in Seq(Frame) /\ Len(t) = Len(s) - 1
      /\ \A k \in 1..(Len(s) - 1) : k \in 1..Len(s) /\ t[k] = s[k]
    BY Ends DEF StackOn, Popped
<1>2. StackOn(v, t)
    BY <1>1 DEF StackOn
<1> QED
    BY <1>1, <1>2

LEMMA PopPending ==
    ASSUME NEW v \in Volumes, NEW s, s # << >>, StackOn(v, s),
           NEW f, f = s[Len(s)], f.next = Count(NodeIn(v, f.node)) + 1,
           NEW t, t = Popped(s), NEW r, PendingOn(v, s, r)
    PROVE  \E q : PendingOn(v, t, q) /\ q[Len(t)] = r[Len(s)]
<1> DEFINE n == Len(s)
           q == [k \in 0..(n - 1) |-> r[k]]
<1>1. /\ n \in Nat \ {0} /\ n \in 1..n /\ f \in Frame
    BY Ends DEF StackOn
<1>2. Len(t) = n - 1 /\ \A k \in 1..(n - 1) : t[k] = s[k]
    BY Pop
<1>3. LeftOf(v, f) = << >>
  <2>1. f.depth \in 0..MaxDepth /\ f.node \in Nodes(v)
      BY <1>1 DEF Frame, StackOn
  <2>2. f.next \in 1..(Count(NodeIn(v, f.node)) + 1)
      BY <2>1, NodeType
  <2> QED
      BY <2>1, <2>2, LeftUnfolds DEF LeftOf
<1> HIDE DEF n
<1>4. n - 1 \in 0..n /\ n - 1 \in 0..(n - 1) /\ 0 \in 0..(n - 1) /\ \A k \in 0..(n - 1) : k \in 0..n
    BY <1>1
<1>5. r \in [0..n -> Pairs] /\ r[0] = << >> /\ r[n - 1] \in Pairs /\ r[n] = Cat(LeftOf(v, f), r[n - 1])
    BY <1>1, <1>4 DEF PendingOn, n
<1>6. r[n] = r[n - 1]
    BY <1>3, <1>5, PairsJoin
<1>7. q \in [0..(n - 1) -> Pairs] /\ q[0] = << >> /\ \A k \in 0..(n - 1) : q[k] = r[k]
    BY <1>4, <1>5
<1> HIDE DEF q
<1>8. \A k \in 1..(n - 1) : q[k] = Cat(LeftOf(v, t[k]), q[k - 1])
  <2> TAKE k \in 1..(n - 1)
  <2>1. k \in 1..n /\ k \in 0..(n - 1) /\ k - 1 \in 0..(n - 1)
      BY <1>1
  <2>2. r[k] = Cat(LeftOf(v, s[k]), r[k - 1])
      BY <2>1 DEF PendingOn, n
  <2> QED
      BY <1>2, <1>7, <2>1, <2>2
<1>9. PendingOn(v, t, q)
    BY <1>2, <1>7, <1>8 DEF PendingOn
<1> QED
    BY <1>2, <1>4, <1>6, <1>7, <1>9 DEF n

-----------------------------------------------------------------------------
(* The steps of the visit *)

(* What is known when Sound, of the sequences at hand.                     *)
LEMMA PendingType ==
    ASSUME NEW v, NEW s, StackOn(v, s), NEW r, PendingOn(v, s, r)
    PROVE  r[Len(s)] \in Pairs
<1>1. Len(s) \in Nat
    BY LenProperties DEF StackOn
<1>2. Len(s) \in 0..Len(s)
  <2> DEFINE n == Len(s)
  <2>1. n \in Nat
      BY <1>1
  <2> HIDE DEF n
  <2>2. n \in 0..n
      BY <2>1
  <2> QED BY <2>2 DEF n
<1> QED
    BY <1>2 DEF PendingOn

(* Steps before and after a visit.                                         *)
LEMMA AsideStep ==
    ASSUME VisitInv, UNCHANGED volume, pc # "visit", pc' # "visit", stack' = << >>,
           \/ /\ UNCHANGED <<handed, status>>
              /\ pc' \in {"descriptor", "locate", "inode"} => pc \in {"descriptor", "locate", "inode"}
           \/ UNCHANGED handed /\ status' = "failed" /\ pc' = "idle"
           \/ /\ handed' = << >> /\ status' \in {"none", "failed"}
              /\ pc' \in {"descriptor", "locate", "inode"} => status' = "none"
    PROVE  VisitInv'
<1>1. stack = << >> /\ StackOn(volume, stack)
    BY DEF VisitInv, StackInv
<1>2. StackInv'
    BY <1>1 DEF StackInv
<1>3. handed' \in Pairs /\ status' \in {"none", "ok", "failed"}
      /\ (handed' = handed \/ handed' = << >>)
      /\ (pc' \in {"descriptor", "locate", "inode"} => handed' = << >> /\ status' = "none")
      /\ (status' = "ok" => status = "ok" /\ handed' = handed)
    BY EmptySeq DEF VisitInv, HandedInv, Pairs
<1>4. ASSUME Sound
      PROVE  /\ \A k \in 1..Len(handed') : handed'[k][2] < BlocksCount(sb)
             /\ \E t \in Pairs : Mapped = Cat(handed', t)
             /\ status' = "ok" => handed' = Mapped
  <2>1. CASE handed' = handed
      BY <1>3, <1>4, <2>1 DEF VisitInv, HandedInv
  <2>2. CASE handed' = << >>
    <3>1. Mapped \in Pairs
        BY <1>4, MappedType DEF Sound, VisitInv
    <3>2. Mapped = Cat(<< >>, Mapped)
        BY <3>1, PairsJoin
    <3>3. \A k \in 1..Len(<< >>) : FALSE
        OBVIOUS
    <3>4. status' = "ok" => handed' = Mapped
        BY <1>3, <1>4 DEF VisitInv, HandedInv
    <3> QED
        BY <2>2, <3>1, <3>2, <3>3, <3>4
  <2> QED
      BY <1>3, <2>1, <2>2
<1>5. sb' = sb /\ Mapped' = Mapped /\ (Sound' <=> Sound)
    BY VolumeKept
<1>6. HandedInv'
    BY <1>3, <1>4, <1>5 DEF HandedInv
<1> QED
    BY <1>2, <1>6 DEF VisitInv

(* A visit that fails has handed over a beginning.                         *)
LEMMA VisitFailsStep ==
    ASSUME VisitInv, UNCHANGED <<volume, handed>>, pc = "visit", Fail, stack' = << >>
    PROVE  VisitInv'
<1>1. StackOn(volume, stack)
    BY DEF VisitInv, StackInv
<1>2. StackInv'
  <2>1. << >> \in Seq(Frame) /\ \A k \in 1..Len(<< >>) : FALSE
      BY EmptySeq
  <2> QED
      BY <2>1 DEF StackInv, StackOn, Fail
<1>3. sb' = sb /\ Mapped' = Mapped /\ (Sound' <=> Sound)
    BY VolumeKept
<1>4. ASSUME Sound PROVE \E t \in Pairs : Mapped = Cat(handed, t)
  <2>1. PICK r : PendingOn(volume, stack, r) /\ Mapped = Cat(handed, r[Len(stack)])
      BY <1>4 DEF VisitInv, HandedInv
  <2>2. r[Len(stack)] \in Pairs
      BY <1>1, <2>1, PendingType
  <2> QED
      BY <2>1, <2>2
<1>5. HandedInv'
    BY <1>3, <1>4 DEF VisitInv, HandedInv, Fail
<1> QED
    BY <1>2, <1>5 DEF VisitInv

(* A visit that goes on.                                                   *)
LEMMA VisitGoesOn ==
    ASSUME VisitInv, UNCHANGED <<volume, pc, status>>, pc = "visit",
           StackOn(volume, stack'), stack' # << >>, handed' \in Pairs,
           Sound => /\ \A k \in 1..Len(handed') : handed'[k][2] < BlocksCount(sb)
                    /\ \E q : PendingOn(volume, stack', q) /\ Mapped = Cat(handed', q[Len(stack')])
    PROVE  VisitInv'
<1>1. sb' = sb /\ Mapped' = Mapped /\ (Sound' <=> Sound)
    BY VolumeKept
<1>2. StackInv'
    BY DEF StackInv
<1>3. status' = "none"
    BY DEF VisitInv, HandedInv
<1>4. HandedInv'
    BY <1>1, <1>3 DEF HandedInv
<1> QED
    BY <1>2, <1>4 DEF VisitInv

(* The visit begins with the root.                                         *)
LEMMA FirstCall ==
    ASSUME NEW v \in Volumes, NEW s, s = << >>, NEW g \in Frame,
           g.depth = v.inode.root.depth - Len(s), g.node \in Nodes(v), g.next = 1,
           NEW t, t = Pushed(s, g)
    PROVE  /\ StackOn(v, t) /\ t # << >>
           /\ \E q : PendingOn(v, t, q) /\ q[Len(t)] = Maps(v)[g.depth][g.node]
<1> DEFINE r == [k \in 0..0 |-> << >>]
<1>1. s \in Seq(Frame) /\ Len(s) = 0
    BY EmptySeq
<1>2. r \in [0..0 -> Pairs] /\ r[0] = << >>
    BY EmptySeq DEF Pairs
<1>3. Maps(v)[g.depth][g.node] \in Pairs
    BY MapsType DEF Frame
<1> HIDE DEF r
<1>4. StackOn(v, s)
    BY <1>1 DEF StackOn
<1>5. PendingOn(v, s, r)
    BY <1>1, <1>2 DEF PendingOn
<1>7. StackOn(v, t) /\ t # << >>
    BY <1>4, Push
<1>8. PICK q : PendingOn(v, t, q) /\ q[Len(t)] = Cat(Maps(v)[g.depth][g.node], r[Len(s)])
    BY <1>4, <1>5, PushPending
<1>9. q[Len(t)] = Maps(v)[g.depth][g.node]
    BY <1>1, <1>2, <1>3, <1>8, PairsJoin
<1> QED
    BY <1>7, <1>8, <1>9

LEMMA EnterTreeStep ==
    ASSUME VisitInv, EnterTree PROVE VisitInv'
<1>1. pc = "inode" /\ stack = << >> /\ handed = << >> /\ status = "none"
    BY DEF VisitInv, StackInv, HandedInv, EnterTree
<1>2. UNCHANGED <<volume, handed>>
    BY DEF EnterTree, command
<1>3. CASE ~RootAccepted(inode.root)
    BY <1>1, <1>2, <1>3, AsideStep DEF EnterTree, Fail
<1>4. CASE RootAccepted(inode.root)
  <2> DEFINE g == [node |-> Root, depth |-> inode.root.depth, next |-> 1]
  <2>1. stack' = <<g>> /\ pc' = "visit" /\ status' = status
      BY <1>4 DEF EnterTree
  <2>2. inode.root.depth \in 0..MaxDepth /\ Mapped \in Pairs
      BY <1>4, MappedType DEF RootAccepted, VisitInv
  <2>3. g \in Frame /\ g.depth = inode.root.depth /\ g.node = Root /\ g.next = 1
      BY <2>2 DEF Frame
  <2> HIDE DEF g
  <2>4. volume \in Volumes /\ g.depth = volume.inode.root.depth /\ g.node \in Nodes(volume)
      BY <2>3 DEF VisitInv, Nodes, inode
  <2>5. Maps(volume)[g.depth][g.node] = Mapped
      BY <2>3 DEF Mapped
  <2>7. /\ StackOn(volume, <<g>>) /\ <<g>> # << >>
        /\ \E q : PendingOn(volume, <<g>>, q) /\ q[Len(<<g>>)] = Maps(volume)[g.depth][g.node]
    <3> DEFINE s == << >>
               t == <<g>>
    <3>1. s = << >> /\ Len(s) = 0 /\ t = Pushed(s, g)
        BY EmptySeq DEF Pushed
    <3>2. \A d \in 0..MaxDepth : d - 0 = d
        OBVIOUS
    <3>3. g.depth = volume.inode.root.depth - Len(s)
        BY <2>2, <2>3, <2>4, <3>1, <3>2
    <3> HIDE DEF s, t
    <3>4. /\ StackOn(volume, t) /\ t # << >>
          /\ \E q : PendingOn(volume, t, q) /\ q[Len(t)] = Maps(volume)[g.depth][g.node]
        BY <2>3, <2>4, <3>1, <3>3, FirstCall
    <3> QED
        BY <3>4 DEF t
  <2>8. StackOn(volume, stack') /\ stack' # << >>
      BY <2>1, <2>7
  <2>9. \E q : PendingOn(volume, stack', q) /\ Mapped = Cat(handed', q[Len(stack')])
    <3>1. Mapped = Cat(<< >>, Mapped)
        BY <2>2, PairsJoin
    <3>2. \E q : PendingOn(volume, stack', q) /\ q[Len(stack')] = Mapped
        BY <2>1, <2>5, <2>7
    <3> QED
        BY <1>1, <1>2, <3>1, <3>2
  <2>10. StackInv'
      BY <1>2, <2>1, <2>8 DEF StackInv
  <2>11. HandedInv'
    <3>1. sb' = sb /\ Mapped' = Mapped /\ (Sound' <=> Sound)
        BY <1>2, VolumeKept
    <3>2. \A k \in 1..Len(<< >>) : FALSE
        OBVIOUS
    <3> QED
        BY <1>1, <1>2, <2>1, <2>9, <3>1, <3>2 DEF VisitInv, HandedInv
  <2> QED
      BY <1>2, <2>10, <2>11 DEF VisitInv
<1> QED
    BY <1>3, <1>4

LEMMA BlocksCountType ==
    ASSUME NEW b \in Copy, \A f \in WordFields : b[f] < W32
    PROVE  BlocksCount(b) \in Nat
<1>1. {"blocks_count_lo", "blocks_count_hi"} \subseteq Field
    BY DEF Field, Part, NParts
<1>2. b["blocks_count_lo"] \in Nat /\ b["blocks_count_hi"] \in Nat
    BY <1>1 DEF Copy
<1>3. \A x, y \in Nat : x + y * W32 \in Nat
    BY Widths
<1> QED
    BY <1>2, <1>3 DEF BlocksCount

LEMMA EntryTypes ==
    ASSUME volume \in Volumes, StackInv, pc = "visit", Held
    PROVE  EntryAt \in Entry /\ EntryAt = NodeIn(volume, Top.node).entries[Top.next]
<1>1. /\ TopNode.entries \in Seq(Entry) /\ TopNode = NodeIn(volume, Top.node)
      /\ Top.next \in Nat \ {0} /\ Top.next <= Len(TopNode.entries)
    BY TopType DEF Held
<1>2. Len(TopNode.entries) \in Nat
    BY <1>1, LenProperties
<1>3. Top.next \in 1..Len(TopNode.entries)
    BY <1>1, <1>2
<1> QED
    BY <1>1, <1>3, ElementOfSeq DEF EntryAt

(* The innermost call goes on to its next entry, what the entry maps apart. *)
LEMMA AdvanceStep ==
    ASSUME VisitInv, pc = "visit", Top.next <= TopNode.claims
    PROVE  /\ Advance = Advanced(stack)
           /\ StackOn(volume, Advance) /\ Advance # << >> /\ Len(Advance) = Len(stack)
           /\ Sound => \E q : /\ PendingOn(volume, Advance, q) /\ q[Len(stack)] \in Pairs
                              /\ Portion(volume, Top.depth, EntryAt) \in Pairs
                              /\ Mapped = Cat(Cat(handed, Portion(volume, Top.depth, EntryAt)), q[Len(stack)])
<1>1. volume \in Volumes /\ StackInv /\ StackOn(volume, stack) /\ stack # << >> /\ handed \in Pairs
    BY DEF VisitInv, StackInv, HandedInv
<1>2. /\ Top = stack[Len(stack)] /\ Top.node \in Nodes(volume)
      /\ TopNode = NodeIn(volume, Top.node)
    BY <1>1, TopType DEF Top
<1>3. Top.next <= NodeIn(volume, Top.node).claims
    BY <1>2
<1>4. Advance = Advanced(stack)
    BY DEF Advance, Advanced
<1>5. StackOn(volume, Advance) /\ Advance # << >> /\ Len(Advance) = Len(stack)
    BY <1>1, <1>2, <1>3, <1>4, AdvanceOn
<1>6. ASSUME Sound
      PROVE  \E q : /\ PendingOn(volume, Advance, q) /\ q[Len(stack)] \in Pairs
                    /\ Portion(volume, Top.depth, EntryAt) \in Pairs
                    /\ Mapped = Cat(Cat(handed, Portion(volume, Top.depth, EntryAt)), q[Len(stack)])
  <2> DEFINE p == Portion(volume, Top.depth, EntryAt)
             a == NodeIn(volume, Top.node).entries[Top.next]
  <2>1. PICK r : PendingOn(volume, stack, r) /\ Mapped = Cat(handed, r[Len(stack)])
      BY <1>6 DEF VisitInv, HandedInv
  <2>2. Count(NodeIn(volume, Top.node)) = NodeIn(volume, Top.node).claims
      BY <1>1, <1>2, <1>6, HoldsAll DEF Sound
  <2>3. EntryAt = a
      BY <1>2 DEF EntryAt
  <2>4. Portion(volume, Top.depth, a) \in Pairs
        /\ \E q : PendingOn(volume, Advance, q) /\ r[Len(stack)] = Cat(Portion(volume, Top.depth, a), q[Len(stack)])
      BY <1>1, <1>2, <1>3, <1>4, <2>1, <2>2, AdvancePending
  <2> HIDE DEF a
  <2>5. PICK q : PendingOn(volume, Advance, q) /\ r[Len(stack)] = Cat(p, q[Len(stack)])
      BY <2>3, <2>4
  <2>6. p \in Pairs
      BY <2>3, <2>4
  <2>7. q[Len(stack)] \in Pairs
      BY <1>5, <2>5, PendingType
  <2> HIDE DEF p
  <2>8. Cat(Cat(handed, p), q[Len(stack)]) = Cat(handed, Cat(p, q[Len(stack)]))
      BY <1>1, <2>6, <2>7, PairsAssociative
  <2> QED
      BY <2>1, <2>5, <2>6, <2>7, <2>8 DEF p
<1> QED
    BY <1>4, <1>5, <1>6

LEMMA VisitExtentStep ==
    ASSUME VisitInv, VisitExtent PROVE VisitInv'
<1>1. /\ pc = "visit" /\ Top.next <= TopNode.claims /\ Top.depth = 0 /\ Held /\ UNCHANGED volume
    BY DEF VisitExtent, AtEntry, command
<1>2. EntryAt \in Entry
    BY <1>1, EntryTypes DEF VisitInv
<1>3. CASE ~BlockRangeValid(sb, EntryAt.start, Masked(EntryAt.length))
    BY <1>1, <1>3, VisitFailsStep DEF VisitExtent
<1>4. CASE BlockRangeValid(sb, EntryAt.start, Masked(EntryAt.length))
  <2> DEFINE e == EntryAt
             n == Masked(e.length)
  <2>1. handed' = Cat(handed, Blocks(e)) /\ stack' = Advance /\ UNCHANGED <<pc, status>>
      BY <1>4 DEF VisitExtent, Cat
  <2>2. n # 0 /\ e.start < BlocksCount(sb) /\ n <= BlocksCount(sb) - e.start
      BY <1>4 DEF BlockRangeValid
  <2> HIDE DEF e, n
  <2>3. /\ n \in Nat /\ e.start \in Nat /\ e.logical \in Nat
        /\ Blocks(e) \in Pairs /\ Len(Blocks(e)) = n /\ TrueBlocks(e) = Blocks(e)
        /\ \A j \in 1..n : Blocks(e)[j] = <<e.logical + j - 1, e.start + j - 1>>
      BY <1>2, <2>2, BlocksType, LengthMasked, EntryType DEF e, n
  <2>4. handed \in Pairs /\ handed' \in Pairs
      BY <2>1, <2>3, PairsJoin DEF VisitInv, HandedInv
  <2>5. ASSUME Sound
        PROVE  \A k \in 1..Len(handed') : handed'[k][2] < BlocksCount(sb)
    <3> DEFINE m == Len(handed)
    <3>1. /\ m \in Nat /\ Len(handed') = m + n
          /\ \A k \in 1..(m + n) : handed'[k] = IF k <= m THEN handed[k] ELSE Blocks(e)[k - m]
        BY <2>1, <2>3, <2>4, PairsJoin
    <3>2. \A k \in 1..m : handed[k][2] < BlocksCount(sb)
        BY <2>5 DEF VisitInv, HandedInv
    <3>3. BlocksCount(sb) \in Nat
      <4>1. sb \in Copy /\ \A f \in WordFields : sb[f] < W32
          BY VolumeType DEF VisitInv
      <4> QED
          BY <4>1, BlocksCountType
    <3>4. \A j \in 1..n : e.start + j - 1 < BlocksCount(sb)
        BY <2>2, <2>3, <3>3
    <3>5. \A j \in 1..n : Blocks(e)[j][2] = e.start + j - 1
        BY <2>3
    <3> HIDE DEF m
    <3>6. \A k \in 1..(m + n) : k <= m \/ k - m \in 1..n
        BY <2>3, <3>1
    <3>7. \A k \in 1..(m + n) : k <= m => k \in 1..m
        BY <2>3, <3>1
    <3> QED
        BY <3>1, <3>2, <3>4, <3>5, <3>6, <3>7
  <2>6. /\ StackOn(volume, stack') /\ stack' # << >> /\ Len(stack') = Len(stack)
        /\ Sound => \E q : /\ PendingOn(volume, stack', q)
                           /\ Mapped = Cat(Cat(handed, Portion(volume, Top.depth, e)), q[Len(stack)])
      BY <1>1, <2>1, AdvanceStep DEF e
  <2>7. Portion(volume, Top.depth, e) = Blocks(e)
      BY <1>1, <2>3 DEF Portion
  <2>8. Sound => \E q : PendingOn(volume, stack', q) /\ Mapped = Cat(handed', q[Len(stack')])
      BY <2>1, <2>6, <2>7
  <2> QED
      BY <1>1, <2>1, <2>4, <2>5, <2>6, <2>8, VisitGoesOn
<1> QED
    BY <1>3, <1>4

(* The direct blocks in use are pairs of a logical and a physical block.   *)
OneMore(direct, s, k) == IF direct[k] # 0 THEN Append(s, <<k - 1, direct[k]>>) ELSE s

UpTo(direct, n, f) == f = [k \in 0..n |-> IF k = 0 THEN << >> ELSE OneMore(direct, f[k - 1], k)]

LEMMA UsedExists ==
    ASSUME NEW direct \in Seq(Nat)
    PROVE  \E f : UpTo(direct, Len(direct), f) /\ f[Len(direct)] \in Pairs
<1> DEFINE n == Len(direct)
           S == {m \in Nat : m <= n => \E f : UpTo(direct, m, f) /\ f[m] \in Pairs}
<1>1. n \in Nat
    BY LenProperties
<1>2. ASSUME NEW s \in Pairs, NEW k \in 1..n
      PROVE  OneMore(direct, s, k) \in Pairs
  <2>1. direct[k] \in Nat /\ k - 1 \in Nat
      BY <1>1, ElementOfSeq
  <2>2. <<k - 1, direct[k]>> \in Nat \X Nat
      BY <2>1
  <2>3. Append(s, <<k - 1, direct[k]>>) \in Pairs
      BY <2>2, AppendProperties DEF Pairs
  <2> QED
      BY <2>3 DEF OneMore
<1> HIDE DEF n
<1>3. 0 \in S
  <2> DEFINE f == [k \in 0..0 |-> << >>]
  <2>1. UpTo(direct, 0, f)
      BY DEF UpTo
  <2>2. f[0] \in Pairs
      BY EmptySeq DEF Pairs
  <2> HIDE DEF f
  <2> QED
      BY <2>1, <2>2
<1>4. ASSUME NEW m \in Nat, m \in S
      PROVE  m + 1 \in S
  <2> SUFFICES ASSUME m + 1 <= n PROVE \E f : UpTo(direct, m + 1, f) /\ f[m + 1] \in Pairs
      OBVIOUS
  <2>1. PICK f : UpTo(direct, m, f) /\ f[m] \in Pairs
      BY <1>1, <1>4
  <2>2. m + 1 \in 1..n
      BY <1>1
  <2> HIDE DEF S
  <2> DEFINE g == [k \in 0..(m + 1) |-> IF k <= m THEN f[k] ELSE OneMore(direct, f[m], k)]
             h == [k \in 0..(m + 1) |-> IF k = 0 THEN << >> ELSE OneMore(direct, g[k - 1], k)]
  <2>3. \A k \in 0..(m + 1) : g[k] = h[k]
    <3> TAKE k \in 0..(m + 1)
    <3>1. CASE k = 0
      <4>1. f[0] = << >>
          BY <2>1 DEF UpTo
      <4> QED BY <3>1, <4>1
    <3>2. CASE k # 0 /\ k <= m
      <4>1. k \in 0..m /\ k - 1 \in 0..m /\ k - 1 \in 0..(m + 1)
          BY <3>2
      <4>2. f[k] = OneMore(direct, f[k - 1], k)
          BY <2>1, <3>2, <4>1 DEF UpTo
      <4>3. g[k] = f[k] /\ g[k - 1] = f[k - 1]
          BY <3>2, <4>1
      <4>4. h[k] = OneMore(direct, g[k - 1], k)
          BY <3>2
      <4> QED BY <4>2, <4>3, <4>4
    <3>3. CASE k = m + 1
      <4>1. g[k] = OneMore(direct, f[m], k) /\ g[k - 1] = f[m]
          BY <3>3
      <4>2. h[k] = OneMore(direct, g[k - 1], k)
          BY <3>3
      <4> QED BY <4>1, <4>2
    <3> QED
        BY <3>1, <3>2, <3>3
  <2>4. g = h
      BY <2>3
  <2>5. UpTo(direct, m + 1, g)
    <3> HIDE DEF g
    <3> QED
        BY <2>4 DEF UpTo
  <2>6. g[m + 1] = OneMore(direct, f[m], m + 1)
      OBVIOUS
  <2> HIDE DEF g
  <2>7. g[m + 1] \in Pairs
      BY <1>2, <2>1, <2>2, <2>6
  <2> QED
      BY <2>5, <2>7
<1> HIDE DEF S
<1>5. Nat \subseteq S
    BY <1>3, <1>4, Induction
<1> QED
    BY <1>1, <1>5 DEF S, n

LEMMA UpToUnique ==
    ASSUME NEW direct, NEW n \in Nat, NEW f, UpTo(direct, n, f), NEW g, UpTo(direct, n, g)
    PROVE  f = g
<1> DEFINE S == {k \in Nat : k <= n => f[k] = g[k]}
<1>1. 0 \in S
  <2>1. 0 \in 0..n
      OBVIOUS
  <2> QED
      BY <2>1 DEF UpTo
<1>2. ASSUME NEW k \in Nat, k \in S
      PROVE  k + 1 \in S
  <2> SUFFICES ASSUME k + 1 <= n PROVE f[k + 1] = g[k + 1]
      OBVIOUS
  <2>1. f[k] = g[k]
      BY <1>2
  <2>2. k + 1 \in 0..n /\ k + 1 # 0 /\ k + 1 - 1 = k
      OBVIOUS
  <2>3. f[k + 1] = OneMore(direct, f[k], k + 1) /\ g[k + 1] = OneMore(direct, g[k], k + 1)
      BY <2>2 DEF UpTo
  <2> QED
      BY <2>1, <2>3
<1> HIDE DEF S
<1>3. Nat \subseteq S
    BY <1>1, <1>2, Induction
<1>4. \A k \in 0..n : f[k] = g[k]
    BY <1>3 DEF S
<1>5. f = [k \in 0..n |-> f[k]] /\ g = [k \in 0..n |-> g[k]]
    BY DEF UpTo
<1> QED
    BY <1>4, <1>5

LEMMA UsedType ==
    ASSUME NEW direct \in Seq(Nat) PROVE Used(direct) \in Pairs
<1> DEFINE n == Len(direct)
           c == CHOOSE f : UpTo(direct, n, f)
<1>1. n \in Nat
    BY LenProperties
<1>2. PICK f : UpTo(direct, n, f) /\ f[n] \in Pairs
    BY UsedExists
<1>3. UpTo(direct, n, c)
    BY <1>2
<1>4. Used(direct) = c[n]
    BY DEF Used, UpTo, OneMore
<1> HIDE DEF c, n
<1>5. c = f
    BY <1>1, <1>2, <1>3, UpToUnique
<1> QED
    BY <1>2, <1>4, <1>5

LEMMA VisitDirectStep ==
    ASSUME VisitInv, VisitDirect PROVE VisitInv'
<1>1. /\ pc = "inode" /\ ~inode.extents /\ pc' = "idle" /\ status' \in {"ok", "failed"}
      /\ UNCHANGED <<volume, stack>> /\ handed' = Used(inode.direct)
    BY DEF VisitDirect, Succeed, Fail, command
<1>2. inode.direct \in Seq(Nat)
    BY InodeAccessAssumption DEF VisitInv, inode, RawInode
<1>3. handed' \in Pairs
    BY <1>1, <1>2, UsedType
<1>4. StackInv'
    BY <1>1 DEF VisitInv, StackInv
<1>5. ~Sound'
    BY <1>1, VolumeKept DEF Sound
<1>6. HandedInv'
    BY <1>1, <1>3, <1>5 DEF HandedInv
<1> QED
    BY <1>1, <1>4, <1>6 DEF VisitInv

LEMMA DescendStep ==
    ASSUME VisitInv, Descend PROVE VisitInv'
<1>1. /\ pc = "visit" /\ Top.next <= TopNode.claims /\ Top.depth > 0 /\ Held
      /\ UNCHANGED <<volume, handed>>
    BY DEF Descend, AtEntry, command
<1>2. volume \in Volumes /\ StackInv /\ handed \in Pairs
    BY DEF VisitInv, HandedInv
<1>3. EntryAt \in Entry /\ Top.depth \in 0..MaxDepth
      /\ Top.depth = inode.root.depth - (Len(stack) - 1)
      /\ Len(stack) \in Nat
    BY <1>1, <1>2, EntryTypes, TopType
<1> DEFINE e == EntryAt
           g == [node |-> e.leaf, depth |-> Top.depth - 1, next |-> 1]
<1>4. CASE Fail /\ stack' = << >>
    BY <1>1, <1>4, VisitFailsStep
<1>5. CASE /\ NodeAccepted(NodeAt(e.leaf), Top.depth - 1)
           /\ stack' = Append(Advance, g) /\ UNCHANGED <<pc, status>>
  <2> DEFINE s == Advance
  <2>1. stack' = Pushed(s, g)
      BY <1>5 DEF Pushed
  <2>2. e.leaf \in Nat
      BY <1>3, EntryType
  <2>3. e.leaf \in DOMAIN volume.node
      BY <1>5, <2>2 DEF NodeAccepted, NodeAt, NoNode, Root
  <2>4. Top.depth - 1 \in 0..MaxDepth
    <3>1. MaxDepth \in Nat
        BY InodeAccessAssumption
    <3> QED
        BY <1>1, <1>3, <3>1
  <2>5. g \in Frame /\ g.depth = Top.depth - 1 /\ g.node = e.leaf /\ g.next = 1
      BY <2>2, <2>4 DEF Frame
  <2>6. g.node \in Nodes(volume)
      BY <2>3, <2>5 DEF Nodes
  <2>7. Portion(volume, Top.depth, e) = Maps(volume)[g.depth][g.node]
      BY <1>1, <1>3, <2>3, <2>5 DEF Portion
  <2>8. /\ StackOn(volume, s) /\ Len(s) = Len(stack)
        /\ Sound => \E q : /\ PendingOn(volume, s, q) /\ q[Len(s)] \in Pairs
                           /\ Portion(volume, Top.depth, e) \in Pairs
                           /\ Mapped = Cat(Cat(handed, Portion(volume, Top.depth, e)), q[Len(s)])
      BY <1>1, AdvanceStep
  <2>9. g.depth = volume.inode.root.depth - Len(s)
    <3>1. volume.inode.root.depth \in Nat
        BY <1>2, InodeAccessAssumption DEF RawInode, TreeNode
    <3> QED
        BY <1>3, <2>5, <2>8, <3>1 DEF inode
  <2> HIDE DEF s, g, e
  <2>10. StackOn(volume, stack') /\ stack' # << >>
      BY <1>2, <2>1, <2>5, <2>6, <2>8, <2>9, Push
  <2>11. ASSUME Sound
         PROVE  \E q : PendingOn(volume, stack', q) /\ Mapped = Cat(handed', q[Len(stack')])
    <3> DEFINE p == Portion(volume, Top.depth, e)
    <3>1. PICK r : /\ PendingOn(volume, s, r) /\ r[Len(s)] \in Pairs /\ p \in Pairs
                   /\ Mapped = Cat(Cat(handed, p), r[Len(s)])
        BY <2>8, <2>11
    <3>2. PICK q : PendingOn(volume, stack', q)
                   /\ q[Len(stack')] = Cat(Maps(volume)[g.depth][g.node], r[Len(s)])
        BY <1>2, <2>1, <2>5, <2>6, <2>8, <2>9, <3>1, PushPending
    <3>3. p = Maps(volume)[g.depth][g.node]
        BY <2>7
    <3> HIDE DEF p
    <3>4. Cat(Cat(handed, p), r[Len(s)]) = Cat(handed, Cat(p, r[Len(s)]))
        BY <1>2, <3>1, PairsAssociative
    <3> QED
        BY <1>1, <3>1, <3>2, <3>3, <3>4
  <2>12. Sound => \A k \in 1..Len(handed') : handed'[k][2] < BlocksCount(sb)
      BY <1>1 DEF VisitInv, HandedInv
  <2> QED
      BY <1>1, <1>2, <1>5, <2>10, <2>11, <2>12, VisitGoesOn
<1> QED
    BY <1>4, <1>5 DEF Descend

LEMMA ReadBeyondNodeStep ==
    ASSUME VisitInv, ReadBeyondNode PROVE VisitInv'
<1>1. /\ pc = "visit" /\ Top.next <= TopNode.claims /\ ~Held /\ UNCHANGED volume
    BY DEF ReadBeyondNode, AtEntry, command
<1>2. volume \in Volumes /\ StackInv /\ handed \in Pairs
    BY DEF VisitInv, HandedInv
<1>3. ~Sound
  <2> SUFFICES ASSUME Sound PROVE FALSE
      OBVIOUS
  <2>1. /\ Top.node \in Nodes(volume) /\ TopNode = NodeIn(volume, Top.node)
        /\ Top.next \in Nat /\ TopNode.claims \in Nat /\ TopNode.entries \in Seq(Entry)
      BY <1>1, <1>2, TopType
  <2>2. TopNode.claims <= Len(TopNode.entries)
      BY <2>1, NodeAtIn, <1>2 DEF Sound, NodesHold, Nodes
  <2>3. Len(TopNode.entries) \in Nat
      BY <2>1, LenProperties
  <2> QED
      BY <1>1, <2>1, <2>2, <2>3 DEF Held
<1>4. CASE Fail /\ stack' = << >> /\ UNCHANGED handed
    BY <1>1, <1>4, VisitFailsStep
<1>5. CASE stack' = Advance /\ UNCHANGED <<pc, status>> /\ handed' \in Pairs
  <2>1. StackOn(volume, stack') /\ stack' # << >>
      BY <1>1, <1>5, AdvanceStep
  <2> QED
      BY <1>1, <1>3, <1>5, <2>1, VisitGoesOn
<1>6. \A block \in 0..1 : Append(handed, <<0, block>>) \in Pairs
  <2>1. \A block \in 0..1 : <<0, block>> \in Nat \X Nat
      OBVIOUS
  <2> QED
      BY <1>2, <2>1, AppendProperties DEF Pairs
<1>7. \/ Fail /\ stack' = << >> /\ UNCHANGED handed
      \/ stack' = Advance /\ UNCHANGED <<pc, status, handed>>
      \/ /\ stack' = Advance /\ UNCHANGED <<pc, status>>
         /\ \E block \in 0..1 : handed' = Append(handed, <<0, block>>)
    BY DEF ReadBeyondNode
<1> QED
    BY <1>2, <1>4, <1>5, <1>6, <1>7

LEMMA AscendStep ==
    ASSUME VisitInv, Ascend PROVE VisitInv'
<1>1. /\ pc = "visit" /\ Top.next > TopNode.claims /\ UNCHANGED <<volume, handed>>
      /\ stack' = Popped(stack)
    BY DEF Ascend, command, Popped
<1>2. volume \in Volumes /\ StackInv /\ StackOn(volume, stack) /\ stack # << >> /\ handed \in Pairs
    BY <1>1 DEF VisitInv, StackInv, HandedInv
<1>3. /\ Top = stack[Len(stack)] /\ Top.node \in Nodes(volume)
      /\ Top.next = NodeIn(volume, Top.node).claims + 1
  <2>1. /\ Top.next \in Nat /\ Top.next <= TopNode.claims + 1 /\ TopNode.claims \in Nat
        /\ Top.node \in Nodes(volume) /\ TopNode = NodeIn(volume, Top.node)
      BY <1>1, <1>2, TopType
  <2> QED
      BY <1>1, <2>1 DEF Top
<1>4. /\ StackOn(volume, stack') /\ Len(stack) \in Nat \ {0} /\ Len(stack') = Len(stack) - 1
    BY <1>1, <1>2, Pop
<1>5. ASSUME Sound
      PROVE  \E q : PendingOn(volume, stack', q) /\ Mapped = Cat(handed, q[Len(stack')])
  <2>1. PICK r : PendingOn(volume, stack, r) /\ Mapped = Cat(handed, r[Len(stack)])
      BY <1>1, <1>5 DEF VisitInv, HandedInv
  <2>2. Count(NodeIn(volume, Top.node)) = NodeIn(volume, Top.node).claims
      BY <1>2, <1>3, <1>5, HoldsAll DEF Sound
  <2>3. Top.next = Count(NodeIn(volume, Top.node)) + 1
      BY <1>3, <2>2
  <2>4. \E q : PendingOn(volume, stack', q) /\ q[Len(stack')] = r[Len(stack)]
      BY <1>1, <1>2, <1>3, <2>1, <2>3, PopPending
  <2> QED
      BY <2>1, <2>4
<1>6. Sound => \A k \in 1..Len(handed') : handed'[k][2] < BlocksCount(sb)
    BY <1>1 DEF VisitInv, HandedInv
<1>7. CASE Len(stack) # 1
  <2>1. Len(stack') # 0
      BY <1>4, <1>7
  <2>2. stack' # << >>
      BY <2>1, EmptySeq
  <2>3. UNCHANGED <<pc, status>>
      BY <1>7 DEF Ascend
  <2> QED
      BY <1>1, <1>2, <1>4, <1>5, <1>6, <2>2, <2>3, VisitGoesOn
<1>8. CASE Len(stack) = 1
  <2>1. Len(stack') = 0 /\ stack' \in Seq(Frame)
      BY <1>4, <1>8 DEF StackOn
  <2>2. stack' = << >>
      BY <2>1, EmptySeq
  <2>3. pc' = "idle" /\ status' = "ok"
      BY <1>8 DEF Ascend, Succeed
  <2>4. StackInv'
      BY <1>1, <1>4, <2>2, <2>3 DEF StackInv
  <2>5. ASSUME Sound
        PROVE  Mapped = handed
    <3>1. PICK q : PendingOn(volume, stack', q) /\ Mapped = Cat(handed, q[Len(stack')])
        BY <1>5, <2>5
    <3>2. q[Len(stack')] = << >>
        BY <2>1, <3>1 DEF PendingOn
    <3> QED
        BY <1>2, <3>1, <3>2, PairsJoin
  <2>6. << >> \in Pairs /\ Cat(handed, << >>) = handed
      BY <1>2, EmptySeq, PairsJoin DEF Pairs
  <2>7. sb' = sb /\ Mapped' = Mapped /\ (Sound' <=> Sound)
      BY <1>1, VolumeKept
  <2>8. HandedInv'
      BY <1>1, <1>2, <1>6, <2>3, <2>5, <2>6, <2>7 DEF HandedInv
  <2> QED
      BY <1>1, <1>2, <2>4, <2>8 DEF VisitInv
<1> QED
    BY <1>7, <1>8

LEMMA Beginning ==
    ASSUME NEW a \in Pairs, NEW t \in Pairs, NEW b, b = Cat(a, t)
    PROVE  Len(a) <= Len(b) /\ a = SubSeq(b, 1, Len(a))
<1> DEFINE n == Len(a)
           m == Len(t)
           c == SubSeq(b, 1, n)
<1>1. n \in Nat /\ m \in Nat /\ Len(b) = n + m /\ b \in Pairs
      /\ \A k \in 1..(n + m) : b[k] = IF k <= n THEN a[k] ELSE t[k - n]
    BY PairsJoin
<1>2. \A k \in 1..n : b[k] = a[k] /\ a[k] \in Nat \X Nat
  <2>1. \A k \in 1..n : a[k] \in Nat \X Nat
      BY ElementOfSeq DEF Pairs
  <2> HIDE DEF n, m
  <2>2. \A k \in 1..n : k \in 1..(n + m) /\ k <= n
      BY <1>1
  <2> QED
      BY <1>1, <2>1, <2>2
<1>3. /\ c \in Seq(Nat \X Nat) /\ Len(c) = IF 1 <= n THEN n - 1 + 1 ELSE 0
      /\ \A k \in 1..(n - 1 + 1) : c[k] = b[1 + k - 1]
  <2>1. \A k \in 1..n : b[k] \in Nat \X Nat
      BY <1>2
  <2> QED
      BY <1>1, <2>1, SubSeqProperties
<1>4. a \in Seq(Nat \X Nat)
    BY DEF Pairs
<1> HIDE DEF c, n, m
<1>5. Len(c) = n /\ \A k \in 1..n : c[k] = b[k]
  <2>1. n - 1 + 1 = n /\ \A k \in 1..n : 1 + k - 1 = k
      BY <1>1
  <2> QED
      BY <1>1, <1>3, <2>1
<1>6. a = c
    BY <1>2, <1>3, <1>4, <1>5, SeqEqual DEF n
<1>7. n <= Len(b)
    BY <1>1
<1> QED
    BY <1>6, <1>7 DEF c, n

LEMMA VisitStep == VisitInv /\ [Next]_vars => VisitInv'
<1> SUFFICES ASSUME VisitInv, [Next]_vars PROVE VisitInv'
    OBVIOUS
<1>1. pc # "visit" => stack = << >>
    BY DEF VisitInv, StackInv
<1>2. CASE OpenImage
    BY <1>1, <1>2, AsideStep DEF OpenImage
<1>3. CASE Mount
    BY <1>1, <1>3, AsideStep DEF Mount, command
<1>4. CASE Refuse
    BY <1>1, <1>4, AsideStep DEF Refuse
<1>5. CASE Close
    BY <1>1, <1>5, AsideStep DEF Close
<1>6. ASSUME NEW n \in Numbers, Request(n)
      PROVE  VisitInv'
    BY <1>6, AsideStep DEF Request, Fail, command
<1>7. CASE ReadDescriptor
  <2>1. /\ pc = "descriptor" /\ UNCHANGED <<volume, stack, handed>>
        /\ (pc' = "locate" /\ UNCHANGED status) \/ Fail
      BY <1>7 DEF ReadDescriptor, command
  <2> QED
      BY <1>1, <2>1, AsideStep DEF Fail
<1>8. CASE Locate
  <2>1. /\ pc = "locate" /\ UNCHANGED <<volume, stack, handed>>
        /\ (pc' = "inode" /\ UNCHANGED status) \/ Fail
      BY <1>8 DEF Locate, command
  <2> QED
      BY <1>1, <2>1, AsideStep DEF Fail
<1>9. CASE EnterTree
    BY <1>9, EnterTreeStep
<1>10. CASE VisitDirect
    BY <1>10, VisitDirectStep
<1>11. CASE InodeFails
  <2>1. pc = "inode" /\ UNCHANGED <<volume, stack, handed>> /\ Fail
      BY <1>11 DEF InodeFails, command
  <2> QED
      BY <1>1, <2>1, AsideStep DEF Fail
<1>12. CASE VisitExtent
    BY <1>12, VisitExtentStep
<1>13. CASE Descend
    BY <1>13, DescendStep
<1>14. CASE ReadBeyondNode
    BY <1>14, ReadBeyondNodeStep
<1>15. CASE Ascend
    BY <1>15, AscendStep
<1>16. CASE UNCHANGED vars
  <2>1. UNCHANGED <<volume, pc, stack, handed, status>>
      BY <1>16 DEF vars, command
  <2>2. sb' = sb /\ Mapped' = Mapped /\ (Sound' <=> Sound)
      BY <2>1, VolumeKept
  <2>3. StackInv'
      BY <2>1 DEF VisitInv, StackInv
  <2>4. HandedInv'
      BY <2>1, <2>2 DEF VisitInv, HandedInv
  <2> QED
      BY <2>1, <2>3, <2>4 DEF VisitInv
<1> QED
    BY <1>2, <1>3, <1>4, <1>5, <1>6, <1>7, <1>8, <1>9, <1>10, <1>11, <1>12, <1>13, <1>14,
       <1>15, <1>16 DEF Next

LEMMA VisitInit == Init => VisitInv
<1> SUFFICES ASSUME Init PROVE VisitInv
    OBVIOUS
<1>1. volume \in Volumes /\ stack = << >> /\ handed = << >> /\ status = "none" /\ pc = "closed"
    BY DEF Init
<1>2. << >> \in Pairs /\ << >> \in Seq(Frame) /\ \A k \in 1..Len(<< >>) : FALSE
    BY EmptySeq DEF Pairs
<1>3. StackInv
    BY <1>1, <1>2 DEF StackInv, StackOn
<1>4. Sound => \E t \in Pairs : Mapped = Cat(handed, t)
  <2> SUFFICES ASSUME Sound PROVE \E t \in Pairs : Mapped = Cat(handed, t)
      OBVIOUS
  <2>1. Mapped \in Pairs
      BY <1>1, MappedType DEF Sound
  <2>2. Mapped = Cat(<< >>, Mapped)
      BY <2>1, PairsJoin
  <2> QED
      BY <1>1, <2>1, <2>2
<1>5. HandedInv
    BY <1>1, <1>2, <1>4 DEF HandedInv
<1> QED
    BY <1>1, <1>3, <1>5 DEF VisitInv

LEMMA VisitInvariant == Spec => []VisitInv
BY VisitInit, VisitStep, PTL DEF Spec

(* A visit hands over exactly what the tree maps, in order, whatever the   *)
(* tree: deep, shared, cyclic or with lengths the mask changes; a failing  *)
(* one stops at a beginning of it.                                         *)
THEOREM VisitExact == Spec => []VisitIsExact
<1>1. VisitInv => VisitIsExact
  <2> SUFFICES ASSUME VisitInv, Sound
               PROVE  /\ \A k \in 1..Len(handed) : handed[k][2] < BlocksCount(sb)
                      /\ Len(handed) <= Len(Mapped) /\ handed = SubSeq(Mapped, 1, Len(handed))
                      /\ status = "ok" => handed = Mapped
      BY DEF VisitIsExact, Sound
  <2>1. volume \in Volumes /\ handed \in Pairs /\ Mapped \in Pairs
      BY MappedType DEF VisitInv, HandedInv, Sound
  <2>2. \E t \in Pairs : Mapped = Cat(handed, t)
    <3>1. CASE pc = "visit"
      <4>1. PICK r : PendingOn(volume, stack, r) /\ Mapped = Cat(handed, r[Len(stack)])
          BY <3>1 DEF VisitInv, HandedInv
      <4>2. r[Len(stack)] \in Pairs
          BY <4>1, PendingType DEF VisitInv, StackInv
      <4> QED
          BY <4>1, <4>2
    <3> QED
        BY <3>1 DEF VisitInv, HandedInv
  <2>3. Len(handed) <= Len(Mapped) /\ handed = SubSeq(Mapped, 1, Len(handed))
      BY <2>1, <2>2, Beginning
  <2> QED
      BY <2>3 DEF VisitInv, HandedInv
<1> QED
    BY <1>1, VisitInvariant, PTL

-----------------------------------------------------------------------------
(* Types *)

Place == [number : Numbers, group : Nat, offset : 0..(W64 - 1), table : Nat]

RequestInv ==
    /\ open \in BOOLEAN /\ pc \in Label
    /\ number \in Numbers \cup {0} /\ table \in 0..(W64 - 1)
    /\ pc \in {"descriptor", "locate"} => number \in Numbers
    /\ requests \in 0..MaxRequests
    /\ located \subseteq Place
    /\ faults \subseteq {"open", "super", "descriptor", "inode", "node"}

(* A table that was validated is a block of the file system.               *)
LEMMA TableType ==
    ASSUME IInv, pc = "descriptor", ReadDescriptor
    PROVE  table' \in 0..(W64 - 1) \/ UNCHANGED table
<1> DEFINE b == CombineBlock(sb, DescriptorAt(GroupOf(sb, number)).inode_table)
<1>1. CASE UNCHANGED table
    BY <1>1
<1>2. CASE table' = b /\ ValidDescriptor(sb, DescriptorAt(GroupOf(sb, number)))
  <2>1. b \in Nat /\ b < BlocksCount(sb)
      BY <1>2, TableBlockType DEF IInv, ValidDescriptor, BlockRangeValid
  <2>2. BlocksCount(sb) \in 1..(W64 - 1)
    <3>1. sb \in Copy /\ (\A f \in WordFields : sb[f] < W32) /\ OpensAsFilesystem(sb)
        BY VolumeType DEF IInv
    <3> QED
        BY <3>1, GeometryRanges
  <2> HIDE DEF b
  <2>3. b \in 0..(W64 - 1)
      BY <2>1, <2>2, Widths
  <2> QED
      BY <1>2, <2>3
<1> QED
    BY <1>1, <1>2 DEF ReadDescriptor

(* An inode that is located has a group and a place.                       *)
LEMMA PlaceType ==
    ASSUME IInv, number \in Numbers, pc = "locate", InodeOffsetOk(sb, number, table), table \in Nat
    PROVE  [number |-> number, group |-> GroupOf(sb, number),
            offset |-> InodeOffset(sb, number, table), table |-> table] \in Place
<1>1. /\ sb \in Copy /\ (\A f \in WordFields : sb[f] < W32) /\ OpensAsFilesystem(sb)
      /\ number \in Nat /\ ValidInodeNumber(sb, number)
    BY VolumeType DEF IInv
<1>2. InodeOffset(sb, number, table) \in 0..(W64 - 1)
    BY <1>1, InodeOffsetExact
<1>3. GroupOf(sb, number) \in Nat
  <2> DEFINE p == sb["inodes_per_group"]
  <2>1. p \in 1..(W32 - 1)
      BY <1>1, GeometryRanges
  <2>2. number - 1 \in Nat
      BY <1>1 DEF ValidInodeNumber
  <2> HIDE DEF p
  <2>3. (number - 1) \div p \in Nat
      BY <2>1, <2>2, Widths, Division
  <2> QED
      BY <2>3 DEF GroupOf, p
<1> QED
    BY <1>2, <1>3 DEF Place

LEMMA RequestStep == IInv /\ RequestInv /\ [Next]_vars => RequestInv'
<1> SUFFICES ASSUME IInv, RequestInv, [Next]_vars PROVE RequestInv'
    OBVIOUS
<1> USE DEF RequestInv, Label, command, Fault
<1>1. CASE OpenImage
    BY <1>1 DEF OpenImage
<1>2. CASE Mount
    BY <1>2 DEF Mount
<1>3. CASE Refuse
    BY <1>3 DEF Refuse
<1>4. CASE Close
    BY <1>4 DEF Close
<1>5. ASSUME NEW n \in Numbers, Request(n) PROVE RequestInv'
  <2>1. requests' \in 0..MaxRequests
      BY <1>5, InodeAccessAssumption DEF Request
  <2> QED
      BY <1>5, <2>1 DEF Request, Fail
<1>6. CASE ReadDescriptor
  <2>1. table' \in 0..(W64 - 1)
      BY <1>6, TableType DEF ReadDescriptor
  <2> QED
      BY <1>6, <2>1 DEF ReadDescriptor, Fail
<1>7. CASE Locate
  <2>1. located' \subseteq Place
    <3>1. table \in Nat /\ number \in Numbers /\ pc = "locate"
        BY <1>7, Widths DEF Locate
    <3> QED
        BY <1>7, <3>1, PlaceType DEF Locate
  <2> QED
      BY <1>7, <2>1 DEF Locate, Fail
<1>8. CASE EnterTree \/ VisitDirect \/ InodeFails
    BY <1>8 DEF EnterTree, VisitDirect, InodeFails, Fail, Succeed
<1>9. CASE VisitExtent \/ Descend \/ ReadBeyondNode \/ Ascend
    BY <1>9 DEF VisitExtent, Descend, ReadBeyondNode, Ascend, AtEntry, Fail, Succeed
<1>10. CASE UNCHANGED vars
    BY <1>10 DEF vars
<1> QED
    BY <1>1, <1>2, <1>3, <1>4, <1>5, <1>6, <1>7, <1>8, <1>9, <1>10 DEF Next

LEMMA RequestInvariant == Spec => []RequestInv
<1>1. Init => RequestInv
  <2>1. 0 \in 0..(W64 - 1) /\ 0 \in 0..MaxRequests
      BY InodeAccessAssumption, Widths
  <2> QED
      BY <2>1 DEF Init, RequestInv, Label
<1>2. IInv /\ IInv' /\ RequestInv /\ [Next]_vars => RequestInv'
    BY RequestStep
<1> QED
    BY <1>1, <1>2, Invariant, PTL DEF Spec

LEMMA Deepest ==
    ASSUME NEW v \in Volumes, NEW s, StackOn(v, s)
    PROVE  Len(s) <= MaxDepth + 1
<1> DEFINE n == Len(s)
           d == v.inode.root.depth
<1>1. n \in Nat /\ MaxDepth \in Nat /\ d \in Nat
    BY LenProperties, InodeAccessAssumption DEF StackOn, RawInode, TreeNode
<1>2. ASSUME NEW k \in 1..n
      PROVE  d - (k - 1) \in 0..MaxDepth
  <2>1. s[k] \in Frame
      BY ElementOfSeq DEF StackOn
  <2>2. s[k].depth \in 0..MaxDepth
      BY <2>1 DEF Frame
  <2> QED
      BY <2>2 DEF StackOn
<1> HIDE DEF n, d
<1>3. ASSUME n # 0 PROVE n <= MaxDepth + 1
  <2>1. 1 \in 1..n /\ n \in 1..n
      BY <1>1, <1>3
  <2>2. d - (1 - 1) \in 0..MaxDepth /\ d - (n - 1) \in 0..MaxDepth
      BY <1>2, <2>1
  <2> QED
      BY <1>1, <2>2
<1>4. n <= MaxDepth + 1
    BY <1>1, <1>3
<1> QED
    BY <1>4 DEF n

(* The recursion is never deeper than the depth the root announces, each   *)
(* call works at the depth its caller gave it, and every inode located has *)
(* an offset of uint64_t.                                                  *)
THEOREM InodeTypes == Spec => []TypeOK
<1>1. VisitInv /\ RequestInv => TypeOK
  <2> SUFFICES ASSUME VisitInv, RequestInv PROVE TypeOK
      OBVIOUS
  <2>1. StackOn(volume, stack) /\ stack \in Seq(Frame)
        /\ \A k \in 1..Len(stack) : stack[k].depth = volume.inode.root.depth - (k - 1)
      BY DEF VisitInv, StackInv, StackOn
  <2>2. Len(stack) <= MaxDepth + 1
      BY <2>1, Deepest DEF VisitInv
  <2>3. volume \in Volumes /\ handed \in Seq(Nat \X Nat) /\ status \in {"none", "ok", "failed"}
      BY DEF VisitInv, HandedInv, Pairs
  <2> QED
      BY <2>1, <2>2, <2>3 DEF TypeOK, RequestInv, Place
<1> QED
    BY <1>1, VisitInvariant, RequestInvariant, PTL

=============================================================================

-------------------------- MODULE BlockChainProofs --------------------------
(***************************************************************************)
(* Proofs about BlockChain for every image, number of inodes and blocks,   *)
(* and every failure: chains are exact, sharing is reported if and only if *)
(* it is there, and a clean scan is a complete one.                        *)
(***************************************************************************)
EXTENDS BlockChain, FiniteSetTheorems, TLAPS

-----------------------------------------------------------------------------
(* Images *)

(* What the blocks of an inode are, once it is one of the image's. *)
LEMMA ImageType ==
    ASSUME image \in Images, next \in Number
    PROVE  /\ This \in Inode /\ This.direct \in Seq(Nat) /\ This.table \in Nat
           /\ This.deeper \in BOOLEAN
           /\ This.table < BlocksCount => Table \in Seq(Nat)
<1>1. image \in Image
    BY ChainAssumption
<1>2. This \in Inode
    BY <1>1 DEF Image, This
<1>3. image.content \in [0..(BlocksCount - 1) -> Seq(Nat)]
    BY <1>1 DEF Image
<1>4. This.table \in Nat /\ This.direct \in Seq(Nat) /\ This.deeper \in BOOLEAN
    BY <1>2 DEF Inode
<1>5. ASSUME This.table < BlocksCount PROVE Table \in Seq(Nat)
  <2>1. This.table \in 0..(BlocksCount - 1)
      BY <1>4, <1>5, ChainAssumption
  <2> QED
      BY <1>3, <2>1 DEF Table
<1> QED
    BY <1>2, <1>4, <1>5

(* The inode counter stays a uint32_t, and moves up by one or wraps. *)
LEMMA FollowingType ==
    ASSUME NEW n \in 0..(W32 - 1)
    PROVE  /\ Following(n) \in 0..(W32 - 1)
           /\ Following(n) = n + 1 \/ Following(n) = 0
<1>1. W32 \in Nat /\ W32 > 0 /\ n + 1 \in Nat /\ n + 1 <= W32
    BY ChainAssumption
<1>2. CASE n + 1 < W32
    BY <1>1, <1>2 DEF Following
<1>3. CASE n + 1 = W32
  <2>1. (n + 1) % W32 = 0
      BY <1>1, <1>3
  <2> QED
      BY <1>1, <2>1 DEF Following
<1> QED
    BY <1>1, <1>2, <1>3

-----------------------------------------------------------------------------
(* The chain of one inode *)

(* An inode that is traversed has its table in range.                      *)
Traversing ==
    pc \in {"direct", "indirect"} => Readable(This) /\ This.kind = "file" /\ ~This.extents

(* Blocks that may be owned. *)
Valid == 1..(BlocksCount - 1)

(* What the traversal has met when it is at n of the direct blocks, or at  *)
(* n of the table.                                                         *)
MetDirect(n) == {This.direct[k] : k \in {j \in DOMAIN This.direct : j < n}}
MetAll(n) ==
    {This.direct[k] : k \in DOMAIN This.direct} \cup {This.table}
        \cup {Table[k] : k \in {j \in DOMAIN Table : j < n}}

(* The references are the blocks seen, each once. *)
Distinct == seen = Collected /\ IsFiniteSet(Collected) /\ Cardinality(Collected) = Len(refs)

(* What the references are at each label. *)
ChainInv ==
    /\ Traversing
    /\ pc \in {"direct", "indirect", "index"} => Distinct
    /\ pc = "direct" => seen = MetDirect(pos) \cap Valid
    /\ pc = "indirect" => This.table # 0 /\ seen = MetAll(pos) \cap Valid
    /\ pc = "index" \/ (pc = "done" /\ mode = "chain" /\ status = 0) =>
           next \in Number /\ seen = Collected /\ seen = Targets(next)

(* emit_block adds the block if it may be owned, and only once. *)
LEMMA EmitKeepsDistinct ==
    ASSUME refs \in Seq(Ref), seen \subseteq Nat, Distinct, bad \in BOOLEAN,
           NEW block \in Nat, NEW logical \in Nat, NEW kind \in {"direct", "table", "single"},
           EmitBlock(block, logical, kind)
    PROVE  /\ refs' \in Seq(Ref) /\ Distinct' /\ bad' \in BOOLEAN /\ seen' \subseteq Nat
           /\ seen' = seen \cup ({block} \cap Valid)
<1>1. CASE Fresh(block)
  <2> DEFINE r == [logical |-> logical, block |-> block, kind |-> kind]
  <2>1. r \in Ref /\ seen' = seen \cup {block} /\ refs' = Append(refs, r) /\ bad' = bad
      BY <1>1 DEF EmitBlock, Ref
  <2>2. refs' \in Seq(Ref) /\ Len(refs') = Len(refs) + 1
      BY <2>1
  <2>3. Collected' = Collected \cup {block}
    <3>1. DOMAIN refs' = DOMAIN refs \cup {Len(refs) + 1}
        BY <2>1, <2>2
    <3>2. \A k \in DOMAIN refs : refs'[k] = refs[k]
        BY <2>1
    <3>3. refs'[Len(refs) + 1].block = block
        BY <2>1
    <3> QED
        BY <3>1, <3>2, <3>3 DEF Collected
  <2>4. block \notin Collected
      BY <1>1 DEF Fresh, Distinct
  <2>5. IsFiniteSet(Collected') /\ Cardinality(Collected') = Cardinality(Collected) + 1
      BY <2>3, <2>4, FS_AddElement DEF Distinct
  <2>6. block \in Valid
      BY <1>1, ChainAssumption DEF Fresh, InRange, Valid
  <2> QED
      BY <2>1, <2>2, <2>3, <2>5, <2>6 DEF Distinct
<1>2. CASE ~Fresh(block)
  <2>1. refs' = refs /\ seen' = seen /\ bad' \in BOOLEAN
      BY <1>2 DEF EmitBlock
  <2>2. block \in seen \/ block \notin Valid
      BY <1>2, ChainAssumption DEF Fresh, InRange, Valid
  <2> QED
      BY <2>1, <2>2 DEF Distinct, Collected
<1> QED
    BY <1>1, <1>2

-----------------------------------------------------------------------------
(* Types *)

(* A table that is read is in the image.                                   *)
LEMMA TableType ==
    ASSUME TypeOK, Traversing, pc \in {"direct", "indirect"}
    PROVE  Table \in Seq(Nat)
<1>1. Readable(This) /\ ~This.extents /\ next \in Number /\ image \in Images
    BY DEF TypeOK, Traversing
<1>2. This.table < BlocksCount
    BY <1>1 DEF Readable, InRange
<1> QED
    BY <1>1, <1>2, ImageType

(* The initial states are typed.                                           *)
LEMMA InitChain == Init => TypeOK /\ ChainInv
<1> SUFFICES ASSUME Init PROVE TypeOK /\ ChainInv
    OBVIOUS
<1>1. next \in 0..(W32 - 1)
    BY ChainAssumption DEF Init, Number
<1>2. refs \in Seq(Ref) /\ owners \in Seq(Owner)
    BY DEF Init
<1> QED
    BY <1>1, <1>2 DEF Init, TypeOK, ChainInv, Traversing, Fault

-----------------------------------------------------------------------------
(* The owner index *)

(* A block has one entry, and an inode is mentioned once in it.            *)
Unique(list) ==
    /\ \A j, k \in DOMAIN list : list[j].block = list[k].block => j = k
    /\ \A k \in DOMAIN list : \A m, n \in DOMAIN list[k].inodes :
          list[k].inodes[m] = list[k].inodes[n] => m = n

(* Every owner refers to the block.                                        *)
Real(list) ==
    \A k \in DOMAIN list : \A n \in DOMAIN list[k].inodes :
        list[k].block \in Targets(list[k].inodes[n])

(* Inode i is an owner of the block.                                       *)
Has(list, block, i) ==
    \E k \in DOMAIN list : /\ list[k].block = block
                           /\ \E n \in DOMAIN list[k].inodes : list[k].inodes[n] = i

(* add_block_owner gives the block an entry and changes no other.          *)
LEMMA EntryAdded ==
    ASSUME owners \in Seq(Owner), NEW block \in Nat
    PROVE  /\ WithEntry(block) \in Seq(Owner)
           /\ \E k \in DOMAIN WithEntry(block) : WithEntry(block)[k].block = block
           /\ Unique(owners) => Unique(WithEntry(block))
           /\ Real(owners) => Real(WithEntry(block))
           /\ \A b, i : Has(owners, b, i) => Has(WithEntry(block), b, i)
<1>1. CASE Owned(block) # {}
    BY <1>1 DEF WithEntry, Owned
<1>2. CASE Owned(block) = {}
  <2> DEFINE e == [block |-> block, inodes |-> << >>]
             list == WithEntry(block)
  <2>1. e \in Owner /\ e.block = block /\ e.inodes = << >>
      BY DEF Owner
  <2>2. list = Append(owners, e)
      BY <1>2 DEF WithEntry
  <2>3. list \in Seq(Owner)
      BY <2>1, <2>2
  <2>4. DOMAIN list = DOMAIN owners \cup {Len(owners) + 1}
      BY <2>1, <2>2
  <2>5. \A k \in DOMAIN owners : list[k] = owners[k]
      BY <2>1, <2>2
  <2>6. list[Len(owners) + 1] = e
      BY <2>1, <2>2
  <2>7. \A k \in DOMAIN owners : owners[k].block # block
      BY <1>2 DEF Owned
  <2>8. DOMAIN e.inodes = {}
      BY <2>1
  <2> HIDE DEF list, e
  <2>9. \E k \in DOMAIN list : list[k].block = block
      BY <2>1, <2>4, <2>6
  <2>10. ASSUME Unique(owners) PROVE Unique(list)
    <3>1. ASSUME NEW j \in DOMAIN list, NEW k \in DOMAIN list, list[j].block = list[k].block
          PROVE  j = k
        BY <2>10, <2>1, <2>4, <2>5, <2>6, <2>7, <3>1 DEF Unique
    <3>2. ASSUME NEW k \in DOMAIN list, NEW m \in DOMAIN list[k].inodes,
                 NEW n \in DOMAIN list[k].inodes, list[k].inodes[m] = list[k].inodes[n]
          PROVE  m = n
        BY <2>10, <2>4, <2>5, <2>6, <2>8, <3>2 DEF Unique
    <3> QED
        BY <3>1, <3>2 DEF Unique
  <2>11. ASSUME Real(owners) PROVE Real(list)
      BY <2>11, <2>4, <2>5, <2>6, <2>8 DEF Real
  <2>12. \A b, i : Has(owners, b, i) => Has(list, b, i)
      BY <2>4, <2>5 DEF Has
  <2> QED
      BY <2>3, <2>9, <2>10, <2>11, <2>12 DEF list
<1> QED
    BY <1>1, <1>2

(* add_owner_inode mentions the inode in the entry of the block, and       *)
(* changes nothing when it is there.                                       *)
LEMMA InodeAdded ==
    ASSUME NEW list \in Seq(Owner), NEW block \in Nat, NEW i \in Number,
           \E k \in DOMAIN list : list[k].block = block
    PROVE  /\ WithInode(list, block, i) \in Seq(Owner)
           /\ Unique(list) => Unique(WithInode(list, block, i))
           /\ Real(list) /\ block \in Targets(i) => Real(WithInode(list, block, i))
           /\ Has(WithInode(list, block, i), block, i)
           /\ \A b, j : Has(list, b, j) => Has(WithInode(list, block, i), b, j)
<1> DEFINE new == WithInode(list, block, i)
           Grows(k) == list[k].block = block
                       /\ \A n \in DOMAIN list[k].inodes : list[k].inodes[n] # i
<1>1. DOMAIN new = DOMAIN list
    BY DEF WithInode
<1>2. \A k \in DOMAIN list : list[k] \in Owner /\ list[k].inodes \in Seq(Number)
  <2>1. \A k \in DOMAIN list : list[k] \in Owner
      OBVIOUS
  <2>2. \A o \in Owner : o.inodes \in Seq(Number)
      BY DEF Owner
  <2> QED
      BY <2>1, <2>2
<1>3. ASSUME NEW k \in DOMAIN list, Grows(k)
      PROVE  /\ new[k] \in Owner /\ new[k].block = list[k].block
             /\ new[k].inodes = Append(list[k].inodes, i)
  <2> DEFINE grown == Append(list[k].inodes, i)
  <2>1. new[k] = [list[k] EXCEPT !.inodes = grown]
      BY <1>3 DEF WithInode
  <2>2. \A o \in Owner, seq \in Seq(Number) :
           LET n == [o EXCEPT !.inodes = seq]
           IN  n \in Owner /\ n.block = o.block /\ n.inodes = seq
      BY DEF Owner
  <2>3. grown \in Seq(Number)
      BY <1>2
  <2>4. list[k] \in Owner
      BY <1>2
  <2>5. QED
    <3> HIDE DEF grown, new
    <3>1. new[k] \in Owner /\ new[k].block = list[k].block /\ new[k].inodes = grown
        BY <2>1, <2>2, <2>3, <2>4
    <3> QED
        BY <3>1 DEF grown
<1>4. ASSUME NEW k \in DOMAIN list, ~Grows(k)
      PROVE  new[k] = list[k]
    BY <1>4 DEF WithInode
<1>5. ASSUME NEW k \in DOMAIN list, Grows(k)
      PROVE  /\ DOMAIN new[k].inodes = DOMAIN list[k].inodes \cup {Len(list[k].inodes) + 1}
             /\ \A n \in DOMAIN list[k].inodes : new[k].inodes[n] = list[k].inodes[n]
             /\ new[k].inodes[Len(list[k].inodes) + 1] = i
  <2>1. \A seq \in Seq(Number) :
           LET n == Append(seq, i)
           IN  /\ DOMAIN n = DOMAIN seq \cup {Len(seq) + 1}
               /\ \A m \in DOMAIN seq : n[m] = seq[m]
               /\ n[Len(seq) + 1] = i
      OBVIOUS
  <2> QED
      BY <1>2, <1>3, <1>5, <2>1
<1>6. \A k \in DOMAIN list : new[k] \in Owner /\ new[k].block = list[k].block
    BY <1>2, <1>3, <1>4
<1>7. new \in Seq(Owner)
  <2>1. DOMAIN list = 1..Len(list) /\ Len(list) \in Nat
      OBVIOUS
  <2>2. new \in [1..Len(list) -> Owner]
      BY <1>6, <2>1 DEF WithInode
  <2> QED
      BY <2>1, <2>2
<1> HIDE DEF new
<1>8. ASSUME Unique(list) PROVE Unique(new)
  <2>1. ASSUME NEW k \in DOMAIN list, NEW m \in DOMAIN new[k].inodes,
               NEW n \in DOMAIN new[k].inodes, new[k].inodes[m] = new[k].inodes[n]
        PROVE  m = n
    <3>1. CASE Grows(k)
        BY <1>5, <1>8, <2>1, <3>1 DEF Unique
    <3>2. CASE ~Grows(k)
        BY <1>4, <1>8, <2>1, <3>2 DEF Unique
    <3> QED
        BY <3>1, <3>2
  <2> QED
      BY <1>1, <1>6, <1>8, <2>1 DEF Unique
<1>9. ASSUME Real(list), block \in Targets(i) PROVE Real(new)
  <2>1. ASSUME NEW k \in DOMAIN list, NEW n \in DOMAIN new[k].inodes
        PROVE  new[k].block \in Targets(new[k].inodes[n])
    <3>1. CASE Grows(k)
        BY <1>5, <1>6, <1>9, <2>1, <3>1 DEF Real
    <3>2. CASE ~Grows(k)
        BY <1>4, <1>9, <2>1, <3>2 DEF Real
    <3> QED
        BY <3>1, <3>2
  <2> QED
      BY <1>1, <2>1 DEF Real
<1>10. Has(new, block, i)
  <2>1. PICK k \in DOMAIN list : list[k].block = block
      OBVIOUS
  <2>2. \E n \in DOMAIN new[k].inodes : new[k].inodes[n] = i
    <3>1. CASE Grows(k)
        BY <1>5, <3>1
    <3>2. CASE ~Grows(k)
        BY <1>4, <2>1, <3>2
    <3> QED
        BY <3>1, <3>2
  <2> QED
      BY <1>1, <1>6, <2>1, <2>2 DEF Has
<1>11. ASSUME NEW b, NEW j, Has(list, b, j) PROVE Has(new, b, j)
  <2>1. PICK k \in DOMAIN list : /\ list[k].block = b
                                 /\ \E n \in DOMAIN list[k].inodes : list[k].inodes[n] = j
      BY <1>11 DEF Has
  <2>2. \E n \in DOMAIN new[k].inodes : new[k].inodes[n] = j
    <3>1. CASE Grows(k)
        BY <1>5, <2>1, <3>1
    <3>2. CASE ~Grows(k)
        BY <1>4, <2>1, <3>2
    <3> QED
        BY <3>1, <3>2
  <2> QED
      BY <1>1, <1>6, <2>1, <2>2 DEF Has
<1> QED
    BY <1>7, <1>8, <1>9, <1>10, <1>11 DEF new

-----------------------------------------------------------------------------
(* The traversal *)

(* A step that leaves the inode behind keeps the types and the chain.      *)
LEMMA Left ==
    ASSUME TypeOK, UNCHANGED <<image, mode, chain, chains, owners>>, Abandon,
           next \in 0..InodesCount, faults' \subseteq Fault
    PROVE  TypeOK' /\ ChainInv'
<1>1. corruption' \in BOOLEAN /\ status' \in {0, 1} /\ next' \in 0..(W32 - 1)
    BY FollowingType DEF Abandon, NextInode, TypeOK
<1>2. pc' = "inode" \/ (pc' = "done" /\ mode = "chain" /\ status' = 1)
    BY DEF Abandon, NextInode, GoTo, TypeOK
<1>3. TypeOK'
    BY <1>1, <1>2 DEF TypeOK, chain
<1>4. ChainInv'
    BY <1>2 DEF ChainInv, Traversing
<1> QED
    BY <1>3, <1>4

(* So does one that goes on to the next inode.                             *)
LEMMA Moved ==
    ASSUME TypeOK, UNCHANGED <<image, mode, chain, corruption, status, faults>>, NextInode,
           chains' \subseteq Number, owners' = owners
    PROVE  TypeOK' /\ ChainInv'
<1>1. next' \in 0..(W32 - 1) /\ pc' = "inode"
    BY FollowingType DEF NextInode, TypeOK
<1> QED
    BY <1>1 DEF TypeOK, chain, ChainInv, Traversing

(* A traversal begins with nothing seen, and an inode mapped by extents    *)
(* has no blocks in the reference.                                         *)
LEMMA BeginStep == TypeOK /\ ChainInv /\ BeginTraversal => TypeOK' /\ ChainInv'
<1> SUFFICES ASSUME TypeOK, BeginTraversal PROVE TypeOK' /\ ChainInv'
    OBVIOUS
<1>1. /\ next \in Number /\ Readable(This) /\ seen' = {} /\ refs' = << >>
      /\ mode = "scan" => This.kind = "file"
      /\ UNCHANGED <<image, mode, next, chains, owners, status, faults>>
    BY DEF BeginTraversal
<1>2. This' = This /\ Targets(next)' = Targets(next) /\ This.direct \in Seq(Nat)
    BY <1>1, ImageType DEF This, Targets, TypeOK
<1>3. Distinct'
    <2>1. Collected' = {}
        BY <1>1 DEF Collected
    <2> QED
        BY <1>1, <2>1, FS_EmptySet DEF Distinct
<1>4. CASE This.kind = "file" /\ ~This.extents
  <2>1. pc' = "direct" /\ pos' = 1 /\ bad' = FALSE /\ corruption' = corruption
      BY <1>4 DEF BeginTraversal, GoTo
  <2>2. MetDirect(1)' = {}
      BY <1>2 DEF MetDirect
  <2>3. TypeOK'
    <3>1. refs' \in Seq(Ref) /\ Len(This.direct) \in Nat
        BY <1>1, <1>2
    <3>2. pos' \in 1..(Len(This'.direct) + 1)
        BY <1>2, <2>1, <3>1
    <3> QED
        BY <1>1, <2>1, <3>1, <3>2 DEF TypeOK
  <2>4. ChainInv'
      BY <1>1, <1>2, <1>3, <1>4, <2>1, <2>2 DEF ChainInv, Traversing, Readable, InRange, MetDirect
  <2> QED
      BY <2>3, <2>4
<1>5. CASE ~(This.kind = "file" /\ ~This.extents)
  <2>1. /\ pc' = (IF mode = "scan" THEN "index" ELSE "done") /\ pos' = 1
        /\ bad' \in BOOLEAN /\ corruption' \in BOOLEAN
      BY <1>5 DEF BeginTraversal, GoTo, TypeOK
  <2>2. Targets(next) = {}
      BY <1>5 DEF Targets, This
  <2>3. Collected' = {}
      BY <1>1 DEF Collected
  <2>4. TypeOK'
    <3>1. refs' \in Seq(Ref) /\ Len(refs') = 0 /\ pos' \in 1..(Len(refs') + 1)
        BY <1>1, <2>1
    <3>2. pc' \in {"index", "done"}
        BY <2>1
    <3> QED
        BY <1>1, <2>1, <3>1, <3>2 DEF TypeOK
  <2>5. ChainInv'
      BY <1>1, <1>2, <1>3, <2>1, <2>2, <2>3 DEF ChainInv, Traversing
  <2> QED
      BY <2>4, <2>5
<1> QED
    BY <1>4, <1>5

(* A direct block is met, and added if it is new.                          *)
LEMMA DirectStep == TypeOK /\ ChainInv /\ VisitDirect => TypeOK' /\ ChainInv'
<1> SUFFICES ASSUME TypeOK, ChainInv, VisitDirect PROVE TypeOK' /\ ChainInv'
    OBVIOUS
<1> DEFINE block == This.direct[pos]
<1>1. /\ pc = "direct" /\ pos <= Len(This.direct) /\ pos' = pos + 1
      /\ EmitBlock(block, pos - 1, "direct")
      /\ UNCHANGED <<image, mode, next, pc, chains, owners, corruption, status, faults>>
    BY DEF VisitDirect, analysis
<1>2. next \in Number /\ This.direct \in Seq(Nat) /\ pos \in 1..(Len(This.direct) + 1)
    BY <1>1, ImageType DEF TypeOK
<1>3. pos \in DOMAIN This.direct /\ block \in Nat /\ pos - 1 \in Nat
    BY <1>1, <1>2
<1>4. refs' \in Seq(Ref) /\ Distinct' /\ bad' \in BOOLEAN /\ seen' \subseteq Nat
      /\ seen' = seen \cup ({block} \cap Valid)
  <2>1. refs \in Seq(Ref) /\ seen \subseteq Nat /\ bad \in BOOLEAN /\ Distinct
      BY <1>1 DEF TypeOK, ChainInv
  <2> HIDE DEF block
  <2> QED
      BY <2>1, <1>1, <1>3, EmitKeepsDistinct
<1>5. This' = This
    BY <1>1 DEF This
<1>6. MetDirect(pos + 1) = MetDirect(pos) \cup {block}
  <2>1. {j \in DOMAIN This.direct : j < pos + 1} = {j \in DOMAIN This.direct : j < pos} \cup {pos}
      BY <1>2, <1>3
  <2> QED
      BY <2>1 DEF MetDirect
<1>7. MetDirect(pos)' = MetDirect(pos) \cup {block}
    BY <1>1, <1>5, <1>6 DEF MetDirect
<1>8. TypeOK'
  <2>1. pos' \in 1..(Len(This'.direct) + 1)
      BY <1>1, <1>2, <1>5
  <2> QED
      BY <1>1, <1>4, <2>1 DEF TypeOK
<1>9. ChainInv'
  <2>1. seen = MetDirect(pos) \cap Valid /\ Traversing
      BY <1>1 DEF ChainInv
  <2> HIDE DEF block
  <2>2. seen' = MetDirect(pos)' \cap Valid
      BY <1>4, <1>7, <2>1
  <2>3. Traversing'
      BY <1>1, <1>5, <2>1 DEF Traversing, Readable, InRange
  <2> QED
      BY <1>1, <1>4, <2>2, <2>3 DEF ChainInv, Valid
<1> QED
    BY <1>8, <1>9

(* The table is met, and added if it is new, before its entries.           *)
LEMMA TableStep == TypeOK /\ ChainInv /\ VisitTable => TypeOK' /\ ChainInv'
<1> SUFFICES ASSUME TypeOK, ChainInv, VisitTable PROVE TypeOK' /\ ChainInv'
    OBVIOUS
<1>1. /\ pc = "direct" /\ pos > Len(This.direct) /\ This.table # 0
      /\ pc' = "indirect" /\ pos' = 1
      /\ EmitBlock(This.table, 12, "table")
      /\ UNCHANGED <<image, mode, next, chains, owners, corruption, status, faults>>
    BY DEF VisitTable, AtTable, GoTo, analysis
<1>2. /\ next \in Number /\ This.direct \in Seq(Nat) /\ This.table \in Nat
      /\ pos = Len(This.direct) + 1
  <2>1. next \in Number /\ This.direct \in Seq(Nat) /\ This.table \in Nat
        /\ pos \in 1..(Len(This.direct) + 1)
      BY <1>1, ImageType DEF TypeOK
  <2> QED
      BY <1>1, <2>1
<1>3. refs' \in Seq(Ref) /\ Distinct' /\ bad' \in BOOLEAN /\ seen' \subseteq Nat
      /\ seen' = seen \cup ({This.table} \cap Valid)
  <2>1. refs \in Seq(Ref) /\ seen \subseteq Nat /\ bad \in BOOLEAN /\ Distinct
      BY <1>1 DEF TypeOK, ChainInv
  <2> QED
      BY <2>1, <1>1, <1>2, EmitKeepsDistinct
<1>4. This' = This /\ Table' = Table /\ Table \in Seq(Nat)
    BY <1>1, TableType DEF This, Table, ChainInv
<1>5. MetDirect(pos) = {This.direct[k] : k \in DOMAIN This.direct}
  <2>1. {j \in DOMAIN This.direct : j < pos} = DOMAIN This.direct
      BY <1>2
  <2> QED
      BY <2>1 DEF MetDirect
<1>6. MetAll(pos)' = MetDirect(pos) \cup {This.table}
  <2>1. {j \in DOMAIN Table : j < 1} = {}
      BY <1>4
  <2> QED
      BY <1>1, <1>4, <1>5, <2>1 DEF MetAll
<1>7. TypeOK'
  <2>1. pos' \in 1..(Len(Table') + 1)
      BY <1>1, <1>4
  <2> QED
      BY <1>1, <1>3, <2>1 DEF TypeOK
<1>8. ChainInv'
  <2>1. seen = MetDirect(pos) \cap Valid /\ Traversing
      BY <1>1 DEF ChainInv
  <2>2. seen' = MetAll(pos)' \cap Valid
      BY <1>3, <1>6, <2>1
  <2>3. Traversing'
      BY <1>1, <1>4, <2>1 DEF Traversing, Readable, InRange
  <2> QED
      BY <1>1, <1>3, <1>4, <2>2, <2>3 DEF ChainInv, Valid
<1> QED
    BY <1>7, <1>8

(* An entry of the table is met; one that names the table itself adds      *)
(* nothing, the table has been met.                                        *)
LEMMA IndirectStep == TypeOK /\ ChainInv /\ VisitIndirect => TypeOK' /\ ChainInv'
<1> SUFFICES ASSUME TypeOK, ChainInv, VisitIndirect PROVE TypeOK' /\ ChainInv'
    OBVIOUS
<1> DEFINE block == Table[pos]
<1>1. /\ pc = "indirect" /\ pos <= Len(Table) /\ pos' = pos + 1
      /\ IF block = This.table
         THEN bad' = TRUE /\ UNCHANGED <<seen, refs>>
         ELSE EmitBlock(block, 11 + pos, "single")
      /\ UNCHANGED <<image, mode, next, pc, chains, owners, corruption, status, faults>>
    BY DEF VisitIndirect, analysis
<1>2. next \in Number /\ Table \in Seq(Nat) /\ pos \in 1..(Len(Table) + 1)
    BY <1>1, TableType DEF TypeOK, ChainInv
<1>3. pos \in DOMAIN Table /\ block \in Nat /\ 11 + pos \in Nat
    BY <1>1, <1>2
<1>4. /\ refs \in Seq(Ref) /\ seen \subseteq Nat /\ bad \in BOOLEAN /\ Distinct /\ Traversing
      /\ This.table # 0 /\ seen = MetAll(pos) \cap Valid
    BY <1>1 DEF TypeOK, ChainInv
<1>5. refs' \in Seq(Ref) /\ Distinct' /\ bad' \in BOOLEAN /\ seen' \subseteq Nat
      /\ seen' = seen \cup ({block} \cap Valid)
  <2> HIDE DEF block
  <2>1. CASE block = This.table
    <3>1. This.table \in MetAll(pos)
        BY DEF MetAll
    <3> QED
        BY <1>1, <1>4, <2>1, <3>1 DEF Distinct, Collected
  <2>2. CASE block # This.table
      BY <1>1, <1>3, <1>4, <2>2, EmitKeepsDistinct
  <2> QED
      BY <2>1, <2>2
<1>6. This' = This /\ Table' = Table
    BY <1>1 DEF This, Table
<1>7. MetAll(pos + 1) = MetAll(pos) \cup {block}
  <2>1. {j \in DOMAIN Table : j < pos + 1} = {j \in DOMAIN Table : j < pos} \cup {pos}
      BY <1>2, <1>3
  <2> QED
      BY <2>1 DEF MetAll
<1>8. MetAll(pos)' = MetAll(pos) \cup {block}
    BY <1>1, <1>6, <1>7 DEF MetAll
<1> HIDE DEF block
<1>9. TypeOK'
  <2>1. pos' \in 1..(Len(Table') + 1)
      BY <1>1, <1>2, <1>6
  <2> QED
      BY <1>1, <1>5, <2>1 DEF TypeOK
<1>10. ChainInv'
  <2>1. seen' = MetAll(pos)' \cap Valid
      BY <1>4, <1>5, <1>8
  <2>2. Traversing'
      BY <1>1, <1>4, <1>6 DEF Traversing, Readable, InRange
  <2> QED
      BY <1>1, <1>4, <1>5, <1>6, <2>1, <2>2 DEF ChainInv, Valid
<1> QED
    BY <1>9, <1>10

(* What has been met at the end of the traversal is what the inode refers  *)
(* to.                                                                     *)
LEMMA AllMet ==
    ASSUME TypeOK, ChainInv,
           \/ pc = "direct" /\ pos > Len(This.direct) /\ This.table = 0
           \/ pc = "indirect" /\ pos > Len(Table)
    PROVE  seen = Targets(next)
<1> USE DEF Valid
<1>1. This.kind = "file" /\ ~This.extents /\ next \in Number
    BY DEF ChainInv, Traversing, TypeOK
<1>2. CASE pc = "direct"
  <2>1. pos > Len(This.direct) /\ This.table = 0 /\ seen = MetDirect(pos) \cap Valid
      BY <1>2 DEF ChainInv
  <2>2. This.direct \in Seq(Nat)
      BY <1>1, ImageType DEF TypeOK
  <2>3. {j \in DOMAIN This.direct : j < pos} = DOMAIN This.direct
    <3>1. pos \in Nat
        BY <1>2, <2>2 DEF TypeOK
    <3> QED
        BY <2>1, <2>2, <3>1
  <2>4. seen = {This.direct[k] : k \in DOMAIN This.direct} \cap Valid
      BY <2>1, <2>3 DEF MetDirect
  <2>5. Targets(next) = ({This.direct[k] : k \in DOMAIN This.direct} \cup {0}) \cap Valid
      BY <1>1, <2>1 DEF Targets, This
  <2> QED
      BY <2>4, <2>5, ChainAssumption
<1>3. CASE pc = "indirect"
  <2>1. pos > Len(Table) /\ This.table # 0 /\ seen = MetAll(pos) \cap Valid
      BY <1>3 DEF ChainInv
  <2>2. Table \in Seq(Nat)
      BY <1>3, TableType DEF ChainInv
  <2>3. {j \in DOMAIN Table : j < pos} = DOMAIN Table
    <3>1. DOMAIN Table = 1..Len(Table) /\ Len(Table) \in Nat
        BY <2>2
    <3>2. pos \in 1..(Len(Table) + 1)
        BY <1>3 DEF TypeOK
    <3>3. pos > Len(Table)
        BY <2>1
    <3>4. \A j \in 1..Len(Table) : j < pos
        BY <3>1, <3>2, <3>3
    <3> QED
        BY <3>1, <3>4
  <2>4. Targets(next) = ({This.direct[k] : k \in DOMAIN This.direct} \cup {This.table}
                           \cup {Table[k] : k \in DOMAIN Table}) \cap Valid
      BY <1>1, <2>1 DEF Targets, This, Table
  <2> QED
      BY <2>1, <2>3, <2>4 DEF MetAll
<1> QED
    BY <1>2, <1>3

(* The traversal ends with the whole chain.                                *)
LEMMA TraversedStep == TypeOK /\ ChainInv /\ Traversed => TypeOK' /\ ChainInv'
<1> SUFFICES ASSUME TypeOK, ChainInv, Traversed PROVE TypeOK' /\ ChainInv'
    OBVIOUS
<1>1. /\ pc \in {"direct", "indirect"}
      /\ bad' = (bad \/ This.deeper)
      /\ corruption' = (corruption \/ (mode = "scan" /\ bad'))
      /\ pc' = (IF mode = "scan" THEN "index" ELSE "done") /\ pos' = 1
      /\ UNCHANGED <<image, mode, next, seen, refs, chains, owners, status, faults>>
    BY DEF Traversed, Concluded, GoTo
<1>2. seen = Targets(next)
    BY AllMet DEF Traversed
<1>3. Distinct /\ next \in Number
    BY <1>1 DEF ChainInv, TypeOK
<1>4. Collected' = Collected /\ Targets(next)' = Targets(next)
    BY <1>1 DEF Collected, Targets
<1>5. TypeOK'
  <2>1. refs \in Seq(Ref) /\ pos' \in 1..(Len(refs') + 1)
      BY <1>1 DEF TypeOK
  <2>2. bad' \in BOOLEAN /\ corruption' \in BOOLEAN
      BY <1>1 DEF TypeOK
  <2>3. pc' \in {"index", "done"}
      BY <1>1
  <2> QED
      BY <1>1, <1>3, <2>1, <2>2, <2>3 DEF TypeOK
<1>6. ChainInv'
    BY <1>1, <1>2, <1>3, <1>4 DEF ChainInv, Traversing, Distinct
<1> QED
    BY <1>5, <1>6

(* Indexing leaves the chain alone.                                        *)
LEMMA IndexStep == TypeOK /\ ChainInv /\ (IndexRef \/ IndexFails) => TypeOK' /\ ChainInv'
<1> SUFFICES ASSUME TypeOK, ChainInv, IndexRef \/ IndexFails PROVE TypeOK' /\ ChainInv'
    OBVIOUS
<1>1. /\ pc = "index" /\ UNCHANGED <<image, mode, next, seen, refs, bad, chains, corruption>>
      /\ next \in Number /\ refs \in Seq(Ref) /\ pos \in 1..(Len(refs) + 1)
    BY DEF IndexRef, IndexFails, chain, TypeOK
<1>2. pos <= Len(refs) => refs[pos].block \in Nat
  <2>1. \A r \in Ref : r.block \in Nat
      BY DEF Ref
  <2>2. pos <= Len(refs) => refs[pos] \in Ref
      BY <1>1
  <2> QED
      BY <2>1, <2>2
<1>3. Collected' = Collected /\ Targets(next)' = Targets(next) /\ (Distinct => Distinct')
    BY <1>1 DEF Collected, Targets, Distinct
<1>4. CASE IndexRef
  <2>1. /\ pos <= Len(refs) /\ pos' = pos + 1 /\ UNCHANGED <<pc, status, faults>>
        /\ owners' = WithInode(WithEntry(refs[pos].block), refs[pos].block, next)
      BY <1>4 DEF IndexRef
  <2>2. owners' \in Seq(Owner)
    <3> DEFINE list == WithEntry(refs[pos].block)
    <3>1. list \in Seq(Owner) /\ \E k \in DOMAIN list : list[k].block = refs[pos].block
        BY <1>2, <2>1, EntryAdded DEF TypeOK
    <3> HIDE DEF list
    <3> QED
        BY <1>1, <1>2, <2>1, <3>1, InodeAdded DEF list
  <2>3. pos' \in 1..(Len(refs') + 1)
      BY <1>1, <2>1
  <2>4. TypeOK'
      BY <1>1, <2>1, <2>2, <2>3 DEF TypeOK
  <2> QED
      BY <1>1, <1>3, <2>1, <2>4 DEF ChainInv, Traversing
<1>5. CASE IndexFails
  <2>1. /\ pc' = "done" /\ status' = 1 /\ faults' = faults \cup {"index"}
        /\ owners' = owners \/ (pos <= Len(refs) /\ owners' = WithEntry(refs[pos].block))
      BY <1>5 DEF IndexFails, GoTo, Fails
  <2>2. owners' \in Seq(Owner)
      BY <1>2, <2>1, EntryAdded DEF TypeOK
  <2>3. TypeOK'
      BY <1>1, <2>1, <2>2 DEF TypeOK, Fault
  <2> QED
      BY <2>1, <2>3 DEF ChainInv, Traversing
<1> QED
    BY <1>4, <1>5

(* Every step keeps the types and the chain.                               *)
LEMMA ChainStep == TypeOK /\ ChainInv /\ [Next]_vars => TypeOK' /\ ChainInv'
<1> SUFFICES ASSUME TypeOK, ChainInv, [Next]_vars PROVE TypeOK' /\ ChainInv'
    OBVIOUS
<1>1. CASE ScanEnds
  <2>1. pc' = "done" /\ mode = "scan"
        /\ UNCHANGED <<image, mode, next, seen, refs, bad, chains, owners, corruption, status, faults>>
      BY <1>1 DEF ScanEnds, GoTo, chain, analysis
  <2> QED
      BY <2>1 DEF TypeOK, ChainInv, Traversing
<1>2. CASE SkipInode
    BY <1>2, Moved DEF SkipInode, analysis, TypeOK
<1>3. CASE UnreadableInode
  <2>1. faults' \subseteq Fault
      BY <1>3 DEF UnreadableInode, Fails, TypeOK, Fault
  <2>2. next \in 0..InodesCount
      BY <1>3, ChainAssumption DEF UnreadableInode, TypeOK
  <2> QED
      BY <1>3, <2>1, <2>2, Left DEF UnreadableInode
<1>4. CASE BeginTraversal
    BY <1>4, BeginStep
<1>5. CASE VisitDirect
    BY <1>5, DirectStep
<1>6. CASE VisitTable
    BY <1>6, TableStep
<1>7. CASE VisitIndirect
    BY <1>7, IndirectStep
<1>8. CASE Traversed
    BY <1>8, TraversedStep
<1>9. CASE TraversalFails
  <2>1. faults' \subseteq Fault
      BY <1>9 DEF TraversalFails, Fails, TypeOK, Fault
  <2>2. next \in 0..InodesCount
      BY <1>9, ChainAssumption DEF TraversalFails, AtTable, TypeOK, Number
  <2> QED
      BY <1>9, <2>1, <2>2, Left DEF TraversalFails
<1>10. CASE IndexRef \/ IndexFails
    BY <1>10, IndexStep
<1>11. CASE AddChain
  <2>1. chains' \subseteq Number
      BY <1>11 DEF AddChain, TypeOK
  <2> QED
      BY <1>11, <2>1, Moved DEF AddChain
<1>12. CASE UNCHANGED vars
  <2>1. UNCHANGED <<image, mode, next, pc, pos, seen, refs, bad, chains, owners, corruption, status, faults>>
      BY <1>12 DEF vars, chain, analysis
  <2>2. This' = This /\ Table' = Table /\ Targets(next)' = Targets(next) /\ Collected' = Collected
      BY <2>1 DEF This, Table, Targets, Collected
  <2>3. TypeOK'
      BY <2>1, <2>2 DEF TypeOK
  <2>4. Traversing' /\ (Distinct => Distinct')
      BY <2>1, <2>2 DEF ChainInv, Traversing, Distinct, Readable, InRange
  <2>5. MetDirect(pos)' = MetDirect(pos) /\ MetAll(pos)' = MetAll(pos)
      BY <2>1, <2>2 DEF MetDirect, MetAll
  <2> QED
      BY <2>1, <2>2, <2>3, <2>4, <2>5 DEF ChainInv, Valid
<1> QED
    BY <1>1, <1>2, <1>3, <1>4, <1>5, <1>6, <1>7, <1>8, <1>9, <1>10, <1>11, <1>12 DEF Next

(* The types are right in every reachable state: no index leaves the       *)
(* sequence it walks, whatever the image holds and whatever fails.         *)
THEOREM TypeCorrect == Spec => []TypeOK
<1>1. TypeOK /\ ChainInv /\ [Next]_vars => (TypeOK /\ ChainInv)'
    BY ChainStep
<1> QED
    BY InitChain, <1>1, PTL DEF Spec

(* Every chain is exactly what its inode refers to, each block once, and   *)
(* never anything else on the way there.                                   *)
THEOREM ChainsAreExact == Spec => []ChainIsExact
<1>1. TypeOK /\ ChainInv /\ [Next]_vars => (TypeOK /\ ChainInv)'
    BY ChainStep
<1>2. ASSUME TypeOK, ChainInv PROVE ChainIsExact
  <2>1. ASSUME pc \in {"direct", "indirect"} PROVE seen \subseteq Targets(next)
    <3>1. This.kind = "file" /\ ~This.extents
        BY <2>1, <1>2 DEF ChainInv, Traversing
    <3>2. CASE pc = "direct"
      <4>1. seen = MetDirect(pos) \cap Valid
          BY <3>2, <1>2 DEF ChainInv
      <4>2. MetDirect(pos) \subseteq {This.direct[k] : k \in DOMAIN This.direct}
          BY DEF MetDirect
      <4> QED
          BY <3>1, <4>1, <4>2 DEF Targets, This, Valid
    <3>3. CASE pc = "indirect"
      <4>1. seen = MetAll(pos) \cap Valid /\ This.table # 0
          BY <3>3, <1>2 DEF ChainInv
      <4>2. MetAll(pos) \subseteq {This.direct[k] : k \in DOMAIN This.direct} \cup {This.table}
                                    \cup {Table[k] : k \in DOMAIN Table}
          BY DEF MetAll
      <4> QED
          BY <3>1, <4>1, <4>2 DEF Targets, This, Table, Valid
    <3> QED
        BY <2>1, <3>2, <3>3
  <2> QED
      BY <2>1, <1>2 DEF ChainIsExact, ChainInv, Distinct
<1> QED
    BY InitChain, <1>1, <1>2, PTL DEF Spec

-----------------------------------------------------------------------------
(* The scan *)

(* The index has real owners only, one entry for a block, every owner of   *)
(* the chains that are complete, and of the chain being indexed those of   *)
(* the references before pos.                                              *)
OwnersInv ==
    /\ Unique(owners) /\ Real(owners)
    /\ \A i \in chains : \A block \in Targets(i) : Has(owners, block, i)
    /\ pc = "index" => \A k \in DOMAIN refs : k < pos => Has(owners, refs[k].block, next)

(* The step keeps it: only indexing touches the owners, and it adds what   *)
(* the inode refers to.                                                    *)
LEMMA OwnersStep == TypeOK /\ ChainInv /\ OwnersInv /\ [Next]_vars => OwnersInv'
<1> SUFFICES ASSUME TypeOK, ChainInv, OwnersInv, [Next]_vars PROVE OwnersInv'
    OBVIOUS
<1>1. image' = image
    BY DEF Next, vars, ScanEnds, SkipInode, UnreadableInode, BeginTraversal, VisitDirect, VisitTable,
           VisitIndirect, Traversed, TraversalFails, IndexRef, IndexFails, AddChain
<1>2. \A i : Targets(i)' = Targets(i)
    BY <1>1 DEF Targets
<1>3. CASE pc # "index" /\ owners' = owners /\ chains' = chains /\ (pc' = "index" => pos' = 1)
  <2>1. Unique(owners)' /\ Real(owners)'
      BY <1>2, <1>3 DEF OwnersInv, Unique, Real
  <2>2. \A i \in chains' : \A block \in Targets(i)' : Has(owners, block, i)'
      BY <1>2, <1>3 DEF OwnersInv, Has
  <2>3. pc' = "index" => \A k \in DOMAIN refs' : ~(k < pos')
    <3>1. refs' \in Seq(Ref)
        BY ChainStep DEF TypeOK
    <3> QED
        BY <1>3, <3>1
  <2> QED
      BY <2>1, <2>2, <2>3 DEF OwnersInv
<1>4. CASE UNCHANGED vars
  <2>1. UNCHANGED <<image, pc, pos, refs, next, chains, owners>>
      BY <1>4 DEF vars, chain, analysis
  <2> QED
      BY <2>1, <1>2 DEF OwnersInv, Unique, Real, Has
<1>5. ASSUME pc = "index"
      PROVE  /\ next \in Number /\ refs \in Seq(Ref) /\ pos \in 1..(Len(refs) + 1)
             /\ Collected = Targets(next) /\ owners \in Seq(Owner)
             /\ \A k \in DOMAIN refs : refs[k].block \in Nat /\ refs[k].block \in Targets(next)
  <2>1. next \in Number /\ refs \in Seq(Ref) /\ pos \in 1..(Len(refs) + 1)
        /\ Collected = Targets(next) /\ owners \in Seq(Owner)
      BY <1>5 DEF TypeOK, ChainInv
  <2>2. \A r \in Ref : r.block \in Nat
      BY DEF Ref
  <2>3. \A k \in DOMAIN refs : refs[k] \in Ref
      BY <2>1
  <2>4. \A k \in DOMAIN refs : refs[k].block \in Collected
      BY DEF Collected
  <2> QED
      BY <2>1, <2>2, <2>3, <2>4
<1>6. CASE IndexRef
  <2> DEFINE block == refs[pos].block
             list == WithEntry(block)
             new == WithInode(list, block, next)
  <2>1. /\ pc = "index" /\ pos <= Len(refs) /\ pos' = pos + 1 /\ owners' = new
        /\ UNCHANGED <<next, pc, refs, chains>>
      BY <1>6 DEF IndexRef, chain
  <2>2. pos \in DOMAIN refs /\ block \in Nat /\ block \in Targets(next)
      BY <1>5, <2>1
  <2>3. /\ list \in Seq(Owner) /\ \E k \in DOMAIN list : list[k].block = block
        /\ Unique(list) /\ Real(list) /\ \A b, i : Has(owners, b, i) => Has(list, b, i)
    <3> HIDE DEF block
    <3> QED
        BY <1>5, <2>1, <2>2, EntryAdded DEF OwnersInv
  <2>4. /\ Unique(new) /\ Real(new) /\ Has(new, block, next)
        /\ \A b, i : Has(list, b, i) => Has(new, b, i)
    <3> HIDE DEF block, list
    <3> QED
        BY <1>5, <2>1, <2>2, <2>3, InodeAdded
  <2>5. \A b, i : Has(owners, b, i) => Has(owners', b, i)
      BY <2>1, <2>3, <2>4
  <2> HIDE DEF new, list
  <2>6. Unique(owners)' /\ Real(owners)'
      BY <2>1, <2>4, <1>2 DEF Unique, Real
  <2>7. \A i \in chains' : \A b \in Targets(i)' : Has(owners', b, i)
      BY <2>1, <2>5, <1>2 DEF OwnersInv
  <2>8. \A k \in DOMAIN refs : k < pos + 1 => Has(owners', refs[k].block, next)
    <3>1. ASSUME NEW k \in DOMAIN refs, k < pos + 1 PROVE Has(owners', refs[k].block, next)
      <4>1. k = pos \/ k < pos
          BY <1>5, <2>1, <3>1
      <4>2. CASE k = pos
          BY <2>1, <2>4, <4>2
      <4>3. CASE k < pos
        <5>1. Has(owners, refs[k].block, next)
            BY <2>1, <4>3 DEF OwnersInv
        <5> QED
            BY <2>5, <5>1
      <4> QED
          BY <4>1, <4>2, <4>3
    <3> QED
        BY <3>1
  <2> QED
      BY <2>1, <2>6, <2>7, <2>8 DEF OwnersInv, Has
<1>7. CASE IndexFails
  <2>1. /\ pc = "index" /\ pc' = "done" /\ UNCHANGED <<chains>>
        /\ owners' = owners \/ (pos <= Len(refs) /\ owners' = WithEntry(refs[pos].block))
      BY <1>7 DEF IndexFails, GoTo
  <2>2. Unique(owners') /\ Real(owners') /\ \A b, i : Has(owners, b, i) => Has(owners', b, i)
    <3>1. CASE owners' = owners
        BY <3>1 DEF OwnersInv
    <3>2. CASE pos <= Len(refs) /\ owners' = WithEntry(refs[pos].block)
      <4>1. refs[pos].block \in Nat
          BY <1>5, <2>1, <3>2
      <4> QED
          BY <1>5, <2>1, <3>2, <4>1, EntryAdded DEF OwnersInv
    <3> QED
        BY <2>1, <3>1, <3>2
  <2>3. Unique(owners)' /\ Real(owners)'
      BY <2>2, <1>2 DEF Unique, Real
  <2>4. \A i \in chains' : \A block \in Targets(i)' : Has(owners', block, i)
      BY <2>1, <2>2, <1>2 DEF OwnersInv
  <2>5. pc' # "index"
      BY <2>1
  <2> QED
      BY <2>3, <2>4, <2>5 DEF OwnersInv, Has
<1>8. CASE AddChain
  <2>1. /\ pc = "index" /\ pos > Len(refs) /\ pc' = "inode" /\ owners' = owners
        /\ chains' = chains \cup {next}
      BY <1>8 DEF AddChain, NextInode
  <2>2. \A k \in DOMAIN refs : k < pos
      BY <1>5, <2>1
  <2>3. \A block \in Targets(next) : Has(owners, block, next)
    <3>1. \A block \in Collected : \E k \in DOMAIN refs : refs[k].block = block
        BY DEF Collected
    <3> QED
        BY <1>5, <2>1, <2>2, <3>1 DEF OwnersInv
  <2>4. Unique(owners)' /\ Real(owners)'
      BY <2>1, <1>2 DEF OwnersInv, Unique, Real
  <2>5. \A i \in chains' : \A block \in Targets(i) : Has(owners, block, i)
      BY <2>1, <2>3 DEF OwnersInv
  <2>6. \A i \in chains' : \A block \in Targets(i)' : Has(owners', block, i)
      BY <2>1, <2>5, <1>2
  <2>7. pc' # "index"
      BY <2>1
  <2> QED
      BY <2>4, <2>6, <2>7 DEF OwnersInv, Has
<1>9. CASE \/ ScanEnds \/ SkipInode \/ UnreadableInode \/ BeginTraversal
            \/ VisitDirect \/ VisitTable \/ VisitIndirect \/ Traversed \/ TraversalFails
  <2>1. owners' = owners /\ chains' = chains
      BY <1>9 DEF ScanEnds, SkipInode, UnreadableInode, BeginTraversal, VisitDirect, VisitTable,
           VisitIndirect, Traversed, TraversalFails, analysis
  <2>2. pc # "index"
      BY <1>9 DEF ScanEnds, SkipInode, UnreadableInode, BeginTraversal, VisitDirect, VisitTable,
           VisitIndirect, Traversed, TraversalFails, AtTable
  <2>3. pc' = "index" => pos' = 1
      BY <1>9, <2>2 DEF ScanEnds, SkipInode, UnreadableInode, BeginTraversal, VisitDirect, VisitTable,
           VisitIndirect, Traversed, TraversalFails, GoTo, Abandon, NextInode
  <2> QED
      BY <1>3, <2>1, <2>2, <2>3
<1> QED
    BY <1>4, <1>6, <1>7, <1>8, <1>9 DEF Next

(* What a clean scan has done when it is at inode next: the files below    *)
(* next have their chain, and no chain is of an inode that the analyzer    *)
(* does not follow to the end.                                             *)
CleanSoFar ==
    /\ \A i \in Number : i < next => (i \in chains <=> image.inode[i].kind = "file")
    /\ \A i \in chains : /\ image.inode[i].kind = "file"
                          /\ ~image.inode[i].extents /\ ~image.inode[i].deeper
    /\ pc = "index" => This.kind = "file" /\ ~This.extents /\ ~This.deeper
    /\ pc = "done" => next > InodesCount

Clean == mode = "scan" /\ status = 0 /\ ~corruption

ScanInv == Clean => CleanSoFar

(* Going on to the next inode keeps it when the inode is done with: it has *)
(* a chain, or it is no file.                                              *)
LEMMA NextKeepsScan ==
    ASSUME TypeOK, ScanInv, NextInode, UNCHANGED <<image, mode, status, corruption>>,
           next <= InodesCount,
           \/ chains' = chains /\ (next # 0 => This.kind # "file")
           \/ /\ chains' = chains \cup {next} /\ next \in Number
              /\ This.kind = "file" /\ (~corruption => ~This.extents /\ ~This.deeper)
    PROVE  ScanInv'
<1> SUFFICES ASSUME Clean' PROVE CleanSoFar'
    BY DEF ScanInv
<1>1. Clean /\ CleanSoFar /\ ~corruption /\ image' = image /\ pc' = "inode"
    BY DEF NextInode, Clean, ScanInv
<1>2. next \in 0..(W32 - 1) /\ (next' = next + 1 \/ next' = 0)
    BY FollowingType DEF NextInode, TypeOK
<1>3. \A i \in Number : i < next => (i \in chains <=> image.inode[i].kind = "file")
    BY <1>1 DEF CleanSoFar
<1>4. \A i \in chains : /\ image.inode[i].kind = "file"
                        /\ ~image.inode[i].extents /\ ~image.inode[i].deeper
    BY <1>1 DEF CleanSoFar
<1>5. next \in Number => (next \in chains' <=> image.inode[next].kind = "file")
    BY <1>1, <1>4 DEF This, Number
<1>6. \A i \in Number : i < next' => i \in Nat /\ (i < next \/ i = next)
    BY <1>2, ChainAssumption DEF Number
<1>7. \A i \in Number : i # next => (i \in chains' <=> i \in chains)
    OBVIOUS
<1>8. \A i \in Number : i < next' => (i \in chains' <=> image.inode[i].kind = "file")
  <2>1. ASSUME NEW i \in Number, i < next'
        PROVE  i \in chains' <=> image.inode[i].kind = "file"
    <3>1. CASE i = next
        BY <1>5, <3>1
    <3>2. CASE i # next
        BY <1>3, <1>6, <1>7, <2>1, <3>2
    <3> QED
        BY <3>1, <3>2
  <2> QED
      BY <2>1
<1>9. \A i \in chains' : /\ image.inode[i].kind = "file"
                         /\ ~image.inode[i].extents /\ ~image.inode[i].deeper
    BY <1>1, <1>4 DEF This
<1> QED
    BY <1>1, <1>8, <1>9 DEF CleanSoFar

(* The step keeps it: a failure is counted, and ends or spoils the scan.   *)
LEMMA ScanStep == TypeOK /\ ChainInv /\ ScanInv /\ [Next]_vars => ScanInv'
<1> SUFFICES ASSUME TypeOK, ChainInv, ScanInv, [Next]_vars, Clean' PROVE CleanSoFar'
    BY DEF ScanInv
<1>1. CASE SkipInode
  <2>1. /\ NextInode /\ UNCHANGED <<image, mode, status, corruption, chains>>
        /\ next <= InodesCount /\ (next # 0 => This.kind # "file")
      BY <1>1 DEF SkipInode, analysis
  <2> QED
      BY <2>1, NextKeepsScan DEF ScanInv
<1>2. CASE UnreadableInode \/ TraversalFails
  <2>1. Abandon /\ mode' = mode
      BY <1>2 DEF UnreadableInode, TraversalFails
  <2> QED
      BY <2>1 DEF Abandon, Clean
<1>3. CASE IndexFails
    BY <1>3 DEF IndexFails, Clean
<1>4. CASE AddChain
  <2>1. /\ NextInode /\ UNCHANGED <<image, mode, status, corruption>> /\ pc = "index"
        /\ chains' = chains \cup {next}
      BY <1>4 DEF AddChain
  <2>2. Clean /\ CleanSoFar /\ next \in Number
      BY <2>1 DEF Clean, ScanInv, TypeOK
  <2>3. next <= InodesCount /\ This.kind = "file" /\ ~This.extents /\ ~This.deeper
      BY <2>1, <2>2, ChainAssumption DEF CleanSoFar, Number
  <2> QED
      BY <2>1, <2>2, <2>3, NextKeepsScan DEF ScanInv
<1>5. CASE Traversed
  <2>1. /\ pc \in {"direct", "indirect"} /\ pc' \in {"index", "done"} /\ bad' = (bad \/ This.deeper)
        /\ corruption' = (corruption \/ (mode = "scan" /\ bad'))
        /\ pc' = (IF mode = "scan" THEN "index" ELSE "done")
        /\ UNCHANGED <<image, mode, next, chains, status>>
      BY <1>5 DEF Traversed, Concluded, GoTo
  <2>2. Clean /\ CleanSoFar /\ ~This.deeper /\ pc' = "index"
      BY <2>1 DEF Clean, ScanInv
  <2>3. This' = This /\ This.kind = "file" /\ ~This.extents
      BY <2>1 DEF This, ChainInv, Traversing
  <2> QED
      BY <2>1, <2>2, <2>3 DEF CleanSoFar
<1>6. CASE BeginTraversal
  <2>1. /\ UNCHANGED <<image, mode, next, chains, status>>
        /\ mode = "scan" => This.kind = "file"
      BY <1>6 DEF BeginTraversal
  <2>2. CASE This.kind = "file" /\ ~This.extents
    <3>1. pc' = "direct" /\ corruption' = corruption
        BY <1>6, <2>2 DEF BeginTraversal, GoTo
    <3> QED
        BY <2>1, <3>1 DEF Clean, ScanInv, CleanSoFar
  <2>3. CASE ~(This.kind = "file" /\ ~This.extents)
    <3>1. bad' = (This.kind = "file") /\ corruption' = (corruption \/ (mode = "scan" /\ bad'))
        BY <1>6, <2>3 DEF BeginTraversal
    <3> QED
        BY <2>1, <3>1 DEF Clean
  <2> QED
      BY <2>2, <2>3
<1>7. CASE ScanEnds
  <2>1. next > InodesCount /\ pc' = "done" /\ UNCHANGED <<image, mode, next, chains, status, corruption>>
      BY <1>7 DEF ScanEnds, GoTo, analysis
  <2> QED
      BY <2>1 DEF Clean, ScanInv, CleanSoFar
<1>8. CASE VisitDirect \/ VisitTable \/ VisitIndirect \/ IndexRef
  <2>1. /\ UNCHANGED <<image, mode, next, chains, status, corruption>>
        /\ pc' \in {"direct", "indirect"} \/ (pc' = pc /\ pc = "index")
      BY <1>8 DEF VisitDirect, VisitTable, VisitIndirect, IndexRef, GoTo, analysis
  <2>2. This' = This
      BY <2>1 DEF This
  <2> QED
      BY <2>1, <2>2 DEF Clean, ScanInv, CleanSoFar
<1>9. CASE UNCHANGED vars
  <2>1. UNCHANGED <<image, mode, next, pc, chains, status, corruption>>
      BY <1>9 DEF vars, analysis
  <2>2. This' = This
      BY <2>1 DEF This
  <2> QED
      BY <2>1, <2>2 DEF Clean, ScanInv, CleanSoFar
<1> QED
    BY <1>1, <1>2, <1>3, <1>4, <1>5, <1>6, <1>7, <1>8, <1>9 DEF Next

-----------------------------------------------------------------------------
(* The inductive invariant. *)
IInv == TypeOK /\ ChainInv /\ OwnersInv /\ ScanInv

(* It holds from the start and in every step.                              *)
LEMMA Invariant == Spec => []IInv
<1>1. Init => IInv
  <2> SUFFICES ASSUME Init PROVE OwnersInv /\ ScanInv
      BY InitChain DEF IInv
  <2>1. owners = << >> /\ chains = {} /\ pc = "inode" /\ (mode = "scan" => next = 1)
      BY DEF Init
  <2>2. OwnersInv
      BY <2>1 DEF OwnersInv, Unique, Real
  <2>3. ASSUME Clean PROVE CleanSoFar
    <3>1. \A i \in Number : ~(i < next)
        BY <2>1, <2>3 DEF Clean, Number
    <3> QED
        BY <2>1, <3>1 DEF CleanSoFar
  <2> QED
      BY <2>2, <2>3 DEF ScanInv
<1>2. IInv /\ [Next]_vars => IInv'
    BY ChainStep, OwnersStep, ScanStep DEF IInv
<1> QED
    BY <1>1, <1>2, PTL DEF Spec

(* Every owner in the index refers to the block, in the middle of a scan   *)
(* and after one that failed.                                              *)
THEOREM OwnersAreReal == Spec => []OnlyRealSharing
<1>1. IInv => OnlyRealSharing
    BY DEF IInv, OwnersInv, Real, OnlyRealSharing
<1> QED
    BY Invariant, <1>1, PTL

(* A block has one entry, and an inode is counted once in it.              *)
THEOREM OwnersCountedOnce == Spec => []OneEntryPerBlock
<1>1. ASSUME IInv PROVE OneEntryPerBlock
  <2>1. Unique(owners)
      BY <1>1 DEF IInv, OwnersInv
  <2> QED
      BY <2>1 DEF Unique, OneEntryPerBlock, Owned
<1> QED
    BY Invariant, <1>1, PTL

(* Two analyzed inodes that refer to the same block are reported, whatever *)
(* was skipped or corrupt between them.                                    *)
THEOREM SharingFound == Spec => []SharingIsFound
<1>1. ASSUME IInv PROVE SharingIsFound
  <2>1. Unique(owners) /\ owners \in Seq(Owner)
        /\ \A i \in chains : \A block \in Targets(i) : Has(owners, block, i)
      BY <1>1 DEF IInv, OwnersInv, TypeOK
  <2>2. ASSUME NEW i \in chains, NEW j \in chains, i # j,
               NEW block \in Targets(i) \cap Targets(j)
        PROVE  block \in Shared
    <3>1. PICK k \in DOMAIN owners :
             /\ owners[k].block = block
             /\ \E n \in DOMAIN owners[k].inodes : owners[k].inodes[n] = i
        BY <2>1, <2>2 DEF Has
    <3>2. PICK l \in DOMAIN owners :
             /\ owners[l].block = block
             /\ \E n \in DOMAIN owners[l].inodes : owners[l].inodes[n] = j
        BY <2>1, <2>2 DEF Has
    <3>3. k = l
        BY <2>1, <3>1, <3>2 DEF Unique
    <3>4. PICK m \in DOMAIN owners[k].inodes, n \in DOMAIN owners[k].inodes :
             owners[k].inodes[m] = i /\ owners[k].inodes[n] = j
        BY <3>1, <3>2, <3>3
    <3>5. m # n
        BY <2>2, <3>4
    <3>6. owners[k].inodes \in Seq(Number)
      <4>1. owners[k] \in Owner
          BY <2>1
      <4> QED
          BY <4>1 DEF Owner
    <3>7. Len(owners[k].inodes) > 1
        BY <3>5, <3>6
    <3> QED
        BY <3>1, <3>7 DEF Shared
  <2> QED
      BY <2>2 DEF SharingIsFound
<1> QED
    BY Invariant, <1>1, PTL

(* No corruption and status 0 mean that every file was followed to its     *)
(* last block.                                                             *)
THEOREM CleanScanComplete == Spec => []CleanScanIsComplete
<1>1. ASSUME IInv, pc = "done", mode = "scan", status = 0, ~corruption
      PROVE  /\ chains = {i \in Number : image.inode[i].kind = "file"}
             /\ \A i \in chains : ~image.inode[i].extents /\ ~image.inode[i].deeper
             /\ \A i \in chains : \A block \in Targets(i) :
                   \E k \in Owned(block) : \E n \in DOMAIN owners[k].inodes :
                       owners[k].inodes[n] = i
  <2>1. CleanSoFar /\ chains \subseteq Number /\ next > InodesCount /\ next \in Nat
    <3>1. CleanSoFar /\ TypeOK
        BY <1>1 DEF IInv, ScanInv, Clean
    <3> QED
        BY <1>1, <3>1 DEF CleanSoFar, TypeOK
  <2>2. \A i \in Number : i < next
      BY <2>1, ChainAssumption DEF Number
  <2>3. \A i \in Number : i \in chains <=> image.inode[i].kind = "file"
      BY <2>1, <2>2 DEF CleanSoFar
  <2>4. \A i \in chains : \A block \in Targets(i) : Has(owners, block, i)
      BY <1>1 DEF IInv, OwnersInv
  <2> QED
      BY <2>1, <2>3, <2>4 DEF CleanSoFar, Has, Owned
<1>2. IInv => CleanScanIsComplete
    BY <1>1 DEF CleanScanIsComplete
<1> QED
    BY Invariant, <1>2, PTL
=============================================================================

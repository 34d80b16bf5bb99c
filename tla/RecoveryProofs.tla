--------------------------- MODULE RecoveryProofs ---------------------------
(***************************************************************************)
(* Proofs about Recovery, for every image, every number of processes and   *)
(* every width of the integers.                                            *)
(***************************************************************************)
EXTENDS Recovery, FiniteSetTheorems, WellFoundedInduction, TLAPS

-----------------------------------------------------------------------------
(* Lemmas about superblock copies. *)

(* The parts of a superblock do not overlap and cover its fields, so a     *)
(* transfer of some parts replaces exactly those.                          *)
LEMMA PartsDisjoint ==
    ASSUME NEW i \in 1..NParts, NEW j \in 1..NParts, i # j, NEW f \in Part[i]
    PROVE  f \notin Part[j]
  BY DEF Part, NParts

(* The groups of fields make up the fields. *)
LEMMA PartOfField == \A i \in 1..NParts : Part[i] \subseteq Field
  BY DEF Field

(* A partly transferred copy is still a copy. *)
LEMMA OverlayType ==
    ASSUME NEW c \in Copy, NEW d \in Copy, NEW ps
    PROVE  Overlay(c, d, ps) \in Copy
  BY DEF Overlay, Copy

(* After a transfer every part is that of the source if it was moved, and  *)
(* that of the target if it was not (Overlay models one pread or pwrite).  *)
LEMMA OverlayParts ==
    ASSUME NEW c, NEW d, NEW ps \in SUBSET (1..NParts), NEW i \in 1..NParts
    PROVE  /\ i \in ps => SamePart(i, Overlay(c, d, ps), d)
           /\ i \notin ps => SamePart(i, Overlay(c, d, ps), c)
<1>1. ASSUME NEW f \in Part[i]
      PROVE  f \in Field
  BY PartOfField
<1>2. ASSUME NEW f \in Part[i]
      PROVE  (\E j \in ps : f \in Part[j]) <=> i \in ps
  BY PartsDisjoint
<1> QED  BY <1>1, <1>2 DEF SamePart, Overlay

(* BlockSize is a shift by at most six, or 0. *)
LEMMA BlockSizeType == ASSUME NEW sb \in Copy PROVE BlockSize(sb) \in Nat
<1> DEFINE k == sb["log_block_size"]
<1>1. k \in Nat
  BY DEF Copy, Field, Part, NParts
<1>2. CASE k > 6
  BY <1>2 DEF BlockSize
<1>3. CASE k <= 6
  <2>1. k + 1 \in 1..7
    BY <1>1, <1>3
  <2>2. <<1, 2, 4, 8, 16, 32, 64>>[k + 1] \in Nat
    BY <2>1
  <2> QED  BY <1>1, <1>3, <2>2 DEF BlockSize, EXT4_MIN_BLOCK_SIZE
<1> QED  BY <1>1, <1>2, <1>3

(* The width of uint64_t follows from that of uint32_t. *)
LEMMA W64Type == W64 \in Nat /\ W64 > 1
  BY WidthAssumption, SMTT(30) DEF W64

(* Reduction to 64 bits gives a number. *)
LEMMA U64Type == ASSUME NEW n \in Int PROVE U64(n) \in Nat
  BY W64Type DEF U64

(* The byte offset backup_offset computes is a number, whatever wraps. *)
LEMMA BackupOffsetType ==
    ASSUME NEW sb \in Copy, NEW g \in Nat
    PROVE  BackupOffset(sb, g) \in Nat
<1>1. sb["blocks_per_group"] \in Nat /\ sb["first_data_block"] \in Nat
  BY DEF Copy, Field, Part, NParts
<1>2. U64(g * sb["blocks_per_group"]) \in Nat
  BY <1>1, U64Type
<1>3. BackupBlock(sb, g) \in Nat
  BY <1>1, <1>2, U64Type DEF BackupBlock
<1> QED  BY <1>3, BlockSizeType, U64Type DEF BackupOffset

(* Groups with a backup are group numbers. *)
LEMMA BackupGroupsType == ASSUME NEW sb PROVE BackupGroups(sb) \subseteq Nat
  BY DEF BackupGroups

(* A cleared superblock is a copy. *)
LEMMA BlankType == Blank \in Copy
  BY DEF Blank, Copy

(* The parameters, and the primary superblock has a place. *)
LEMMA ParameterTypes ==
    /\ Primary \in Offsets /\ NParts = 4
    /\ MaxIndex \in Nat /\ MaxRuns \in Nat
  BY RecoveryAssumption DEF Primary, NParts

(* The backup a command has selected is an item. *)
LEMMA ChosenType ==
    ASSUME TypeOK, NEW p \in Proc, req[p].index < Len(report[p])
    PROVE  Chosen(p) \in Item
  BY ParameterTypes DEF TypeOK, Chosen, Request

-----------------------------------------------------------------------------
(* Type correctness. *)

TypeControl ==
    /\ pc \in [Proc -> Busy \cup AtRest]
    /\ fd \in [Proc -> BOOLEAN]
    /\ status \in [Proc -> {0, 1}]
    /\ said \in [Proc -> Verdict]

(* Initially every variable has its type. *)
LEMMA TypeInit == Init => TypeOK
  BY ParameterTypes, BlankType, RecoveryAssumption
  DEF Init, TypeOK, Request, Op, Verdict, AtRest, Item

(* A jump keeps pc a function to labels. *)
LEMMA GotoType ==
    ASSUME TypeOK, NEW p \in Proc, NEW l \in Busy \cup AtRest, Goto(p, l)
    PROVE  pc' \in [Proc -> Busy \cup AtRest]
  BY DEF TypeOK, Goto

(* A transfer starts with nothing moved. *)
LEMMA PosReset ==
    ASSUME TypeOK, NEW p \in Proc, pos' = [pos EXCEPT ![p] = 0]
    PROVE  pos' \in [Proc -> 0..NParts]
<1>1. 0 \in 0..NParts
  BY ParameterTypes
<1> QED  BY <1>1 DEF TypeOK

(* Likewise a command's return, with or without closing the report. *)
LEMMA ReturnType ==
    ASSUME TypeOK, NEW p \in Proc, NEW r \in {0, 1}, NEW v \in Verdict, Return(p, r, v)
    PROVE  /\ pc' \in [Proc -> Busy \cup AtRest]
           /\ status' \in [Proc -> {0, 1}]
           /\ said' \in [Proc -> Verdict]
<1>1. "done" \in AtRest
  BY DEF AtRest
<1> QED  BY <1>1, GotoType DEF TypeOK, Return

(* The common end of a command keeps the types of the control state. *)
LEMMA CloseType ==
    ASSUME TypeOK, NEW p \in Proc, NEW r \in {0, 1}, NEW v \in Verdict,
           CloseAndReturn(p, r, v)
    PROVE  TypeControl'
  BY ReturnType DEF CloseAndReturn, Release, TypeControl, TypeOK

(* The elements of a report after one more is appended. *)
LEMMA AppendElements ==
    ASSUME NEW s \in Seq(Item), NEW e \in Item, NEW n \in 1..Len(Append(s, e))
    PROVE  \/ Append(s, e)[n] = e
           \/ n \in 1..Len(s) /\ Append(s, e)[n] = s[n]
  OBVIOUS

(* What discovery lists was read from the image just now, or not at all. *)
LEMMA ReadBackupItem ==
    ASSUME TypeOK, NEW p \in Proc, ReadBackup(p)
    PROVE  \E item \in Item :
              /\ report' = [report EXCEPT ![p] = Append(@, item)]
              /\ item.read_ok => item.offset \in Offsets /\ item.sb = image[item.offset]
<1>1. PICK g \in todo[p] :
        \/ /\ BackupOffset(primary[p], g) \in Offsets
           /\ report' = [report EXCEPT ![p] = Append(@,
                 [offset |-> BackupOffset(primary[p], g), read_ok |-> TRUE,
                  sb |-> image[BackupOffset(primary[p], g)]])]
        \/ report' = [report EXCEPT ![p] = Append(@,
                 [offset |-> BackupOffset(primary[p], g), read_ok |-> FALSE,
                  sb |-> Blank])]
  BY DEF ReadBackup
<1> DEFINE item(sb, ok) ==
        [offset |-> BackupOffset(primary[p], g), read_ok |-> ok, sb |-> sb]
<1>2. BackupOffset(primary[p], g) \in Int
  BY BackupOffsetType DEF TypeOK
<1>3. item(Blank, FALSE) \in Item
  BY <1>2, BlankType DEF Item
<1>4. BackupOffset(primary[p], g) \in Offsets =>
        item(image[BackupOffset(primary[p], g)], TRUE) \in Item
  BY <1>2 DEF Item, TypeOK
<1> QED  BY <1>1, <1>3, <1>4

(* Every step keeps every type. *)
LEMMA TypeStep == TypeOK /\ ControlInv /\ [Next]_vars => TypeOK'
<1> SUFFICES ASSUME TypeOK, ControlInv, [Next]_vars
             PROVE  TypeOK'
  OBVIOUS
<1> USE ParameterTypes
<1>1. ASSUME NEW p \in Proc, NEW k \in Int, ReadParts(p, k)
      PROVE  buf' \in [Proc -> Copy] /\ pos' \in [Proc -> 0..NParts]
  <2>1. Overlay(buf[p], image[Primary], (pos[p] + 1)..(pos[p] + k)) \in Copy
    BY OverlayType DEF TypeOK
  <2>2. pos[p] \in 0..4 /\ k \in 1..(4 - pos[p])
    BY <1>1 DEF ReadParts, TypeOK
  <2>3. pos[p] + k \in 0..4
    BY <2>2
  <2> QED  BY <1>1, <2>1, <2>3 DEF ReadParts, TypeOK
<1>2. ASSUME NEW p \in Proc, BadIndex(p) PROVE TypeOK'
  <2>1. /\ buf' \in [Proc -> Copy] /\ primary' \in [Proc -> Copy]
        /\ todo' \in [Proc -> SUBSET Nat] /\ report' \in [Proc -> Seq(Item)]
        /\ dstatus' \in [Proc -> {0, 1}] /\ confirmed' \in [Proc -> BOOLEAN]
        /\ fd' \in [Proc -> BOOLEAN]
    BY <1>2, BlankType DEF BadIndex, Forget, TypeOK
  <2>2. req' \in [Proc -> Request]
    BY <1>2 DEF BadIndex, TypeOK, Request, Op
  <2>8. TypeControl'
    BY <1>2, <2>1, ReturnType DEF BadIndex, TypeControl, TypeOK, Busy, AtRest, Verdict, Release
  <2>9. QED  BY <2>8, <1>2, <2>1, <2>2 DEF TypeControl, BadIndex, TypeOK, disk, local
<1>3. ASSUME NEW p \in Proc, Start(p) PROVE TypeOK'
  <2>1. /\ buf' \in [Proc -> Copy] /\ primary' \in [Proc -> Copy]
        /\ todo' \in [Proc -> SUBSET Nat] /\ report' \in [Proc -> Seq(Item)]
        /\ dstatus' \in [Proc -> {0, 1}] /\ confirmed' \in [Proc -> BOOLEAN]
        /\ fd' \in [Proc -> BOOLEAN]
    BY <1>3, BlankType DEF Start, Forget, TypeOK
  <2>2. req' \in [Proc -> Request]
    BY <1>3 DEF Start, TypeOK, Request, Op
  <2>8. TypeControl'
    BY <1>3, <2>1, GotoType DEF Start, TypeControl, TypeOK, Busy, AtRest, Verdict, Release
  <2>9. QED  BY <2>8, <1>3, <2>1, <2>2 DEF TypeControl, Start, TypeOK, disk, local
<1>4. ASSUME NEW p \in Proc, Open(p) PROVE TypeOK'
  <2>1. pos' \in [Proc -> 0..NParts]
    BY <1>4, PosReset DEF Open, TypeOK
  <2>8. TypeControl'
    BY <1>4, GotoType, ReturnType DEF Open, TypeControl, TypeOK, Busy, AtRest, Verdict
  <2>9. QED  BY <2>1, <2>8, <1>4 DEF TypeControl, Open, TypeOK, disk, local
<1>5. ASSUME NEW p \in Proc, ReadMore(p) PROVE TypeOK'
  <2>8. TypeControl'
    BY <1>5 DEF ReadMore, TypeControl, TypeOK, Busy, AtRest, Verdict, Release
  <2>9. QED  BY <2>8, <1>5, <1>1 DEF TypeControl, ReadMore, TypeOK, disk, local
<1>6. ASSUME NEW p \in Proc, ReadFails(p) PROVE TypeOK'
  <2>8. TypeControl'
    BY <1>6, CloseType DEF ReadFails, TypeControl, TypeOK, Busy, AtRest, Verdict, Release
  <2>9. QED  BY <2>8, <1>6 DEF TypeControl, ReadFails, TypeOK, disk, local
<1>7. ASSUME NEW p \in Proc, PrimaryRead(p) PROVE TypeOK'
  <2>1. buf' \in [Proc -> Copy] /\ pos' \in [Proc -> 0..NParts]
    <3>1. PICK k \in 1..NParts : ReadParts(p, k)
      BY <1>7 DEF PrimaryRead
    <3> QED  BY <1>1, <3>1
  <2>2. primary' \in [Proc -> Copy]
    BY <1>7, <2>1 DEF PrimaryRead, TypeOK
  <2>3. todo' \in [Proc -> SUBSET Nat]
    <3>1. BackupGroups(buf'[p]) \in SUBSET Nat
      BY BackupGroupsType
    <3>2. \/ todo' = [todo EXCEPT ![p] = BackupGroups(buf'[p])]
          \/ todo' = todo
      BY <1>7 DEF PrimaryRead
    <3> QED  BY <3>1, <3>2 DEF TypeOK
  <2>8. TypeControl'
    BY <1>7, GotoType, CloseType
    DEF PrimaryRead, TypeControl, TypeOK, Busy, Verdict
  <2>9. QED  BY <1>7, <2>1, <2>2, <2>3, <2>8 DEF TypeControl, PrimaryRead, TypeOK, disk
<1>8. ASSUME NEW p \in Proc, OffsetFails(p) PROVE TypeOK'
  <2>1. todo' \in [Proc -> SUBSET Nat] /\ dstatus' \in [Proc -> {0, 1}]
    BY <1>8 DEF OffsetFails, TypeOK
  <2>9. QED  BY <1>8, <2>1 DEF OffsetFails, TypeOK, disk
<1>9. ASSUME NEW p \in Proc, ReadBackup(p) PROVE TypeOK'
  <2>3. report' \in [Proc -> Seq(Item)]
    <3>1. PICK item \in Item : report' = [report EXCEPT ![p] = Append(@, item)]
      BY <1>9, ReadBackupItem
    <3> QED  BY <3>1 DEF TypeOK
  <2>4. todo' \in [Proc -> SUBSET Nat]
    BY <1>9 DEF ReadBackup, TypeOK
  <2>9. QED  BY <1>9, <2>3, <2>4 DEF ReadBackup, TypeOK, disk
<1>10. ASSUME NEW p \in Proc, AppendFails(p) PROVE TypeOK'
  <2>1. todo' \in [Proc -> SUBSET Nat] /\ dstatus' \in [Proc -> {0, 1}]
    BY <1>10 DEF AppendFails, TypeOK
  <2>9. QED  BY <1>10, <2>1 DEF AppendFails, TypeOK, disk
<1>11. ASSUME NEW p \in Proc, Discovered(p) PROVE TypeOK'
  <2>8. TypeControl'
    BY <1>11, GotoType, ReturnType, CloseType DEF Discovered, TypeControl, TypeOK, Busy, AtRest, Verdict, Release
  <2>9. QED  BY <2>8, <1>11 DEF TypeControl, Discovered, TypeOK, disk, local
<1>12. ASSUME NEW p \in Proc, Select(p) PROVE TypeOK'
  <2>8. TypeControl'
    BY <1>12, GotoType, CloseType DEF Select, TypeControl, TypeOK, Busy, AtRest, Verdict, Release
  <2>9. QED  BY <2>8, <1>12 DEF TypeControl, Select, TypeOK, disk, local
<1>13. ASSUME NEW p \in Proc, Confirm(p) PROVE TypeOK'
  <2>8. TypeControl'
    BY <1>13, GotoType DEF Confirm, TypeControl, TypeOK, Busy, AtRest, Verdict, Release
  <2>9. QED  BY <2>8, <1>13 DEF TypeControl, Confirm, TypeOK, disk, local
<1>14. ASSUME NEW p \in Proc, Decline(p) PROVE TypeOK'
  <2>8. TypeControl'
    BY <1>14, CloseType DEF Decline, TypeControl, TypeOK, Busy, AtRest, Verdict, Release
  <2>9. QED  BY <2>8, <1>14 DEF TypeControl, Decline, TypeOK, disk, local
<1>15. ASSUME NEW p \in Proc, WriteParts(p) PROVE TypeOK'
  <2>1. PICK k \in 1..(NParts - pos[p]) :
          /\ image' = [image EXCEPT ![Primary] =
                 Overlay(@, Chosen(p).sb, (pos[p] + 1)..(pos[p] + k))]
          /\ IF pos[p] + k < NParts
             THEN pos' = [pos EXCEPT ![p] = @ + k] /\ UNCHANGED pc
             ELSE pos' = [pos EXCEPT ![p] = 0] /\ Goto(p, "verify")
    BY <1>15 DEF WriteParts
  <2>2. Chosen(p).sb \in Copy
    BY <1>15, ChosenType DEF WriteParts, ControlInv, ControlAt, Item
  <2>3. image' \in [Offsets -> Copy]
    BY <2>1, <2>2, OverlayType DEF TypeOK
  <2>4. pos' \in [Proc -> 0..NParts]
    <3>1. pos[p] \in 0..4 /\ k \in 1..(4 - pos[p])
      BY <2>1 DEF TypeOK
    <3>2. pos[p] + k \in 0..4
      BY <3>1
    <3>3. CASE pos' = [pos EXCEPT ![p] = @ + k]
      BY <3>2, <3>3 DEF TypeOK
    <3>4. CASE pos' = [pos EXCEPT ![p] = 0]
      BY <3>4, PosReset
    <3> QED  BY <2>1, <3>3, <3>4
  <2>5. pc' \in [Proc -> Busy \cup AtRest]
    BY <2>1, GotoType DEF TypeOK, Busy
  <2>9. QED  BY <1>15, <2>3, <2>4, <2>5 DEF WriteParts, TypeOK, local
<1>16. ASSUME NEW p \in Proc, WriteFails(p) PROVE TypeOK'
  <2>8. TypeControl'
    BY <1>16, CloseType DEF WriteFails, TypeControl, TypeOK, Busy, AtRest, Verdict, Release
  <2>9. QED  BY <2>8, <1>16 DEF TypeControl, WriteFails, TypeOK, disk, local
<1>17. ASSUME NEW p \in Proc, Verify(p) PROVE TypeOK'
  <2>1. buf' \in [Proc -> Copy] /\ pos' \in [Proc -> 0..NParts]
    <3>1. PICK k \in 1..NParts : ReadParts(p, k)
      BY <1>17 DEF Verify
    <3> QED  BY <1>1, <3>1
  <2>8. TypeControl'
    BY <1>17, CloseType DEF Verify, Verdict
  <2>9. QED  BY <1>17, <2>1, <2>8 DEF TypeControl, Verify, TypeOK, disk
<1>18. ASSUME NEW p \in Proc, Crash(p) PROVE TypeOK'
  <2>8. TypeControl'
    BY <1>18, GotoType DEF Crash, TypeControl, TypeOK, Busy, AtRest, Verdict, Release
  <2>9. QED  BY <2>8, <1>18 DEF TypeControl, Crash, TypeOK, disk, local
<1>19. CASE WriteBack
  BY <1>19, OverlayType DEF WriteBack, TypeOK, local
<1>20. CASE PowerLoss
  <2>1. pc' \in [Proc -> Busy \cup AtRest] /\ fd' \in [Proc -> BOOLEAN]
    BY <1>20 DEF PowerLoss, TypeOK, AtRest
  <2>9. QED  BY <1>20, <2>1 DEF PowerLoss, TypeOK, local
<1>21. CASE UNCHANGED vars
  BY <1>21 DEF vars, TypeOK, disk, local
<1> QED
  BY <1>2, <1>3, <1>4, <1>5, <1>6, <1>7, <1>8, <1>9, <1>10, <1>11, <1>12,
     <1>13, <1>14, <1>15, <1>16, <1>17, <1>18, <1>19, <1>20, <1>21
  DEF Next, Step

-----------------------------------------------------------------------------
(* Control: what holds at each step of a command. *)

Move(p) == BadIndex(p) \/ Start(p) \/ Step(p) \/ Crash(p)

(* A step of one process leaves the local state of the others alone. *)
LEMMA Locality ==
    ASSUME TypeOK, NEW p \in Proc, Move(p), NEW q \in Proc, q # p
    PROVE  /\ pc'[q] = pc[q] /\ fd'[q] = fd[q] /\ req'[q] = req[q] /\ pos'[q] = pos[q]
           /\ report'[q] = report[q] /\ confirmed'[q] = confirmed[q]
           /\ dstatus'[q] = dstatus[q]
<1> USE DEF TypeOK, local, Goto, Return, Release, CloseAndReturn, Forget, ReadParts
<1>1. CASE BadIndex(p)
  BY <1>1 DEF BadIndex
<1>2. CASE Start(p)
  BY <1>2 DEF Start
<1>3. CASE Open(p)
  BY <1>3 DEF Open
<1>4. CASE ReadMore(p)
  BY <1>4 DEF ReadMore
<1>5. CASE ReadFails(p)
  BY <1>5 DEF ReadFails
<1>6. CASE PrimaryRead(p)
  BY <1>6 DEF PrimaryRead
<1>7. CASE OffsetFails(p)
  BY <1>7 DEF OffsetFails
<1>8. CASE ReadBackup(p)
  BY <1>8 DEF ReadBackup
<1>9. CASE AppendFails(p)
  BY <1>9 DEF AppendFails
<1>10. CASE Discovered(p)
  BY <1>10 DEF Discovered
<1>11. CASE Select(p)
  BY <1>11 DEF Select
<1>12. CASE Confirm(p)
  BY <1>12 DEF Confirm
<1>13. CASE Decline(p)
  BY <1>13 DEF Decline
<1>14. CASE WriteParts(p)
  BY <1>14 DEF WriteParts
<1>15. CASE WriteFails(p)
  BY <1>15 DEF WriteFails
<1>16. CASE Verify(p)
  BY <1>16 DEF Verify
<1>17. CASE Crash(p)
  BY <1>17 DEF Crash
<1> QED
  BY <1>1, <1>2, <1>3, <1>4, <1>5, <1>6, <1>7, <1>8,
     <1>9, <1>10, <1>11, <1>12, <1>13, <1>14, <1>15, <1>16, <1>17
  DEF Move, Step

(* A step of a process keeps its own control invariant. *)
LEMMA ControlMove ==
    ASSUME TypeOK, NEW p \in Proc, ControlAt(p), Move(p)
    PROVE  ControlAt(p)'
<1> USE DEF TypeOK, ControlAt, local, Goto, Return, CloseAndReturn, Chosen
<1>1. CASE BadIndex(p)
  BY <1>1 DEF BadIndex
<1>2. CASE Start(p)
  BY <1>2 DEF Start
<1>3. CASE Open(p)
  BY <1>3 DEF Open
<1>4. CASE ReadMore(p)
  BY <1>4 DEF ReadMore
<1>5. CASE ReadFails(p)
  BY <1>5 DEF ReadFails
<1>6. CASE PrimaryRead(p)
  BY <1>6 DEF PrimaryRead
<1>7. CASE OffsetFails(p)
  BY <1>7 DEF OffsetFails
<1>8. CASE ReadBackup(p)
  BY <1>8 DEF ReadBackup
<1>9. CASE AppendFails(p)
  BY <1>9 DEF AppendFails
<1>10. CASE Discovered(p)
  BY <1>10 DEF Discovered
<1>11. CASE Select(p)
  BY <1>11 DEF Select
<1>12. CASE Confirm(p)
  BY <1>12 DEF Confirm
<1>13. CASE Decline(p)
  BY <1>13 DEF Decline
<1>14. CASE WriteParts(p)
  BY <1>14 DEF WriteParts
<1>15. CASE WriteFails(p)
  BY <1>15 DEF WriteFails
<1>16. CASE Verify(p)
  BY <1>16 DEF Verify
<1>17. CASE Crash(p)
  BY <1>17 DEF Crash
<1> QED
  BY <1>1, <1>2, <1>3, <1>4, <1>5, <1>6, <1>7, <1>8,
     <1>9, <1>10, <1>11, <1>12, <1>13, <1>14, <1>15, <1>16, <1>17
  DEF Move, Step

(* The loss of power and the kernel's write-back keep it too. *)
LEMMA ControlStep == TypeOK /\ ControlInv /\ [Next]_vars => ControlInv'
<1> SUFFICES ASSUME TypeOK, ControlInv, [Next]_vars, NEW q \in Proc
             PROVE  ControlAt(q)'
  BY DEF ControlInv
<1>0. ControlAt(q)
  BY DEF ControlInv
<1>1. ASSUME NEW p \in Proc, Move(p) PROVE ControlAt(q)'
  <2>1. CASE p = q
    BY <1>0, <1>1, <2>1, ControlMove
  <2>2. CASE p # q
    BY <1>0, <1>1, <2>2, Locality DEF ControlAt, Chosen
  <2> QED  BY <2>1, <2>2
<1>2. CASE WriteBack
  BY <1>0, <1>2 DEF WriteBack, ControlAt, Chosen, local
<1>3. CASE PowerLoss
  BY <1>0, <1>3 DEF PowerLoss, ControlAt, Chosen, local, Busy, TypeOK
<1>4. CASE UNCHANGED vars
  BY <1>0, <1>4 DEF vars, ControlAt, Chosen, local
<1> QED  BY <1>1, <1>2, <1>3, <1>4 DEF Next, Move

(* The control invariant holds before the first command. *)
LEMMA ControlInit == Init => ControlInv
  BY DEF Init, ControlInv, ControlAt

(* Every variable keeps its type, and a command that has got as far as     *)
(* writing was asked to write, was confirmed, and holds a usable backup.   *)
THEOREM TypeAndControl == Spec => [](TypeOK /\ ControlInv)
<1>1. Init => TypeOK /\ ControlInv
  BY TypeInit, ControlInit
<1>2. TypeOK /\ ControlInv /\ [Next]_vars => (TypeOK /\ ControlInv)'
  BY TypeStep, ControlStep
<1> QED  BY <1>1, <1>2, PTL DEF Spec

(* Type correctness of the recovery commands, for any number of processes. *)
THEOREM TypeCorrect == Spec => []TypeOK
  BY TypeAndControl, PTL

-----------------------------------------------------------------------------
(* Descriptors. *)

(* A step of a process keeps account of its descriptor. *)
LEMMA DescriptorMove ==
    ASSUME TypeOK, NEW p \in Proc, DescriptorAt(p), Move(p)
    PROVE  DescriptorAt(p)'
<1> USE DEF TypeOK, DescriptorAt, AtRest, local, Goto, Return, Release,
            CloseAndReturn, Forget
<1>1. CASE BadIndex(p)
  BY <1>1 DEF BadIndex
<1>2. CASE Start(p)
  BY <1>2 DEF Start
<1>3. CASE Open(p)
  BY <1>3 DEF Open
<1>4. CASE ReadMore(p)
  BY <1>4 DEF ReadMore
<1>5. CASE ReadFails(p)
  BY <1>5 DEF ReadFails
<1>6. CASE PrimaryRead(p)
  BY <1>6 DEF PrimaryRead
<1>7. CASE OffsetFails(p)
  BY <1>7 DEF OffsetFails
<1>8. CASE ReadBackup(p)
  BY <1>8 DEF ReadBackup
<1>9. CASE AppendFails(p)
  BY <1>9 DEF AppendFails
<1>10. CASE Discovered(p)
  BY <1>10 DEF Discovered
<1>11. CASE Select(p)
  BY <1>11 DEF Select
<1>12. CASE Confirm(p)
  BY <1>12 DEF Confirm
<1>13. CASE Decline(p)
  BY <1>13 DEF Decline
<1>14. CASE WriteParts(p)
  BY <1>14 DEF WriteParts
<1>15. CASE WriteFails(p)
  BY <1>15 DEF WriteFails
<1>16. CASE Verify(p)
  BY <1>16 DEF Verify
<1>17. CASE Crash(p)
  BY <1>17 DEF Crash
<1> QED
  BY <1>1, <1>2, <1>3, <1>4, <1>5, <1>6, <1>7, <1>8,
     <1>9, <1>10, <1>11, <1>12, <1>13, <1>14, <1>15, <1>16, <1>17
  DEF Move, Step

(* A command that has returned has closed the image, whatever failed; the  *)
(* one exception is a restore whose discovery ended with an error status   *)
(* (ext4_recovery_restore_superblock returns at line 91 without closing).  *)
THEOREM DescriptorsClosed == Spec => []DescriptorClosed
<1> DEFINE Inv == \A p \in Proc : DescriptorAt(p)
<1>1. Init => Inv
  BY DEF Init, DescriptorAt, AtRest
<1>2. TypeOK /\ Inv /\ [Next]_vars => Inv'
  <2> SUFFICES ASSUME TypeOK, Inv, [Next]_vars, NEW q \in Proc
               PROVE  DescriptorAt(q)'
    OBVIOUS
  <2>0. DescriptorAt(q)
    OBVIOUS
  <2>1. ASSUME NEW p \in Proc, Move(p) PROVE DescriptorAt(q)'
    <3>1. CASE p = q
      BY <2>0, <2>1, <3>1, DescriptorMove
    <3>2. CASE p # q
      BY <2>0, <2>1, <3>2, Locality DEF DescriptorAt
    <3> QED  BY <3>1, <3>2
  <2>2. CASE WriteBack
    BY <2>0, <2>2 DEF WriteBack, DescriptorAt, local
  <2>3. CASE PowerLoss
    BY <2>0, <2>3 DEF PowerLoss, DescriptorAt, local, TypeOK
  <2>4. CASE UNCHANGED vars
    BY <2>0, <2>4 DEF vars, DescriptorAt, local
  <2> QED  BY <2>1, <2>2, <2>3, <2>4 DEF Next, Move
<1>3. Inv => DescriptorClosed
  BY DEF DescriptorAt, DescriptorClosed
<1> QED  BY <1>1, <1>2, <1>3, TypeCorrect, PTL DEF Spec

-----------------------------------------------------------------------------
(* Trust: where the bytes of the primary superblock come from. *)

TrustInv == PrimaryTrusted /\ ReportTrusted

(* A transfer from a trusted copy into a trusted copy, cut short anywhere, *)
(* leaves a trusted copy.                                                  *)
LEMMA OverlayTrusted ==
    ASSUME NEW c, NEW d, NEW ps \in SUBSET (1..NParts), TrustedCopy(c), TrustedCopy(d)
    PROVE  TrustedCopy(Overlay(c, d, ps))
<1> SUFFICES ASSUME NEW i \in 1..NParts
             PROVE  FromTrusted(i, Overlay(c, d, ps))
  BY DEF TrustedCopy
<1>1. FromTrusted(i, c) /\ FromTrusted(i, d)
  BY DEF TrustedCopy
<1>2. CASE i \in ps
  BY <1>1, <1>2, OverlayParts DEF FromTrusted, SamePart
<1>3. CASE i \notin ps
  BY <1>1, <1>3, OverlayParts DEF FromTrusted, SamePart
<1> QED  BY <1>2, <1>3

(* A copy that may be restored is trusted: it is a usable backup, or, when *)
(* groups are one block long, the primary itself as it was read.           *)
LEMMA RestorableTrusted ==
    ASSUME NEW item, ItemTrusted(item), Restorable(item)
    PROVE  TrustedCopy(item.sb)
<1>1. CASE item.offset = Primary
  BY <1>1 DEF ItemTrusted, Restorable
<1>2. CASE item.offset # Primary
  <2>1. item.offset \in Genuine /\ item.sb = origin[item.offset]
    BY <1>2 DEF ItemTrusted, Restorable, Genuine
  <2> QED  BY <2>1 DEF TrustedCopy, FromTrusted, SamePart
<1> QED  BY <1>1, <1>2

(* No step changes the original image, and only a write or the loss of the *)
(* cache changes the image or the medium.                                  *)
LEMMA DiskMove ==
    ASSUME NEW p \in Proc, Move(p)
    PROVE  /\ origin' = origin /\ stable' = stable
           /\ ~WriteParts(p) => image' = image
<1>1. CASE BadIndex(p)
  BY <1>1 DEF BadIndex, disk
<1>2. CASE Start(p)
  BY <1>2 DEF Start, disk
<1>3. CASE Open(p)
  BY <1>3 DEF Open, disk
<1>4. CASE ReadMore(p)
  BY <1>4 DEF ReadMore, disk
<1>5. CASE ReadFails(p)
  BY <1>5 DEF ReadFails, disk
<1>6. CASE PrimaryRead(p)
  BY <1>6 DEF PrimaryRead, disk
<1>7. CASE OffsetFails(p)
  BY <1>7 DEF OffsetFails, disk
<1>8. CASE ReadBackup(p)
  BY <1>8 DEF ReadBackup, disk
<1>9. CASE AppendFails(p)
  BY <1>9 DEF AppendFails, disk
<1>10. CASE Discovered(p)
  BY <1>10 DEF Discovered, disk
<1>11. CASE Select(p)
  BY <1>11 DEF Select, disk
<1>12. CASE Confirm(p)
  BY <1>12 DEF Confirm, disk
<1>13. CASE Decline(p)
  BY <1>13 DEF Decline, disk
<1>14. CASE WriteParts(p)
  BY <1>14 DEF WriteParts, disk
<1>15. CASE WriteFails(p)
  BY <1>15 DEF WriteFails, disk
<1>16. CASE Verify(p)
  BY <1>16 DEF Verify, disk
<1>17. CASE Crash(p)
  BY <1>17 DEF Crash, disk
<1> QED
  BY <1>1, <1>2, <1>3, <1>4, <1>5, <1>6, <1>7, <1>8,
     <1>9, <1>10, <1>11, <1>12, <1>13, <1>14, <1>15, <1>16, <1>17
  DEF Move, Step

(* Only discovery adds to a report, and only a new command empties it. *)
LEMMA ReportMove ==
    ASSUME NEW p \in Proc, Move(p), ~ReadBackup(p), TypeOK
    PROVE  report'[p] = report[p] \/ report'[p] = << >>
<1> USE DEF local, Forget, TypeOK
<1>1. CASE BadIndex(p)
  BY <1>1 DEF BadIndex
<1>2. CASE Start(p)
  BY <1>2 DEF Start
<1>3. CASE Open(p)
  BY <1>3 DEF Open
<1>4. CASE ReadMore(p)
  BY <1>4 DEF ReadMore
<1>5. CASE ReadFails(p)
  BY <1>5 DEF ReadFails
<1>6. CASE PrimaryRead(p)
  BY <1>6 DEF PrimaryRead
<1>7. CASE OffsetFails(p)
  BY <1>7 DEF OffsetFails
<1>9. CASE AppendFails(p)
  BY <1>9 DEF AppendFails
<1>10. CASE Discovered(p)
  BY <1>10 DEF Discovered
<1>11. CASE Select(p)
  BY <1>11 DEF Select
<1>12. CASE Confirm(p)
  BY <1>12 DEF Confirm
<1>13. CASE Decline(p)
  BY <1>13 DEF Decline
<1>14. CASE WriteParts(p)
  BY <1>14 DEF WriteParts
<1>15. CASE WriteFails(p)
  BY <1>15 DEF WriteFails
<1>16. CASE Verify(p)
  BY <1>16 DEF Verify
<1>17. CASE Crash(p)
  BY <1>17 DEF Crash
<1> QED
  BY <1>1, <1>2, <1>3, <1>4, <1>5, <1>6, <1>7,
     <1>9, <1>10, <1>11, <1>12, <1>13, <1>14, <1>15, <1>16, <1>17
  DEF Move, Step

(* Initially the image is the trusted origin, and nothing is reported. *)
LEMMA TrustInit == Init => TrustInv
  BY DEF Init, TrustInv, PrimaryTrusted, ReportTrusted, ReportAt, FromTrusted, SamePart

(* PrimaryTrusted, in terms of trusted copies. *)
LEMMA TrustedPrimary == PrimaryTrusted <=> /\ TrustedCopy(image[Primary])
                                          /\ TrustedCopy(stable)
                                          /\ \A o \in Offsets \ {Primary} :
                                                image[o] = origin[o]
  BY DEF PrimaryTrusted, TrustedCopy

(* No step of a process puts anything untrusted in the image or a report. *)
LEMMA TrustMove ==
    ASSUME TypeOK, ControlInv, TrustInv, NEW p \in Proc, Move(p)
    PROVE  TrustInv'
<1>1. origin' = origin /\ stable' = stable
  BY DiskMove
<1>2. TrustedCopy(image[Primary]) /\ TrustedCopy(stable)
  BY TrustedPrimary DEF TrustInv
<1>3. PrimaryTrusted'
  <2>1. CASE image' = image
    BY <1>1, <2>1 DEF TrustInv, PrimaryTrusted, FromTrusted, Genuine
  <2>2. CASE WriteParts(p)
    <3>1. PICK k \in 1..(NParts - pos[p]) :
            image' = [image EXCEPT ![Primary] =
               Overlay(@, Chosen(p).sb, (pos[p] + 1)..(pos[p] + k))]
      BY <2>2 DEF WriteParts
    <3>2. TrustedCopy(Chosen(p).sb)
      <4>1. req[p].index < Len(report[p]) /\ Restorable(Chosen(p))
        BY <2>2 DEF WriteParts, ControlInv, ControlAt
      <4>2. req[p].index + 1 \in 1..Len(report[p])
        BY <4>1, ParameterTypes DEF TypeOK, Request
      <4>3. ItemTrusted(Chosen(p))
        BY <4>2 DEF TrustInv, ReportTrusted, ReportAt, Chosen
      <4> QED  BY <4>1, <4>3, RestorableTrusted
    <3>3. (pos[p] + 1)..(pos[p] + k) \in SUBSET (1..NParts)
      <4>1. pos[p] \in 0..4 /\ k \in 1..(4 - pos[p])
        BY <3>1, ParameterTypes DEF TypeOK
      <4> QED  BY <4>1, ParameterTypes
    <3> DEFINE new == Overlay(image[Primary], Chosen(p).sb, (pos[p] + 1)..(pos[p] + k))
    <3>4. TrustedCopy(new)
      BY <1>2, <3>2, <3>3, OverlayTrusted
    <3>5. image' = [image EXCEPT ![Primary] = new]
      BY <3>1
    <3> HIDE DEF new
    <3>6. image'[Primary] = new /\ \A o \in Offsets \ {Primary} : image'[o] = image[o]
      BY <3>5, ParameterTypes DEF TypeOK
    <3> QED
      BY <1>1, <3>4, <3>6 DEF TrustInv, PrimaryTrusted, TrustedCopy, FromTrusted, Genuine
  <2> QED  BY <2>1, <2>2, DiskMove
<1>4. ASSUME NEW q \in Proc PROVE ReportAt(q)'
  <2>1. ReportAt(q)
    BY DEF TrustInv, ReportTrusted
  <2>2. ASSUME NEW item, ItemTrusted(item) PROVE ItemTrusted(item)'
    BY <1>1, <2>2 DEF ItemTrusted, TrustedCopy, FromTrusted, Genuine
  <2>3. CASE report'[q] = report[q]
    BY <2>1, <2>2, <2>3 DEF ReportAt
  <2>4. CASE report'[q] = << >>
    BY <2>4 DEF ReportAt
  <2>5. CASE p = q /\ ReadBackup(p)
    <3>1. PICK item \in Item :
             /\ report' = [report EXCEPT ![p] = Append(@, item)]
             /\ item.read_ok => item.offset \in Offsets /\ item.sb = image[item.offset]
      BY <2>5, ReadBackupItem
    <3>2. ItemTrusted(item)
      BY <1>2, <3>1 DEF ItemTrusted, TrustInv, PrimaryTrusted
    <3>3. report[p] \in Seq(Item)
      BY DEF TypeOK
    <3>4. report'[p] = Append(report[p], item)
      BY <3>1 DEF TypeOK
    <3>5. ASSUME NEW n \in 1..Len(Append(report[p], item))
          PROVE  ItemTrusted(Append(report[p], item)[n])
      <4>1. CASE Append(report[p], item)[n] = item
        BY <3>2, <4>1
      <4>2. CASE n \in 1..Len(report[p]) /\ Append(report[p], item)[n] = report[p][n]
        BY <2>1, <2>5, <4>2 DEF ReportAt
      <4> QED  BY <3>3, <4>1, <4>2, AppendElements
    <3>6. ASSUME NEW n \in 1..Len(report'[p]) PROVE ItemTrusted(report[p][n])'
      BY <2>2, <3>4, <3>5
    <3> QED  BY <2>5, <3>6 DEF ReportAt
  <2> QED  BY <2>3, <2>4, <2>5, Locality, ReportMove
<1> QED  BY <1>3, <1>4 DEF TrustInv, ReportTrusted

(* Nor does the environment: a crash or a power loss mixes trusted parts. *)
LEMMA TrustStep == TypeOK /\ ControlInv /\ TrustInv /\ [Next]_vars => TrustInv'
<1> SUFFICES ASSUME TypeOK, ControlInv, TrustInv, [Next]_vars
             PROVE  TrustInv'
  OBVIOUS
<1>1. ASSUME NEW p \in Proc, Move(p) PROVE TrustInv'
  BY <1>1, TrustMove
<1>2. TrustedCopy(image[Primary]) /\ TrustedCopy(stable)
  BY TrustedPrimary DEF TrustInv
<1>3. CASE WriteBack
  <2>1. PICK s \in Sector : stable' = Overlay(stable, image[Primary], s)
    BY <1>3 DEF WriteBack
  <2>2. s \in SUBSET (1..NParts)
    BY ParameterTypes DEF Sector
  <2>3. TrustedCopy(stable')
    BY <1>2, <2>1, <2>2, OverlayTrusted
  <2>4. UNCHANGED <<image, origin, report>>
    BY <1>3 DEF WriteBack, local
  <2> QED
    BY <2>3, <2>4
    DEF TrustInv, PrimaryTrusted, TrustedCopy, FromTrusted, Genuine,
        ReportTrusted, ReportAt, ItemTrusted
<1>4. CASE PowerLoss
  <2>1. UNCHANGED <<stable, origin, report>>
    BY <1>4 DEF PowerLoss, local
  <2>2. image'[Primary] = stable /\ \A o \in Offsets \ {Primary} : image'[o] = image[o]
    BY <1>4, ParameterTypes DEF PowerLoss, TypeOK
  <2> QED
    BY <1>2, <2>1, <2>2
    DEF TrustInv, PrimaryTrusted, TrustedCopy, FromTrusted, Genuine,
        ReportTrusted, ReportAt, ItemTrusted
<1>5. CASE UNCHANGED vars
  BY <1>5
  DEF vars, disk, local, TrustInv, PrimaryTrusted, TrustedCopy, FromTrusted, Genuine,
      ReportTrusted, ReportAt, ItemTrusted
<1> QED  BY <1>1, <1>3, <1>4, <1>5 DEF Next, Move

(* For every image and any number of processes: whatever is cut short,     *)
(* interleaved or lost, every part of the primary superblock is the        *)
(* original or that of a usable backup, and no backup changes.             *)
THEOREM PrimaryStaysTrusted == Spec => []PrimaryTrusted
<1>1. TrustInv => PrimaryTrusted
  BY DEF TrustInv
<1> QED  BY <1>1, TrustInit, TrustStep, TypeAndControl, PTL DEF Spec

(* Only a confirmed restore with --write on a usable backup changes the    *)
(* image, and a power failure can only take such changes back.             *)
THEOREM WritesConfirmed == Spec => OnlyConfirmedWrites
<1> DEFINE Confirmed ==
        image' # image =>
          \/ \E p \in Proc :
                /\ pc[p] = "write" /\ confirmed[p]
                /\ req[p].op = "restore" /\ req[p].write
                /\ req[p].index < Len(report[p]) /\ Restorable(Chosen(p))
          \/ image'[Primary] = stable
<1>1. TypeOK /\ ControlInv /\ [Next]_vars => [Confirmed]_vars
  <2> SUFFICES ASSUME TypeOK, ControlInv, Next
               PROVE  Confirmed
    OBVIOUS
  <2>1. ASSUME NEW p \in Proc, Move(p) PROVE Confirmed
    <3>1. CASE WriteParts(p)
      BY <3>1 DEF WriteParts, ControlInv, ControlAt
    <3>2. CASE ~WriteParts(p)
      BY <2>1, <3>2, DiskMove
    <3> QED  BY <3>1, <3>2
  <2>2. CASE WriteBack
    BY <2>2 DEF WriteBack
  <2>3. CASE PowerLoss
    BY <2>3, ParameterTypes DEF PowerLoss, TypeOK
  <2> QED  BY <2>1, <2>2, <2>3 DEF Next, Move
<1> QED  BY <1>1, TypeAndControl, PTL DEF Spec, OnlyConfirmedWrites

-----------------------------------------------------------------------------
(* A torn restore can be run again. *)

(* Where discovery looks depends on the geometry fields alone. *)
LEMMA SameGeometrySameReach ==
    ASSUME NEW a, NEW b, \A f \in GeometryField : a[f] = b[f]
    PROVE  Reachable(a) = Reachable(b)
<1>1. /\ a["blocks_count_lo"] = b["blocks_count_lo"]
      /\ a["blocks_count_hi"] = b["blocks_count_hi"]
      /\ a["first_data_block"] = b["first_data_block"]
      /\ a["log_block_size"] = b["log_block_size"]
      /\ a["blocks_per_group"] = b["blocks_per_group"]
      /\ a["incompat64"] = b["incompat64"]
  BY DEF GeometryField
<1>2. BlockSize(a) = BlockSize(b) /\ BlocksCount(a) = BlocksCount(b)
  BY <1>1 DEF BlockSize, BlocksCount
<1>3. UsableGeometry(a) = UsableGeometry(b) /\ BackupGroups(a) = BackupGroups(b)
  BY <1>1, <1>2, Zenon DEF UsableGeometry, BackupGroups
<1>4. \A g : BackupOffset(a, g) = BackupOffset(b, g)
  BY <1>1, <1>2, Zenon DEF BackupOffset, BackupBlock
<1>5. \A g : BackupOffsetOk(a, g) = BackupOffsetOk(b, g)
  <2>1. \A g : BackupBlock(a, g) = BackupBlock(b, g)
    BY <1>1, Zenon DEF BackupBlock
  <2>2. ASSUME NEW g PROVE BackupOffsetOk(a, g) <=> BackupOffsetOk(b, g)
    BY <1>1, <1>2, <1>4, <2>1, Zenon DEF BackupOffsetOk
  <2>3. ASSUME NEW g PROVE BackupOffsetOk(a, g) \in BOOLEAN /\ BackupOffsetOk(b, g) \in BOOLEAN
    BY DEF BackupOffsetOk
  <2> QED  BY <2>2, <2>3
<1> QED  BY <1>3, <1>4, <1>5, Zenon DEF Reachable

(* Every field of the geometry is in a group. *)
LEMMA GeometryInParts == \A f \in GeometryField : \E i \in 1..NParts : f \in Part[i]
  BY DEF GeometryField, Part, NParts

(* Trusted copies of an agreed geometry reach the same backups. *)
LEMMA TrustedGeometry ==
    ASSUME AgreedGeometry, NEW c, TrustedCopy(c)
    PROVE  Reachable(c) = Reachable(origin[Primary])
<1>1. ASSUME NEW f \in GeometryField PROVE c[f] = origin[Primary][f]
  <2>1. PICK i \in 1..NParts : f \in Part[i]
    BY GeometryInParts
  <2>2. FromTrusted(i, c)
    BY DEF TrustedCopy
  <2> QED  BY <2>1, <2>2 DEF FromTrusted, SamePart, AgreedGeometry
<1> QED  BY <1>1, SameGeometrySameReach

(* When the usable backups agree with the primary on the geometry, no      *)
(* crash, failed write, race or power failure in the middle of a restore   *)
(* hides a backup from a later discovery.                                  *)
THEOREM RetryPossible == Spec => []RetryFindsBackups
<1>1. PrimaryTrusted => RetryFindsBackups
  BY TrustedPrimary, TrustedGeometry DEF RetryFindsBackups
<1> QED  BY <1>1, PrimaryStaysTrusted, PTL

-----------------------------------------------------------------------------
(* One process: a verified restore is a whole one. *)

(* Copies that agree in every group are equal. *)
LEMMA WholeCopies ==
    ASSUME NEW c \in Copy, NEW d \in Copy, \A i \in 1..NParts : SamePart(i, c, d)
    PROVE  c = d
<1>1. ASSUME NEW f \in Field PROVE c[f] = d[f]
  BY <1>1 DEF Field, SamePart
<1> QED  BY <1>1 DEF Copy

(* A step of the only process keeps what it has written whole. *)
LEMMA WholeMove ==
    ASSUME TypeOK, ControlInv, NEW p \in Proc, WholeAt(p), Move(p)
    PROVE  WholeAt(p)'
<1> USE DEF local, disk, Goto, Return, CloseAndReturn
<1>1. CASE BadIndex(p)
  BY <1>1 DEF BadIndex, WholeAt, TypeOK
<1>2. CASE Start(p)
  BY <1>2 DEF Start, WholeAt, TypeOK
<1>3. CASE Open(p)
  BY <1>3 DEF Open, WholeAt, TypeOK
<1>4. CASE ReadMore(p)
  BY <1>4 DEF ReadMore, WholeAt, Chosen
<1>5. CASE ReadFails(p)
  BY <1>5 DEF ReadFails, WholeAt, TypeOK
<1>6. CASE PrimaryRead(p)
  BY <1>6 DEF PrimaryRead, WholeAt, TypeOK
<1>7. CASE OffsetFails(p)
  BY <1>7 DEF OffsetFails, WholeAt, TypeOK
<1>8. CASE ReadBackup(p)
  BY <1>8 DEF ReadBackup, WholeAt, TypeOK
<1>9. CASE AppendFails(p)
  BY <1>9 DEF AppendFails, WholeAt, TypeOK
<1>10. CASE Discovered(p)
  BY <1>10 DEF Discovered, WholeAt, TypeOK
<1>11. CASE Select(p)
  BY <1>11 DEF Select, WholeAt, TypeOK
<1>12. CASE Confirm(p)
  <2>1. pc'[p] = "write" /\ pos'[p] = 0
    BY <1>12 DEF Confirm, TypeOK
  <2> QED  BY <2>1 DEF WholeAt
<1>13. CASE Decline(p)
  BY <1>13 DEF Decline, WholeAt, TypeOK
<1>14. CASE WriteParts(p)
  <2>1. PICK k \in 1..(NParts - pos[p]) :
          /\ image' = [image EXCEPT ![Primary] =
                 Overlay(@, Chosen(p).sb, (pos[p] + 1)..(pos[p] + k))]
          /\ IF pos[p] + k < NParts
             THEN pos' = [pos EXCEPT ![p] = @ + k] /\ UNCHANGED pc
             ELSE pos' = [pos EXCEPT ![p] = 0] /\ Goto(p, "verify")
    BY <1>14 DEF WriteParts
  <2> DEFINE moved == (pos[p] + 1)..(pos[p] + k)
             new == Overlay(image[Primary], Chosen(p).sb, moved)
  <2>2. pos[p] \in 0..4 /\ k \in 1..(4 - pos[p])
    BY <2>1, ParameterTypes DEF TypeOK
  <2>3. moved \in SUBSET (1..NParts)
    BY <2>2, ParameterTypes
  <2>4. ASSUME NEW i \in 1..(pos[p] + k) PROVE SamePart(i, new, Chosen(p).sb)
    <3>1. i \in 1..NParts
      BY <2>2, ParameterTypes
    <3>2. CASE i \in moved
      <4> HIDE DEF moved
      <4> QED  BY <2>3, <3>1, <3>2, OverlayParts
    <3>3. CASE i \notin moved
      <4>1. i \in 1..pos[p]
        BY <2>2, <3>3
      <4>2. SamePart(i, image[Primary], Chosen(p).sb)
        BY <1>14, <4>1 DEF WholeAt, WriteParts
      <4>3. SamePart(i, new, image[Primary])
        <5> HIDE DEF moved
        <5> QED  BY <2>3, <3>1, <3>3, OverlayParts
      <4> QED  BY <4>2, <4>3 DEF SamePart
    <3> QED  BY <3>2, <3>3
  <2>5. image'[Primary] = new
    BY <2>1, ParameterTypes DEF TypeOK
  <2>6. report' = report /\ req' = req
    BY <1>14 DEF WriteParts
  <2> HIDE DEF new
  <2>7. CASE pos[p] + k < NParts
    <3>1. pc'[p] = "write" /\ pos'[p] = pos[p] + k
      BY <1>14, <2>1, <2>7 DEF WriteParts, TypeOK
    <3> QED  BY <2>4, <2>5, <2>6, <3>1 DEF WholeAt, Chosen
  <2>8. CASE ~(pos[p] + k < NParts)
    <3>1. pc'[p] = "verify"
      BY <2>1, <2>8 DEF TypeOK
    <3>2. pos[p] + k = NParts
      BY <2>2, <2>8, ParameterTypes
    <3>3. Chosen(p).sb \in Copy
      BY <1>14, ChosenType DEF WriteParts, ControlInv, ControlAt, Item
    <3>4. new \in Copy
      BY <3>3, OverlayType, ParameterTypes DEF TypeOK, new
    <3>5. new = Chosen(p).sb
      BY <2>4, <3>2, <3>3, <3>4, WholeCopies
    <3> QED  BY <2>5, <2>6, <3>1, <3>5 DEF WholeAt, Chosen
  <2> QED  BY <2>7, <2>8
<1>15. CASE WriteFails(p)
  BY <1>15 DEF WriteFails, WholeAt, TypeOK
<1>16. CASE Verify(p)
  BY <1>16 DEF Verify, WholeAt, TypeOK
<1>17. CASE Crash(p)
  BY <1>17 DEF Crash, WholeAt, TypeOK
<1> QED
  BY <1>1, <1>2, <1>3, <1>4, <1>5, <1>6, <1>7, <1>8,
     <1>9, <1>10, <1>11, <1>12, <1>13, <1>14, <1>15, <1>16, <1>17
  DEF Move, Step

OneProcess == \A p, q \in Proc : p = q

(* With one process at work, a restore that returns 0 leaves the selected  *)
(* copy, whole and valid, in the primary, although the program compares    *)
(* four fields of it.                                                      *)
THEOREM VerifiedMeansWhole ==
    ASSUME OneProcess
    PROVE  Spec => VerifiedIsWhole
<1> DEFINE Inv == \A p \in Proc : WholeAt(p)
           Whole == \A p \in Proc :
              pc[p] \in Busy /\ pc'[p] = "done" /\ status'[p] = 0 /\ req[p].write =>
                 /\ confirmed[p]
                 /\ image'[Primary] = Chosen(p).sb
                 /\ ValidSuperblock(image'[Primary])
<1>1. Init => Inv
  BY DEF Init, WholeAt
<1>2. TypeOK /\ ControlInv /\ Inv /\ [Next]_vars => Inv'
  <2> SUFFICES ASSUME TypeOK, ControlInv, Inv, [Next]_vars, NEW q \in Proc
               PROVE  WholeAt(q)'
    OBVIOUS
  <2>1. ASSUME NEW p \in Proc, Move(p) PROVE WholeAt(q)'
    BY <2>1, WholeMove DEF OneProcess
  <2>2. CASE WriteBack
    BY <2>2 DEF WriteBack, WholeAt, Chosen, local
  <2>3. CASE PowerLoss
    BY <2>3 DEF PowerLoss, WholeAt, Busy, TypeOK, AtRest
  <2>4. CASE UNCHANGED vars
    BY <2>4 DEF vars, disk, WholeAt, Chosen, local
  <2> QED  BY <2>1, <2>2, <2>3, <2>4 DEF Next, Move
<1>3. TypeOK /\ ControlInv /\ Inv /\ [Next]_vars => [Whole]_vars
  <2> SUFFICES ASSUME TypeOK, ControlInv, Inv, Next, NEW q \in Proc,
                      pc[q] \in Busy, pc'[q] = "done", status'[q] = 0, req[q].write
               PROVE  /\ confirmed[q]
                      /\ image'[Primary] = Chosen(q).sb
                      /\ ValidSuperblock(image'[Primary])
    OBVIOUS
  <2>1. Move(q)
    BY DEF Next, Move, OneProcess, WriteBack, PowerLoss, Busy, TypeOK
  <2>2. Verify(q)
    <3> USE DEF TypeOK, Goto, Return, CloseAndReturn, Busy, AtRest
    <3>1. ~BadIndex(q) /\ ~Start(q) /\ ~Open(q) /\ ~ReadMore(q) /\ ~ReadFails(q)
      BY DEF BadIndex, Start, Open, ReadMore, ReadFails
    <3>2. ~PrimaryRead(q) /\ ~OffsetFails(q) /\ ~ReadBackup(q) /\ ~AppendFails(q)
      BY DEF PrimaryRead, OffsetFails, ReadBackup, AppendFails
    <3>3. ~WriteFails(q)
      BY DEF WriteFails
    <3>9. ~Decline(q)
      <4>1. Decline(q) => status' = [status EXCEPT ![q] = 1]
        BY DEF Decline
      <4> QED  BY <4>1
    <3>7. ~Confirm(q)
      BY DEF Confirm
    <3>8. ~Crash(q)
      BY DEF Crash
    <3>6. ~WriteParts(q)
      BY DEF WriteParts
    <3>4. ~Select(q)
      BY DEF Select
    <3>5. ~Discovered(q)
      BY DEF Discovered, ControlInv, ControlAt
    <3> QED  BY <2>1, <3>1, <3>2, <3>3, <3>4, <3>5, <3>6, <3>7, <3>8, <3>9
         DEF Move, Step
  <2>3. confirmed[q] /\ Restorable(Chosen(q)) /\ image[Primary] = Chosen(q).sb
    BY <2>2 DEF Verify, ControlInv, ControlAt, WholeAt
  <2>4. image' = image
    BY <2>2 DEF Verify, disk
  <2> QED  BY <2>3, <2>4 DEF Restorable
<1> QED  BY <1>1, <1>2, <1>3, TypeAndControl, PTL DEF Spec, VerifiedIsWhole

-----------------------------------------------------------------------------
(* Induction *)

(* A set of numbers has a smallest.                                        *)
LEMMA Smallest ==
    ASSUME NEW S \in SUBSET Nat, S # {}
    PROVE  \E m \in S : \A k \in S : m <= k
<1> DEFINE below == {0..n : n \in S}
<1>1. below \subseteq FiniteSubsetsOf(Nat) /\ below # {}
    <2>1. \A n \in Nat : IsFiniteSet(0..n) /\ 0..n \in SUBSET Nat
        BY FS_Interval
    <2> QED BY <2>1 DEF FiniteSubsetsOf
<1>2. PICK x \in below : \A y \in below : <<y, x>> \notin StrictSubsetOrdering(Nat)
    <2> HIDE DEF below
    <2> QED
    BY <1>1, FS_StrictSubsetOrderingWellFounded, WFMin
<1>3. PICK m \in S : x = 0..m
    OBVIOUS
<1>4. ASSUME NEW k \in S, k < m PROVE FALSE
    <2>1. 0..k \subseteq 0..m /\ 0..k # 0..m
        <3>1. m \in 0..m /\ m \notin 0..k
            BY <1>4
        <3> QED BY <1>4, <3>1
    <2>2. <<0..k, 0..m>> \in StrictSubsetOrdering(Nat)
        BY <2>1 DEF StrictSubsetOrdering
    <2> QED
        BY <1>2, <1>3, <2>2
<1> QED
    BY <1>4

(* Induction.                                                              *)
LEMMA Induction ==
    ASSUME NEW S, 0 \in S, \A n \in Nat : n \in S => n + 1 \in S
    PROVE  Nat \subseteq S
<1> SUFFICES ASSUME Nat \ S # {} PROVE FALSE
    OBVIOUS
<1>1. PICK m \in Nat \ S : \A k \in Nat \ S : m <= k
    BY Smallest
<1>2. m # 0 /\ m - 1 \in Nat /\ m - 1 + 1 = m
    BY <1>1
<1> QED
    BY <1>1, <1>2

-----------------------------------------------------------------------------
(* The groups that have a backup *)

(* The powers of a number: 1, and with every power its product.            *)
PowersOf(base) ==
    {v \in Nat : \A S \in SUBSET Nat :
        1 \in S /\ (\A m \in S : base * m \in S) => v \in S}

(* The loop of is_power_of for the values of a set.                        *)
Strips(f, base, S) ==
    f = [v \in S |-> IF v # 0 /\ v % base = 0 THEN f[v \div base] ELSE v]

(* Division, for the bases that are used.                                  *)
LEMMA Divided ==
    ASSUME NEW base \in {3, 5, 7}, NEW v \in Nat \ {0}
    PROVE  /\ v \div base \in Nat /\ v \div base < v
           /\ v % base = 0 => v = base * (v \div base) /\ v \div base # 0
<1>1. CASE base = 3
    BY <1>1, Z3
<1>2. CASE base = 5
    BY <1>2, Z3
<1>3. CASE base = 7
    BY <1>3, Z3
<1> QED
    BY <1>1, <1>2, <1>3

(* Multiplication and division undo each other. *)
LEMMA Multiplied ==
    ASSUME NEW base \in {3, 5, 7}, NEW m \in Nat
    PROVE  /\ base * m \in Nat /\ (base * m) % base = 0 /\ (base * m) \div base = m
           /\ m # 0 => base * m # 0
           /\ 1 % base # 0
<1>1. CASE base = 3
    BY <1>1, Z3
<1>2. CASE base = 5
    BY <1>2, Z3
<1>3. CASE base = 7
    BY <1>3, Z3
<1> QED
    BY <1>1, <1>2, <1>3

(* Results for the values up to two bounds agree. *)
LEMMA StripsAgree ==
    ASSUME NEW base \in {3, 5, 7}, NEW m \in Nat, NEW n \in Nat,
           NEW f, NEW g, Strips(f, base, 0..m), Strips(g, base, 0..n)
    PROVE  \A v \in (0..m) \cap (0..n) : f[v] = g[v]
<1> DEFINE bad == {v \in (0..m) \cap (0..n) : f[v] # g[v]}
<1> SUFFICES ASSUME bad # {} PROVE FALSE
    OBVIOUS
<1>0. bad \in SUBSET Nat
    OBVIOUS
<1>1. PICK v \in bad : \A k \in bad : v <= k
  <2> HIDE DEF bad
  <2> QED BY <1>0, Smallest
<1>2. /\ f[v] = IF v # 0 /\ v % base = 0 THEN f[v \div base] ELSE v
      /\ g[v] = IF v # 0 /\ v % base = 0 THEN g[v \div base] ELSE v
    BY DEF Strips
<1>3. v # 0 /\ v % base = 0
    BY <1>2
<1>4. v \in Nat /\ v <= m /\ v <= n
    OBVIOUS
<1>5. v \div base \in Nat /\ v \div base < v
    BY <1>3, <1>4, Divided
<1>6. v \div base \in (0..m) \cap (0..n)
  <2> DEFINE w == v \div base
  <2>1. w \in Nat /\ w < v
      BY <1>5
  <2> HIDE DEF w
  <2>2. w \in 0..m /\ w \in 0..n
      BY <2>1, <1>4
  <2> QED BY <2>2 DEF w
<1>7. v \div base \notin bad
    BY <1>1, <1>4, <1>5
<1> QED
    BY <1>2, <1>3, <1>6, <1>7

(* The loop has a result for the values up to every bound. *)
LEMMA StripsUpTo ==
    ASSUME NEW base \in {3, 5, 7}
    PROVE  \A n \in Nat : \E f : Strips(f, base, 0..n)
<1> DEFINE S == {n \in Nat : \E f : Strips(f, base, 0..n)}
<1>1. 0 \in S
  <2> DEFINE f == [v \in 0..0 |-> 0]
  <2>1. Strips(f, base, 0..0)
      BY DEF Strips
  <2> QED BY <2>1
<1>2. ASSUME NEW n \in Nat, n \in S PROVE n + 1 \in S
  <2>1. PICK f : Strips(f, base, 0..n)
      BY <1>2
  <2> DEFINE next == IF (n + 1) % base = 0 THEN f[(n + 1) \div base] ELSE n + 1
             g == [v \in 0..(n + 1) |-> IF v = n + 1 THEN next ELSE f[v]]
  <2>2. ASSUME NEW v \in 0..(n + 1)
        PROVE  g[v] = IF v # 0 /\ v % base = 0 THEN g[v \div base] ELSE v
    <3>1. CASE v = n + 1
      <4>1. (n + 1) \div base \in Nat /\ (n + 1) \div base < n + 1
          BY Divided
      <4> DEFINE w == (n + 1) \div base
      <4>2. w \in 0..(n + 1) /\ w # n + 1
        <5>1. w \in Nat /\ w < n + 1
            BY <4>1
        <5> HIDE DEF w
        <5> QED BY <5>1
      <4>3. g[w] = f[w]
        <5> HIDE DEF w, next
        <5> QED BY <4>2
      <4> HIDE DEF w
      <4>4. g[n + 1] = next
        <5> HIDE DEF next
        <5> QED OBVIOUS
      <4>5. n + 1 # 0
          OBVIOUS
      <4> HIDE DEF g
      <4> QED
          BY <3>1, <4>3, <4>4, <4>5 DEF w
    <3>2. CASE v # n + 1
      <4>1. v \in 0..n
          BY <3>2
      <4>2. g[v] = f[v]
        <5> HIDE DEF next
        <5> QED BY <3>2
      <4>3. f[v] = IF v # 0 /\ v % base = 0 THEN f[v \div base] ELSE v
          BY <2>1, <4>1 DEF Strips
      <4>4. ASSUME v # 0 PROVE g[v \div base] = f[v \div base]
        <5> DEFINE w == v \div base
        <5>1. w \in Nat /\ w < v
            BY <4>4, Divided
        <5> HIDE DEF w, next
        <5>2. w \in 0..(n + 1) /\ w # n + 1
            BY <5>1, <4>1
        <5>3. g[w] = f[w]
            BY <5>2
        <5> QED BY <5>3 DEF w
      <4> HIDE DEF g
      <4> QED
          BY <4>2, <4>3, <4>4
    <3> QED BY <3>1, <3>2
  <2>3. g = [v \in 0..(n + 1) |-> g[v]]
      OBVIOUS
  <2> HIDE DEF g
  <2>4. Strips(g, base, 0..(n + 1))
      BY <2>2, <2>3 DEF Strips
  <2> QED BY <2>4
<1>3. Nat \subseteq S
  <2> HIDE DEF S
  <2> QED BY <1>1, <1>2, Induction
<1> QED
    BY <1>3

(* The loop has a result for every value. *)
LEMMA StripsExists ==
    ASSUME NEW base \in {3, 5, 7}
    PROVE  \E f : Strips(f, base, Nat)
<1> DEFINE upTo(n) == CHOOSE f : Strips(f, base, 0..n)
           f == [v \in Nat |-> upTo(v)[v]]
<1>1. \A n \in Nat : Strips(upTo(n), base, 0..n)
    BY StripsUpTo
<1> HIDE DEF upTo
<1>2. ASSUME NEW v \in Nat
      PROVE  f[v] = IF v # 0 /\ v % base = 0 THEN f[v \div base] ELSE v
  <2>1. v \in 0..v /\ f[v] = upTo(v)[v]
      OBVIOUS
  <2>2. upTo(v)[v] = IF v # 0 /\ v % base = 0 THEN upTo(v)[v \div base] ELSE v
      BY <1>1, <2>1 DEF Strips
  <2>3. ASSUME v # 0 PROVE f[v \div base] = upTo(v)[v \div base]
    <3> DEFINE w == v \div base
    <3>1. w \in Nat /\ w < v
        BY <2>3, Divided
    <3> HIDE DEF w
    <3>2. w \in (0..w) \cap (0..v)
        BY <3>1
    <3>3. upTo(w)[w] = upTo(v)[w]
        BY <1>1, <3>1, <3>2, StripsAgree
    <3>4. f[w] = upTo(w)[w]
        BY <3>1
    <3> QED BY <3>3, <3>4 DEF w
  <2> HIDE DEF f
  <2> QED
      BY <2>1, <2>2, <2>3
<1>3. f = [v \in Nat |-> f[v]]
    OBVIOUS
<1> HIDE DEF f
<1>4. Strips(f, base, Nat)
    BY <1>2, <1>3 DEF Strips
<1> QED BY <1>4

(* IsPowerOf is the test of that result. *)
LEMMA PowerUnfolded ==
    ASSUME NEW base \in {3, 5, 7}
    PROVE  \E f : /\ \A v \in Nat : f[v] = IF v # 0 /\ v % base = 0 THEN f[v \div base] ELSE v
                  /\ \A v \in Nat : IsPowerOf(v, base) <=> v >= 1 /\ f[v] = 1
<1> DEFINE f == CHOOSE f : Strips(f, base, Nat)
<1>1. Strips(f, base, Nat)
    BY StripsExists
<1>2. \A v \in Nat : IsPowerOf(v, base) <=> v >= 1 /\ f[v] = 1
    BY DEF IsPowerOf, Strips
<1> HIDE DEF f
<1>3. \A v \in Nat : f[v] = IF v # 0 /\ v % base = 0 THEN f[v \div base] ELSE v
    BY <1>1 DEF Strips
<1> QED BY <1>2, <1>3

(* The loop of is_power_of divides as long as it can and finds exactly the *)
(* powers of the base (ext4_backup.c:13).                                  *)
LEMMA PowersFound ==
    ASSUME NEW base \in {3, 5, 7}, NEW value \in Nat
    PROVE  IsPowerOf(value, base) <=> value \in PowersOf(base)
<1>1. PICK f : /\ \A v \in Nat : f[v] = IF v # 0 /\ v % base = 0 THEN f[v \div base] ELSE v
               /\ \A v \in Nat : IsPowerOf(v, base) <=> v >= 1 /\ f[v] = 1
    BY PowerUnfolded
<1>2. ASSUME IsPowerOf(value, base),
             NEW S \in SUBSET Nat, 1 \in S, \A m \in S : base * m \in S
      PROVE  value \in S
  <2> DEFINE bad == {v \in Nat : v >= 1 /\ f[v] = 1 /\ v \notin S}
  <2> SUFFICES ASSUME bad # {} PROVE FALSE
      BY <1>1, <1>2
  <2>1. PICK v \in bad : \A k \in bad : v <= k
    <3>1. bad \in SUBSET Nat
        OBVIOUS
    <3> HIDE DEF bad
    <3> QED BY <3>1, Smallest
  <2>2. v \in Nat \ {0} /\ f[v] = 1 /\ v \notin S
      OBVIOUS
  <2> DEFINE w == v \div base
  <2>3. w \in Nat /\ w < v /\ (v % base = 0 => v = base * w /\ w # 0)
      BY <2>2, Divided
  <2>4. f[v] = IF v % base = 0 THEN f[w] ELSE v
      BY <1>1, <2>2
  <2> HIDE DEF w
  <2>5. v % base = 0
      BY <2>2, <2>4, <1>2
  <2>6. w >= 1 /\ f[w] = 1 /\ v = base * w
      BY <2>2, <2>3, <2>4, <2>5
  <2>7. w \notin bad
      BY <2>1, <2>2, <2>3
  <2>8. w \in S
      BY <2>3, <2>6, <2>7
  <2> QED
      BY <1>2, <2>2, <2>6, <2>8
<1>3. ASSUME value \in PowersOf(base) PROVE IsPowerOf(value, base)
  <2> DEFINE S == {v \in Nat : v >= 1 /\ f[v] = 1}
  <2>1. 1 \in S
    <3>1. f[1] = 1
        BY <1>1, Multiplied, 0 \in Nat
    <3> QED BY <3>1
  <2>2. ASSUME NEW m \in S PROVE base * m \in S
    <3>0. m \in Nat /\ m # 0 /\ f[m] = 1
        OBVIOUS
    <3> DEFINE b == base * m
    <3>1. b \in Nat /\ b % base = 0 /\ b \div base = m /\ b # 0
        BY <3>0, Multiplied
    <3> HIDE DEF b
    <3>2. f[b] = f[b \div base]
        BY <1>1, <3>1
    <3>3. b \in S
        BY <3>0, <3>1, <3>2
    <3> QED BY <3>3 DEF b
  <2>3. S \in SUBSET Nat
      OBVIOUS
  <2> HIDE DEF S
  <2>4. value \in S
      BY <1>3, <2>1, <2>2, <2>3 DEF PowersOf
  <2> QED BY <2>4, <1>1 DEF S
<1> QED
    BY <1>2, <1>3 DEF PowersOf

(* The groups in which discovery looks for a backup are those the format   *)
(* puts one in: group 1 and the powers of 3, 5 and 7 (ext4_backup.c:26).   *)
THEOREM SparseGroups ==
    ASSUME NEW sb
    PROVE  BackupGroups(sb) =
               {g \in 1..(GroupQuotient(BlocksCount(sb), sb["blocks_per_group"]) - 1) :
                   g = 1 \/ \E base \in {3, 5, 7} : g \in PowersOf(base)}
<1> SUFFICES ASSUME NEW g \in 1..(GroupQuotient(BlocksCount(sb), sb["blocks_per_group"]) - 1)
             PROVE  HasSparseSuper(g) <=> (g = 1 \/ \E base \in {3, 5, 7} : g \in PowersOf(base))
    BY DEF BackupGroups
<1>1. g \in Nat /\ g # 0
    OBVIOUS
<1> QED
    BY <1>1, PowersFound DEF HasSparseSuper
=============================================================================

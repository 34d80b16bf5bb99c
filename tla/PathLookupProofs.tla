------------------------- MODULE PathLookupProofs --------------------------
(***************************************************************************)
(* Proofs about PathLookup for every image, every path and every failure:  *)
(* a path leads where the directories say, and an error without a failure  *)
(* is the path's or the directory's own.                                   *)
(***************************************************************************)
EXTENDS PathLookup, FiniteSetTheorems, SequenceTheorems, WellFoundedInduction, TLAPS

-----------------------------------------------------------------------------
(* Induction *)

(* A set of numbers has a smallest.                                        *)
LEMMA Smallest ==
    ASSUME NEW S \in SUBSET Nat, S # {}
    PROVE  \E m \in S : \A k \in S : m <= k
<1> DEFINE below == {0..n : n \in S}
<1>1. below \subseteq FiniteSubsetsOf(Nat) /\ below # {}
    <2>1. \A n \in Nat : IsFiniteSet(0..n) /\ 0..n \in SUBSET Nat
        BY FS_Interval
    <2> QED BY <2>1 DEF FiniteSubsetsOf
<1>2. PICK x \in below : \A y \in below : <<y, x>> \notin StrictSubsetOrdering(Nat)
    <2> HIDE DEF below
    <2> QED
    BY <1>1, FS_StrictSubsetOrderingWellFounded, WFMin
<1>3. PICK m \in S : x = 0..m
    OBVIOUS
<1>4. ASSUME NEW k \in S, k < m PROVE FALSE
    <2>1. 0..k \subseteq 0..m /\ 0..k # 0..m
        <3>1. m \in 0..m /\ m \notin 0..k
            BY <1>4
        <3> QED BY <1>4, <3>1
    <2>2. <<0..k, 0..m>> \in StrictSubsetOrdering(Nat)
        BY <2>1 DEF StrictSubsetOrdering
    <2> QED
        BY <1>2, <1>3, <2>2
<1> QED
    BY <1>4

(* Induction.                                                              *)
LEMMA Induction ==
    ASSUME NEW S, 0 \in S, \A n \in Nat : n \in S => n + 1 \in S
    PROVE  Nat \subseteq S
<1> SUFFICES ASSUME Nat \ S # {} PROVE FALSE
    OBVIOUS
<1>1. PICK m \in Nat \ S : \A k \in Nat \ S : m <= k
    BY Smallest
<1>2. m # 0 /\ m - 1 \in Nat /\ m - 1 + 1 = m
    BY <1>1
<1> QED
    BY <1>1, <1>2

-----------------------------------------------------------------------------
(* Directories *)

(* An inode of the image. *)
LEMMA NodeType ==
    ASSUME image \in Images, NEW i \in Inode
    PROVE  /\ image[i] \in Node /\ image[i].blocks \in Seq(Block)
           /\ \A b \in 1..Len(image[i].blocks) : /\ image[i].blocks[b] \in Block
                                                 /\ image[i].blocks[b].records \in Seq(Record)
<1>1. image[i] \in Node
    BY PathLookupAssumption
<1>2. image[i].blocks \in Seq(Block)
    BY <1>1 DEF Node
<1>3. \A b \in Block : b.records \in Seq(Record)
    BY DEF Block
<1> QED
    BY <1>1, <1>2, <1>3

(* The inode of the record at a place of directory i.                      *)
Of(i, p) == image[i].blocks[p[1]].records[p[2]].inode

(* The records parsed in a block are among those it has.                   *)
LEMMA ParsedRecords ==
    ASSUME NEW b \in Block
    PROVE  \A n \in Parsed(b) : n \in 1..Len(b.records) /\ b.records[n] \in Record
<1>1. b.records \in Seq(Record)
    BY DEF Block
<1> QED
    BY <1>1 DEF Parsed

(* What Named collects. *)
LEMMA NamedRecords ==
    ASSUME image \in Images, NEW i \in Inode, NEW name
    PROVE  /\ \A p : p \in Named(i, name) <=>
                \E b \in 1..Len(image[i].blocks) : \E n \in Parsed(image[i].blocks[b]) :
                    p = <<b, n>> /\ Matches(image[i].blocks[b].records[n], name)
           /\ \A p \in Named(i, name) : /\ p \in Nat \X Nat /\ p[1] \in 1..Len(image[i].blocks)
                                        /\ Of(i, p) \in Inode
<1>1. \A p : p \in Named(i, name) <=>
                \E b \in 1..Len(image[i].blocks) : \E n \in Parsed(image[i].blocks[b]) :
                    p = <<b, n>> /\ Matches(image[i].blocks[b].records[n], name)
    BY DEF Named, Matches
<1>2. ASSUME NEW p \in Named(i, name)
      PROVE  p \in Nat \X Nat /\ p[1] \in 1..Len(image[i].blocks) /\ Of(i, p) \in Inode
  <2>1. PICK b \in 1..Len(image[i].blocks) : \E n \in Parsed(image[i].blocks[b]) :
                    p = <<b, n>> /\ Matches(image[i].blocks[b].records[n], name)
      BY <1>1
  <2>2. PICK n \in Parsed(image[i].blocks[b]) :
                    p = <<b, n>> /\ Matches(image[i].blocks[b].records[n], name)
      BY <2>1
  <2>3. image[i].blocks[b] \in Block
      BY NodeType
  <2>4. n \in Nat /\ b \in Nat /\ image[i].blocks[b].records[n] \in Record
      BY <2>3, ParsedRecords
  <2>5. Of(i, p) = image[i].blocks[b].records[n].inode
      BY <2>2 DEF Of
  <2>6. Of(i, p) \in Inode
      BY <2>2, <2>4, <2>5 DEF Matches, Record
  <2> QED
      BY <2>2, <2>4, <2>6
<1> QED
    BY <1>1, <1>2

(* The last block counts, and in it the first record.                      *)
Best(p, found) ==
    p \in found /\ \A q \in found : q[1] < p[1] \/ (q[1] = p[1] /\ p[2] <= q[2])

(* There is one such record, if there is any at all, and Preferred is it.  *)
LEMMA BestIsPreferred ==
    ASSUME NEW found \in SUBSET (Nat \X Nat), NEW p, Best(p, found)
    PROVE  Preferred(found) = p
<1>1. \A q \in found : Best(q, found) => q = p
  <2> SUFFICES ASSUME NEW q \in found, Best(q, found) PROVE q = p
      OBVIOUS
  <2>1. p \in Nat \X Nat /\ q \in Nat \X Nat
      BY DEF Best
  <2>2. q[1] < p[1] \/ (q[1] = p[1] /\ p[2] <= q[2])
      BY DEF Best
  <2>3. p[1] < q[1] \/ (p[1] = q[1] /\ q[2] <= p[2])
      BY DEF Best
  <2> QED
      BY <2>1, <2>2, <2>3
<1>2. Best(Preferred(found), found)
    BY DEF Best, Preferred
<1> QED
    BY <1>1, <1>2 DEF Best

LEMMA BestExists ==
    ASSUME NEW k \in Nat, NEW found \in SUBSET (Nat \X Nat), found # {}, \A p \in found : p[1] <= k
    PROVE  Best(Preferred(found), found)
<1> DEFINE far == {k - p[1] : p \in found}
<1>1. \A p \in found : k - p[1] \in Nat /\ p[1] \in Nat /\ p[2] \in Nat
    OBVIOUS
<1>2. PICK d \in far : \A e \in far : d <= e
  <2>1. far \in SUBSET Nat /\ far # {}
      BY <1>1
  <2> HIDE DEF far
  <2> QED
      BY <2>1, Smallest
<1>3. PICK r \in found : d = k - r[1]
    OBVIOUS
<1>4. \A q \in found : q[1] <= r[1]
  <2>1. \A q \in found : k - r[1] <= k - q[1]
      BY <1>2, <1>3
  <2> HIDE DEF far
  <2> QED
      BY <1>1, <2>1
<1> HIDE DEF far
<1> DEFINE near == {p[2] : p \in {q \in found : q[1] = r[1]}}
<1>5. PICK n \in near : \A m \in near : n <= m
  <2>1. near \in SUBSET Nat /\ near # {}
      BY <1>1
  <2> HIDE DEF near
  <2> QED
      BY <2>1, Smallest
<1>6. PICK p \in found : p[1] = r[1] /\ p[2] = n
    OBVIOUS
<1>7. Best(p, found)
  <2>1. \A q \in found : q[1] = r[1] => p[2] <= q[2]
      BY <1>5, <1>6
  <2> QED
      BY <1>1, <1>4, <1>6, <2>1 DEF Best
<1> QED
    BY <1>7, BestIsPreferred

-----------------------------------------------------------------------------
(* The invariant *)

(* What is left of the path, and the component it begins with.             *)
LEMMA RestOfPath ==
    ASSUME TypeOK
    PROVE  /\ path \in Seq(Component) /\ Len(path) \in Nat
           /\ Resolved \in 0..Len(path) /\ Len(rest) \in Nat
           /\ rest = << >> => Resolved = Len(path)
           /\ rest # << >> => /\ Resolved < Len(path)
                              /\ Head(rest) = path[Resolved + 1] /\ Head(rest) \in Component
                              /\ Tail(rest) = SubSeq(path, Resolved + 2, Len(path))
                              /\ Len(Tail(rest)) = Len(rest) - 1
<1>1. path \in Seq(Component) /\ Len(path) \in Nat
  <2>1. path \in Paths
      BY DEF TypeOK
  <2>2. path \in Seq(Component)
      BY <2>1, PathLookupAssumption
  <2> QED
      BY <2>2, LenProperties
<1>2. PICK n \in 1..(Len(path) + 1) : rest = SubSeq(path, n, Len(path))
    BY DEF TypeOK
<1>3. n \in Nat /\ rest \in Seq(Component) /\ Len(rest) = Len(path) + 1 - n
  <2>1. CASE n = Len(path) + 1
      BY <1>1, <1>2, <2>1, SubSeqProperties
  <2>2. CASE n <= Len(path)
      BY <1>1, <1>2, <2>2, SubSeqProperties
  <2> QED BY <1>1, <1>2, <2>1, <2>2
<1>4. Resolved = n - 1
    BY <1>1, <1>3 DEF Resolved
<1>5. CASE rest = << >>
    BY <1>1, <1>2, <1>3, <1>4, <1>5
<1>6. CASE rest # << >>
  <2>1. Len(rest) >= 1
      BY <1>3, <1>6, EmptySeq
  <2>2. n <= Len(path)
      BY <1>1, <1>3, <2>1
  <2>3. Head(rest) = path[n]
      BY <1>1, <1>2, <1>3, <2>2, SubSeqProperties
  <2>4. Tail(rest) = SubSeq(path, n + 1, Len(path))
      BY <1>1, <1>2, <1>3, <2>2
  <2>5. Len(Tail(rest)) = Len(rest) - 1
      BY <1>3, <1>6
  <2>6. Head(rest) \in Component
      BY <1>1, <2>2, <2>3, <1>3, ElementOfSeq
  <2>7. n = Resolved + 1 /\ n + 1 = Resolved + 2
      BY <1>4, <1>3
  <2> QED
      BY <1>1, <1>3, <1>4, <1>6, <2>2, <2>3, <2>4, <2>5, <2>6, <2>7
<1> QED
    BY <1>5, <1>6

(* Where component c leads from inode i: one unfolding of Leads.           *)
Step(i, c) ==
    IF i = 0 \/ c = "too_long" THEN 0
    ELSE IF c \in {".", ""} THEN i
    ELSE IF ~image[i].dir \/ Named(i, c) = {} THEN 0
    ELSE Of(i, Preferred(Named(i, c)))

(* The inodes the resolved components lead through.                        *)
Trail ==
    faults = {} \/ NamesAreUnique =>
        \E t \in [0..Resolved -> Inode] :
            /\ t[0] = Root /\ t[Resolved] = current
            /\ \A n \in 1..Resolved : t[n] = Step(t[n - 1], path[n])

(* The records under the name looked for in the blocks already visited.    *)
Seen == {p \in Named(current, Head(rest)) : p[1] < block}

(* What has been found is one of them, without failures the best of them.  *)
Finding ==
    pc = "find" =>
        /\ rest # << >> /\ Head(rest) \in Name /\ image[current].dir
        /\ hit # {} => \E p \in Seen : hit = {Of(current, p)} /\ (faults = {} => Best(p, Seen))
        /\ hit = {} /\ faults = {} => Seen = {}

Defective(b) == \E n \in Parsed(b) : b.records[n].defect # "none"

(* Without failures an error has its cause where the command stands.       *)
Cause ==
    /\ pc = "list" => rest = << >>
    /\ pc = "list" /\ failed /\ faults = {} =>
        \E b \in 1..(block - 1) : Defective(image[current].blocks[b])
    /\ pc = "done" /\ result = 1 /\ faults = {} =>
        \/ rest # << >> /\ Step(current, Head(rest)) = 0
        \/ rest = << >> /\ ~image[current].dir
        \/ rest = << >> /\ \E b \in 1..Len(Blocks) : Defective(Blocks[b])

Inv == TypeOK /\ Trail /\ Finding /\ Cause

(* The image and the path stay what they are, and with them what a name    *)
(* leads to.                                                               *)
LEMMA Kept ==
    ASSUME UNCHANGED input
    PROVE  /\ image' = image /\ path' = path
           /\ \A i, name : Named(i, name)' = Named(i, name)
           /\ \A i, p : Of(i, p)' = Of(i, p)
           /\ \A i, c : Step(i, c)' = Step(i, c)
           /\ NamesAreUnique' <=> NamesAreUnique
<1>1. image' = image /\ path' = path
    BY DEF input
<1>2. \A i, name : Named(i, name)' = Named(i, name)
    BY <1>1 DEF Named, Parsed
<1>3. \A i, p : Of(i, p)' = Of(i, p)
    BY <1>1 DEF Of
<1>4. \A found : Preferred(found)' = Preferred(found)
    BY DEF Preferred
<1>5. \A i, c : Step(i, c)' = Step(i, c)
    BY <1>1, <1>2, <1>3, <1>4 DEF Step
<1>6. NamesAreUnique' <=> NamesAreUnique
    BY <1>1, <1>2 DEF NamesAreUnique
<1> QED
    BY <1>1, <1>2, <1>3, <1>5, <1>6

-----------------------------------------------------------------------------
(* The steps *)

LEMMA InitInv == Init => Inv
<1> SUFFICES ASSUME Init PROVE Inv
    OBVIOUS
<1>1. path \in Seq(Component) /\ Len(path) \in Nat /\ Root \in Inode /\ rest = path
    BY PathLookupAssumption, LenProperties DEF Init
<1>2. rest = SubSeq(path, 1, Len(path))
    BY <1>1, SubSeqFull
<1>3. TypeOK
  <2>1. 1 \in 1..(Len(path) + 1)
      BY <1>1
  <2> QED BY <1>1, <1>2, <2>1 DEF Init, TypeOK
<1>4. Trail
  <2>1. Resolved = 0
      BY <1>1 DEF Resolved
  <2> DEFINE t == [n \in 0..0 |-> Root]
  <2>2. t \in [0..0 -> Inode] /\ t[0] = Root
      BY <1>1
  <2>3. 1..0 = {}
      OBVIOUS
  <2> HIDE DEF t
  <2>4. Root = current
      BY DEF Init
  <2> QED
      BY <2>1, <2>2, <2>3, <2>4 DEF Trail
<1>5. Finding /\ Cause
    BY DEF Init, Finding, Cause
<1> QED
    BY <1>3, <1>4, <1>5 DEF Inv

(* A step that leaves the path and the place in the tree alone keeps the   *)
(* trail.                                                                  *)
LEMMA SameTrail ==
    ASSUME Trail, UNCHANGED <<input, rest, current>>, faults \subseteq faults'
    PROVE  Trail'
<1>1. /\ image' = image /\ path' = path
      /\ \A i, c : Step(i, c)' = Step(i, c)
      /\ NamesAreUnique' <=> NamesAreUnique
    BY Kept
<1>2. Resolved' = Resolved
    BY <1>1 DEF Resolved
<1>3. faults' = {} => faults = {}
    OBVIOUS
<1> QED
    BY <1>1, <1>2, <1>3 DEF Trail

(* A step along the path extends the trail.                                *)
LEMMA LongerTrail ==
    ASSUME TypeOK, Trail, UNCHANGED <<input, faults>>, rest # << >>, rest' = Tail(rest),
           current' \in Inode,
           faults = {} \/ NamesAreUnique => current' = Step(current, Head(rest))
    PROVE  Trail'
<1>1. /\ image' = image /\ path' = path
      /\ \A i, c : Step(i, c)' = Step(i, c)
      /\ NamesAreUnique' <=> NamesAreUnique
    BY Kept
<1>2. /\ Resolved \in Nat /\ Len(path) \in Nat /\ Len(rest) \in Nat
      /\ Head(rest) = path[Resolved + 1] /\ Len(Tail(rest)) = Len(rest) - 1
    BY RestOfPath
<1>3. Resolved' = Resolved + 1
  <2>1. Resolved' = Len(path) - Len(Tail(rest))
      BY <1>1 DEF Resolved
  <2> QED
      BY <1>2, <2>1 DEF Resolved
<1> SUFFICES ASSUME faults = {} \/ NamesAreUnique
             PROVE  \E t \in [0..(Resolved + 1) -> Inode] :
                        /\ t[0] = Root /\ t[Resolved + 1] = current'
                        /\ \A n \in 1..(Resolved + 1) : t[n] = Step(t[n - 1], path[n])
    BY <1>1, <1>3 DEF Trail
<1>4. PICK t \in [0..Resolved -> Inode] :
            /\ t[0] = Root /\ t[Resolved] = current
            /\ \A n \in 1..Resolved : t[n] = Step(t[n - 1], path[n])
    BY DEF Trail
<1> DEFINE u == [n \in 0..(Resolved + 1) |-> IF n <= Resolved THEN t[n] ELSE current']
<1>5. u \in [0..(Resolved + 1) -> Inode]
    BY <1>2, <1>4
<1>6. u[0] = Root /\ u[Resolved + 1] = current'
    BY <1>2, <1>4
<1>7. \A n \in 1..(Resolved + 1) : u[n] = Step(u[n - 1], path[n])
  <2> TAKE n \in 1..(Resolved + 1)
  <2>1. CASE n <= Resolved
    <3>1. u[n] = t[n] /\ u[n - 1] = t[n - 1] /\ n \in 1..Resolved
        BY <1>2, <2>1
    <3> QED
        BY <1>4, <3>1
  <2>2. CASE n = Resolved + 1
    <3>1. u[n] = current' /\ u[n - 1] = current
        BY <1>2, <1>4, <2>2
    <3> QED
        BY <1>2, <2>2, <3>1
  <2> QED
      BY <1>2, <2>1, <2>2
<1> HIDE DEF u
<1> QED
    BY <1>5, <1>6, <1>7

(* The type of the place in the directory being visited.                   *)
LEMMA PlaceType ==
    ASSUME TypeOK, pc \in {"find", "list"}
    PROVE  /\ block \in Nat /\ Len(Blocks) \in Nat /\ block \in 1..(Len(Blocks) + 1)
           /\ \A b \in 1..Len(Blocks) : Blocks[b] \in Block
<1>1. image \in Images /\ current \in Inode
    BY DEF TypeOK
<1>2. Blocks \in Seq(Block)
    BY <1>1, NodeType DEF Blocks
<1>3. block \in 1..(Len(Blocks) + 1)
    BY DEF TypeOK, Blocks
<1> QED
    BY <1>1, <1>2, <1>3, NodeType, LenProperties DEF Blocks

(* What follows in one step is a suffix of the path, too.                  *)
LEMMA NextComponent ==
    ASSUME TypeOK, rest # << >>
    PROVE  \E n \in 1..(Len(path) + 1) : Tail(rest) = SubSeq(path, n, Len(path))
<1>1. Resolved + 2 \in 1..(Len(path) + 1) /\ Tail(rest) = SubSeq(path, Resolved + 2, Len(path))
    BY RestOfPath
<1> QED
    BY <1>1

LEMMA SkipComponentInv ==
    ASSUME Inv, SkipComponent PROVE Inv'
<1>1. /\ pc = "resolve" /\ rest # << >> /\ Head(rest) \in {".", ""} /\ rest' = Tail(rest)
      /\ UNCHANGED <<input, current, pc, block, failed, hit, printed, result, faults>>
    BY DEF SkipComponent
<1>2. image' = image /\ path' = path /\ TypeOK /\ Trail
    BY <1>1 DEF input, Inv
<1>3. TypeOK'
    BY <1>1, <1>2, NextComponent DEF TypeOK
<1>4. current' = Step(current, Head(rest))
    BY <1>1, <1>2, PathLookupAssumption DEF Step, TypeOK
<1>5. current' \in Inode
    BY <1>3 DEF TypeOK
<1>6. Trail'
    BY <1>1, <1>2, <1>4, <1>5, LongerTrail
<1>7. Finding' /\ Cause'
    BY <1>1 DEF Finding, Cause
<1> QED
    BY <1>3, <1>6, <1>7 DEF Inv

LEMMA NameTooLongInv ==
    ASSUME Inv, NameTooLong PROVE Inv'
<1>1. /\ pc = "resolve" /\ rest # << >> /\ Head(rest) = "too_long"
      /\ pc' = "done" /\ result' = 1
      /\ UNCHANGED <<input, rest, current, block, failed, hit, printed, faults>>
    BY DEF NameTooLong, Abort
<1>2. image' = image /\ path' = path /\ TypeOK /\ Trail
    BY <1>1 DEF input, Inv
<1>3. TypeOK'
    BY <1>1, <1>2 DEF TypeOK
<1>4. Trail'
    BY <1>1, <1>2, SameTrail
<1>5. Step(current, Head(rest)) = 0
    BY <1>1 DEF Step
<1>6. Step(current, Head(rest))' = 0
    BY <1>1, <1>5, Kept
<1>7. Finding' /\ Cause'
    BY <1>1, <1>6 DEF Finding, Cause
<1> QED
    BY <1>3, <1>4, <1>7 DEF Inv

(* What the beginning of a visit does, and what an aborted one leaves.     *)
LEMMA VisitInv ==
    ASSUME Inv, NEW label \in {"find", "list"}, Visit(label), pc = "resolve",
           UNCHANGED <<input, rest, current, printed>>,
           label = "find" => rest # << >> /\ Head(rest) \in Name,
           label = "list" => rest = << >>
    PROVE  Inv'
<1>1. image' = image /\ path' = path /\ TypeOK /\ Trail
    BY DEF input, Inv
<1>2. CASE /\ image[current].dir
           /\ pc' = label /\ block' = 1 /\ failed' = FALSE /\ hit' = {}
           /\ UNCHANGED <<result, faults>>
  <2>1. TypeOK'
    <3>1. image[current].blocks \in Seq(Block)
        BY <1>1, NodeType DEF TypeOK
    <3>2. 1 \in 1..(Len(image[current].blocks) + 1)
        BY <3>1, LenProperties
    <3> QED
        BY <1>1, <1>2, <3>2 DEF TypeOK
  <2>2. Trail'
      BY <1>1, <1>2, SameTrail
  <2>3. Seen' = {}
    <3>1. \A p \in Named(current, Head(rest)) : ~(p[1] < 1)
        BY <1>1, NamedRecords DEF TypeOK
    <3>2. Named(current, Head(rest))' = Named(current, Head(rest))
        BY Kept
    <3> QED
        BY <1>2, <3>1, <3>2 DEF Seen
  <2>4. Finding'
      BY <1>1, <1>2, <2>3 DEF Finding
  <2>5. Cause'
      BY <1>2 DEF Cause
  <2> QED
      BY <2>1, <2>2, <2>4, <2>5 DEF Inv
<1>3. CASE /\ (~image[current].dir /\ UNCHANGED faults) \/ Fault("inode")
           /\ Abort
           /\ UNCHANGED <<block, failed, hit>>
  <2>1. faults \subseteq faults' /\ faults' \subseteq {"inode", "block", "tree"}
      BY <1>1, <1>3 DEF Fault, TypeOK
  <2>2. TypeOK'
      BY <1>1, <1>3, <2>1 DEF TypeOK, Abort
  <2>3. Trail'
      BY <1>1, <2>1, SameTrail
  <2>4. Finding'
      BY <1>3 DEF Finding, Abort
  <2>5. faults' = {} => ~image[current].dir
      BY <1>3 DEF Fault
  <2>6. ASSUME ~image[current].dir, Head(rest) \in Name
        PROVE  Step(current, Head(rest))' = 0
    <3>1. current # 0 /\ Head(rest) \notin {".", "", "too_long"}
        BY <1>1, <2>6, PathLookupAssumption DEF TypeOK
    <3>2. Step(current, Head(rest)) = 0
        BY <2>6, <3>1 DEF Step
    <3> QED
        BY <3>2, Kept
  <2>7. Cause'
      BY <1>1, <1>3, <2>5, <2>6 DEF Cause, Abort
  <2> QED
      BY <2>2, <2>3, <2>4, <2>7 DEF Inv
<1> QED
    BY <1>2, <1>3 DEF Visit

LEMMA FindInBlockInv ==
    ASSUME Inv, FindInBlock PROVE Inv'
<1> DEFINE name == Head(rest)
           here == Blocks[block]
           matching == {n \in Parsed(here) : Matches(here.records[n], name)}
<1>1. /\ pc = "find" /\ block <= Len(Blocks) /\ block' = block + 1
      /\ UNCHANGED <<input, rest, current, pc, printed, result, faults>>
      /\ image' = image /\ path' = path
    BY DEF FindInBlock, input
<1>2. TypeOK /\ Trail /\ Finding
    BY DEF Inv
<1>3. /\ block \in Nat /\ Len(Blocks) \in Nat /\ block \in 1..Len(Blocks) /\ here \in Block
    BY <1>1, <1>2, PlaceType
<1>4. \A n \in Parsed(here) : n \in Nat /\ here.records[n] \in Record
    BY <1>3, ParsedRecords
<1>5. \/ \E n \in matching : /\ \A m \in matching : n <= m
                             /\ hit' = {here.records[n].inode} /\ failed' = TRUE
      \/ /\ matching = {} /\ hit' = hit
         /\ failed' = (failed \/ \E n \in Parsed(here) : here.records[n].defect # "none")
  <2> HIDE DEF matching
  <2> QED BY DEF FindInBlock, matching
<1>6. \A p : p \in Seen' <=> p \in Seen \/ \E n \in matching : p = <<block, n>>
  <2>1. Seen' = {p \in Named(current, name) : p[1] < block + 1}
    <3>1. Named(current, name)' = Named(current, name)
        BY <1>1, Kept
    <3> QED BY <1>1, <3>1 DEF Seen
  <2>2. image \in Images /\ current \in Inode
      BY <1>2 DEF TypeOK
  <2>3. \A p : p \in Named(current, name) <=>
            \E b \in 1..Len(Blocks) : \E n \in Parsed(Blocks[b]) :
                    p = <<b, n>> /\ Matches(Blocks[b].records[n], name)
      BY <2>2, NamedRecords DEF Blocks
  <2>4. \A p \in Named(current, name) : p[1] \in Nat
      BY <2>2, NamedRecords
  <2>5. \A p : p \in Named(current, name) /\ p[1] = block <=> \E n \in matching : p = <<block, n>>
      BY <1>3, <2>3
  <2>6. \A p \in Named(current, name) : p[1] < block + 1 <=> p[1] < block \/ p[1] = block
      BY <1>3, <2>4
  <2> HIDE DEF matching, here, name
  <2> QED
      BY <2>1, <2>5, <2>6 DEF Seen, name
<1>7. \A n \in matching : Of(current, <<block, n>>) = here.records[n].inode
    BY DEF Of, Blocks
<1>8. \A n \in matching : n \in Nat /\ here.records[n].inode \in Inode
  <2> TAKE n \in matching
  <2>1. n \in Nat /\ here.records[n] \in Record /\ here.records[n].inode # 0
      BY <1>4 DEF Matches
  <2> QED
      BY <2>1 DEF Record
<1>9. \A p \in Seen : p[1] \in Nat /\ p[1] < block
  <2>1. image \in Images /\ current \in Inode
      BY <1>2 DEF TypeOK
  <2> QED
      BY <2>1, NamedRecords DEF Seen
<1> HIDE DEF matching, here
<1>10. TypeOK'
  <2>1. block' \in 1..(Len(Blocks) + 1)
      BY <1>1, <1>3
  <2>2. hit' \in SUBSET Inode
      BY <1>2, <1>5, <1>8 DEF TypeOK
  <2>3. failed' \in BOOLEAN
      BY <1>2, <1>5 DEF TypeOK
  <2> QED
      BY <1>1, <1>2, <2>1, <2>2, <2>3 DEF TypeOK, Blocks
<1>11. Trail'
    BY <1>1, <1>2, SameTrail
<1>12. Finding'
  <2>1. rest' # << >> /\ Head(rest') \in Name /\ image'[current'].dir
      BY <1>1, <1>2 DEF Finding
  <2>2. \A i, p : Of(i, p)' = Of(i, p)
      BY <1>1, Kept
  <2>3. CASE \E n \in matching : /\ \A m \in matching : n <= m
                                 /\ hit' = {here.records[n].inode} /\ failed' = TRUE
    <3>1. PICK n \in matching : /\ \A m \in matching : n <= m
                                /\ hit' = {here.records[n].inode}
        BY <2>3
    <3>2. <<block, n>> \in Seen' /\ hit' = {Of(current, <<block, n>>)}
        BY <1>6, <1>7, <3>1
    <3>3. Best(<<block, n>>, Seen')
      <4>1. \A q \in Seen' : q[1] < block \/ (q[1] = block /\ n <= q[2])
          BY <1>6, <1>9, <3>1
      <4> QED
          BY <3>2, <4>1 DEF Best
    <3> QED
        BY <1>1, <2>1, <2>2, <3>2, <3>3 DEF Finding, Best
  <2>4. CASE matching = {} /\ hit' = hit
    <3>1. Seen' = Seen
        BY <1>6, <2>4
    <3> QED
        BY <1>1, <1>2, <2>1, <2>2, <2>4, <3>1 DEF Finding, Best
  <2> QED
      BY <1>5, <2>3, <2>4
<1>13. Cause'
    BY <1>1 DEF Cause
<1> QED
    BY <1>10, <1>11, <1>12, <1>13 DEF Inv

LEMMA ListBlockInv ==
    ASSUME Inv, ListBlock PROVE Inv'
<1> DEFINE here == Blocks[block]
           shown == {<<block, n>> : n \in {k \in Parsed(here) :
                        here.records[k].inode # 0 \/ here.records[k].defect # "none"}}
<1>1. /\ pc = "list" /\ block <= Len(Blocks) /\ block' = block + 1
      /\ printed' = printed \cup shown
      /\ failed' = (failed \/ \E n \in Parsed(here) : here.records[n].defect # "none")
      /\ UNCHANGED <<input, rest, current, pc, hit, result, faults>>
      /\ image' = image /\ path' = path
    BY DEF ListBlock, input
<1>2. TypeOK /\ Trail /\ Cause
    BY DEF Inv
<1>3. /\ block \in Nat /\ Len(Blocks) \in Nat /\ block \in 1..Len(Blocks) /\ here \in Block
    BY <1>1, <1>2, PlaceType
<1>4. shown \subseteq Nat \X Nat
    BY <1>3, ParsedRecords
<1>5. failed' <=> failed \/ Defective(here)
    BY <1>1 DEF Defective
<1>6. failed' \in BOOLEAN
    BY <1>1, <1>2 DEF TypeOK
<1> HIDE DEF here, shown
<1>7. TypeOK'
  <2>1. block' \in 1..(Len(Blocks) + 1)
      BY <1>1, <1>3
  <2> QED
      BY <1>1, <1>2, <1>4, <1>6, <2>1 DEF TypeOK, Blocks
<1>8. Trail'
    BY <1>1, <1>2, SameTrail
<1>9. Finding'
    BY <1>1 DEF Finding
<1>10. Cause'
  <2>1. \A b : Defective(b)' <=> Defective(b)
      BY DEF Defective, Parsed
  <2>2. ASSUME failed', faults = {}
        PROVE  \E b \in 1..block : Defective(image[current].blocks[b])
    <3>1. CASE failed
      <4>1. PICK b \in 1..(block - 1) : Defective(image[current].blocks[b])
          BY <1>1, <1>2, <2>2, <3>1 DEF Cause
      <4>2. b \in 1..block
          BY <1>3
      <4> QED BY <4>1, <4>2
    <3>2. CASE Defective(here)
        BY <1>3, <3>2 DEF here, Blocks
    <3> QED BY <1>5, <2>2, <3>1, <3>2
  <2>3. block' - 1 = block
      BY <1>1, <1>3
  <2> QED
      BY <1>1, <1>2, <2>1, <2>2, <2>3 DEF Cause
<1> QED
    BY <1>7, <1>8, <1>9, <1>10 DEF Inv

(* A failure is noted, and the records of the block are not seen.          *)
LEMMA FaultInv ==
    ASSUME Inv, NEW what \in {"block", "tree"}, Fault(what),
           pc \in {"find", "list"}, failed' = TRUE,
           (block <= Len(Blocks) /\ block' = block + 1) \/ block' = Len(Blocks) + 1,
           UNCHANGED <<input, rest, current, pc, hit, printed, result>>
    PROVE  Inv'
<1>1. image' = image /\ path' = path /\ TypeOK /\ Trail /\ Finding /\ Cause
    BY DEF input, Inv
<1>2. block \in Nat /\ Len(Blocks) \in Nat /\ block \in 1..(Len(Blocks) + 1)
    BY <1>1, PlaceType
<1>3. faults' # {} /\ faults \subseteq faults' /\ faults' \subseteq {"inode", "block", "tree"}
    BY <1>1 DEF Fault, TypeOK
<1>4. block' \in 1..(Len(Blocks) + 1) /\ block <= block'
    BY <1>2
<1>5. TypeOK'
    BY <1>1, <1>3, <1>4 DEF TypeOK, Blocks
<1>6. Trail'
    BY <1>1, <1>3, SameTrail
<1>7. Seen \subseteq Seen'
  <2>1. Named(current, Head(rest))' = Named(current, Head(rest))
      BY Kept
  <2>2. \A p \in Named(current, Head(rest)) : p[1] \in Nat
      BY <1>1, NamedRecords DEF TypeOK
  <2> QED
      BY <1>2, <1>4, <2>1, <2>2 DEF Seen
<1>8. Finding'
  <2>1. \A i, p : Of(i, p)' = Of(i, p)
      BY Kept
  <2> QED
      BY <1>1, <1>3, <1>7, <2>1 DEF Finding
<1>9. Cause'
    BY <1>1, <1>3 DEF Cause
<1> QED
    BY <1>5, <1>6, <1>8, <1>9 DEF Inv

LEMMA EndFindInv ==
    ASSUME Inv, EndFind PROVE Inv'
<1> DEFINE name == Head(rest)
           found == Named(current, name)
<1>1. /\ pc = "find" /\ block = Len(Blocks) + 1
      /\ UNCHANGED <<input, block, failed, hit, printed, faults>>
      /\ image' = image /\ path' = path
    BY DEF EndFind, input
<1>2. TypeOK /\ Trail /\ Finding
    BY DEF Inv
<1>3. image \in Images /\ current \in Inode /\ Len(Blocks) \in Nat
    BY <1>1, <1>2, PlaceType DEF TypeOK
<1>4. rest # << >> /\ name \in Name /\ image[current].dir
    BY <1>1, <1>2 DEF Finding
<1>5. Seen = found
  <2>1. \A p \in found : p[1] \in Nat /\ p[1] < block
      BY <1>1, <1>3, NamedRecords DEF Blocks
  <2> QED
      BY <2>1 DEF Seen
<1>6. name \notin {".", "", "too_long"} /\ current # 0
    BY <1>3, <1>4, PathLookupAssumption
<1>7. Step(current, name) = IF found = {} THEN 0 ELSE Of(current, Preferred(found))
    BY <1>4, <1>6 DEF Step
<1> HIDE DEF found, name
<1>8. CASE hit # {}
  <2>1. current' \in hit /\ rest' = Tail(rest) /\ pc' = "resolve" /\ result' = result
      BY <1>8 DEF EndFind, Accepted
  <2>2. PICK p \in found : hit = {Of(current, p)} /\ (faults = {} => Best(p, found))
      BY <1>1, <1>2, <1>5, <1>8 DEF Finding
  <2>3. current' = Of(current, p) /\ current' \in Inode
      BY <1>2, <2>1, <2>2 DEF TypeOK
  <2>4. found \in SUBSET (Nat \X Nat)
      BY <1>3, NamedRecords DEF found
  <2>5. ASSUME faults = {} \/ NamesAreUnique
        PROVE  current' = Step(current, name)
    <3>1. CASE faults = {}
        BY <1>7, <2>2, <2>3, <2>4, <3>1, BestIsPreferred
    <3>2. CASE NamesAreUnique
      <4>1. \A q \in found : q[1] <= Len(Blocks)
          BY <1>3, NamedRecords DEF found, Blocks
      <4>2. Preferred(found) \in found
          BY <1>3, <2>2, <2>4, <4>1, BestExists DEF Best
      <4>3. Of(current, p) = Of(current, Preferred(found))
          BY <1>3, <1>4, <2>2, <3>2, <4>2 DEF NamesAreUnique, Of, found
      <4> QED
          BY <1>7, <2>2, <2>3, <4>3
    <3> QED
        BY <2>5, <3>1, <3>2
  <2>6. TypeOK'
      BY <1>1, <1>2, <1>4, <2>1, <2>3, NextComponent DEF TypeOK
  <2>7. Trail'
      BY <1>1, <1>2, <1>4, <2>1, <2>3, <2>5, LongerTrail DEF name
  <2>8. Finding' /\ Cause'
      BY <2>1 DEF Finding, Cause
  <2> QED
      BY <2>6, <2>7, <2>8 DEF Inv
<1>9. CASE hit = {}
  <2>1. pc' = "done" /\ result' = 1 /\ current' = current /\ rest' = rest
      BY <1>9 DEF EndFind, Accepted, Abort
  <2>2. TypeOK'
      BY <1>1, <1>2, <2>1 DEF TypeOK
  <2>3. Trail'
      BY <1>1, <1>2, <2>1, SameTrail
  <2>4. faults = {} => Step(current, name) = 0
      BY <1>1, <1>2, <1>5, <1>7, <1>9 DEF Finding
  <2>5. Step(current, Head(rest))' = Step(current, Head(rest))
      BY <1>1, <2>1, Kept
  <2>6. Finding' /\ Cause'
      BY <1>1, <1>4, <2>1, <2>4, <2>5 DEF Finding, Cause, name
  <2> QED
      BY <2>2, <2>3, <2>6 DEF Inv
<1> QED
    BY <1>8, <1>9

LEMMA EndListInv ==
    ASSUME Inv, EndList PROVE Inv'
<1>1. /\ pc = "list" /\ block = Len(Blocks) + 1
      /\ pc' = "done" /\ result' = (IF failed THEN 1 ELSE 0)
      /\ UNCHANGED <<input, rest, current, block, failed, hit, printed, faults>>
      /\ image' = image /\ path' = path
    BY DEF EndList, input
<1>2. TypeOK /\ Trail /\ Cause
    BY DEF Inv
<1>3. Len(Blocks) \in Nat /\ block - 1 = Len(Blocks)
    BY <1>1, <1>2, PlaceType
<1>4. TypeOK'
    BY <1>1, <1>2 DEF TypeOK
<1>5. Trail'
    BY <1>1, <1>2, SameTrail
<1>6. \A b : Defective(b)' <=> Defective(b)
    BY DEF Defective, Parsed
<1>7. Finding'
    BY <1>1 DEF Finding
<1>8. Cause'
    BY <1>1, <1>2, <1>3, <1>6 DEF Cause, Blocks
<1> QED
    BY <1>4, <1>5, <1>7, <1>8 DEF Inv

LEMMA StutterInv ==
    ASSUME Inv, UNCHANGED vars PROVE Inv'
<1>1. /\ UNCHANGED <<input, rest, current, pc, block, failed, hit, printed, result, faults>>
      /\ image' = image /\ path' = path
    BY DEF vars, input
<1>2. TypeOK /\ Trail /\ Finding /\ Cause
    BY DEF Inv
<1>3. TypeOK'
    BY <1>1, <1>2 DEF TypeOK
<1>4. Trail'
    BY <1>1, <1>2, SameTrail
<1>5. \A i, name : Named(i, name)' = Named(i, name)
    BY <1>1, Kept
<1>6. Seen' = Seen
    BY <1>1, <1>5 DEF Seen
<1>7. /\ \A i, p : Of(i, p)' = Of(i, p)
      /\ \A i, c : Step(i, c)' = Step(i, c)
    BY <1>1, Kept
<1>8. Finding'
    BY <1>1, <1>2, <1>6, <1>7 DEF Finding
<1>9. \A b : Defective(b)' <=> Defective(b)
    BY DEF Defective, Parsed
<1>10. Cause'
    BY <1>1, <1>2, <1>7, <1>9 DEF Cause, Blocks
<1> QED
    BY <1>3, <1>4, <1>8, <1>10 DEF Inv

LEMMA NextInv == Inv /\ [Next]_vars => Inv'
<1> SUFFICES ASSUME Inv, [Next]_vars PROVE Inv'
    OBVIOUS
<1>1. CASE SkipComponent
    BY <1>1, SkipComponentInv
<1>2. CASE NameTooLong
    BY <1>2, NameTooLongInv
<1>3. CASE BeginFind
    BY <1>3, VisitInv DEF BeginFind
<1>4. CASE BeginList
    BY <1>4, VisitInv DEF BeginList
<1>5. CASE FindInBlock
    BY <1>5, FindInBlockInv
<1>6. CASE ListBlock
    BY <1>6, ListBlockInv
<1>7. CASE BlockFails
    BY <1>7, FaultInv DEF BlockFails
<1>8. CASE TreeFails
    BY <1>8, FaultInv DEF TreeFails
<1>9. CASE EndFind
    BY <1>9, EndFindInv
<1>10. CASE EndList
    BY <1>10, EndListInv
<1>11. CASE UNCHANGED vars
    BY <1>11, StutterInv
<1> QED
    BY <1>1, <1>2, <1>3, <1>4, <1>5, <1>6, <1>7, <1>8, <1>9, <1>10, <1>11 DEF Next

-----------------------------------------------------------------------------
(* The theorems *)

(* Leads is what its definition says: the function that begins at the root *)
(* and takes one step per component.                                       *)
LEMMA LeadsUnfolds ==
    ASSUME Len(path) \in Nat
    PROVE  /\ Leads[0] = Root
           /\ \A n \in 1..Len(path) : Leads[n] = Step(Leads[n - 1], path[n])
<1> DEFINE Along(f, m) == f = [n \in 0..m |-> IF n = 0 THEN Root ELSE Step(f[n - 1], path[n])]
           S == {m \in Nat : \E f : Along(f, m)}
<1>1. Nat \subseteq S
  <2>1. 0 \in S
    <3> DEFINE f == [n \in 0..0 |-> Root]
    <3>1. f = [n \in 0..0 |-> IF n = 0 THEN Root ELSE Step(f[n - 1], path[n])]
        OBVIOUS
    <3>2. Along(f, 0)
        BY <3>1
    <3> HIDE DEF f, Along
    <3> QED
        BY <3>2
  <2>2. ASSUME NEW m \in Nat, m \in S
        PROVE  m + 1 \in S
    <3>1. PICK f : f = [n \in 0..m |-> IF n = 0 THEN Root ELSE Step(f[n - 1], path[n])]
        BY <2>2
    <3> DEFINE g == [n \in 0..(m + 1) |-> IF n <= m THEN f[n] ELSE Step(f[m], path[n])]
               h == [n \in 0..(m + 1) |-> IF n = 0 THEN Root ELSE Step(g[n - 1], path[n])]
    <3>2. \A n \in 0..(m + 1) : g[n] = h[n]
      <4> TAKE n \in 0..(m + 1)
      <4>1. CASE n = 0
        <5>1. f[0] = Root
            BY <3>1
        <5> QED BY <4>1, <5>1
      <4>2. CASE n # 0 /\ n <= m
        <5>1. n \in 0..m /\ n - 1 \in 0..m /\ n - 1 \in 0..(m + 1)
            BY <4>2
        <5>2. f[n] = Step(f[n - 1], path[n])
            BY <3>1, <4>2, <5>1
        <5>3. g[n] = f[n] /\ g[n - 1] = f[n - 1]
            BY <4>2, <5>1
        <5>4. h[n] = Step(g[n - 1], path[n])
            BY <4>2
        <5> QED BY <5>2, <5>3, <5>4
      <4>3. CASE n = m + 1
        <5>1. g[n] = Step(f[m], path[n]) /\ g[n - 1] = f[m]
            BY <4>3
        <5>2. h[n] = Step(g[n - 1], path[n])
            BY <4>3
        <5> QED BY <5>1, <5>2
      <4> QED
          BY <4>1, <4>2, <4>3
    <3>3. g = h
        BY <3>2
    <3>4. Along(g, m + 1)
        BY <3>3
    <3> HIDE DEF g, h, Along
    <3> QED
        BY <3>4
  <2> HIDE DEF S
  <2> QED
      BY <2>1, <2>2, Induction
<1>2. \E f : Along(f, Len(path))
    BY <1>1
<1>3. Leads = CHOOSE f : Along(f, Len(path))
    BY DEF Leads, Step, Of
<1>4. Along(Leads, Len(path))
  <2> HIDE DEF Along
  <2> QED BY <1>2, <1>3
<1>5. \A n \in 0..Len(path) : Leads[n] = IF n = 0 THEN Root ELSE Step(Leads[n - 1], path[n])
    BY <1>4
<1> QED
    BY <1>5

(* The trail is the beginning of it.                                       *)
LEMMA TrailLeads ==
    ASSUME TypeOK, Trail PROVE LeadsThere
<1> SUFFICES ASSUME faults = {} \/ NamesAreUnique PROVE current = Leads[Resolved]
    BY DEF LeadsThere
<1>1. Len(path) \in Nat /\ Resolved \in 0..Len(path)
    BY RestOfPath
<1>2. PICK t \in [0..Resolved -> Inode] :
            /\ t[0] = Root /\ t[Resolved] = current
            /\ \A n \in 1..Resolved : t[n] = Step(t[n - 1], path[n])
    BY DEF Trail
<1> DEFINE S == {n \in Nat : n <= Resolved => t[n] = Leads[n]}
<1>3. 0 \in S
    BY <1>1, <1>2, LeadsUnfolds
<1>4. ASSUME NEW n \in Nat, n \in S
      PROVE  n + 1 \in S
  <2> SUFFICES ASSUME n + 1 <= Resolved PROVE t[n + 1] = Leads[n + 1]
      OBVIOUS
  <2>1. n + 1 \in 1..Resolved /\ n + 1 \in 1..Len(path) /\ n + 1 - 1 = n
      BY <1>1
  <2>2. t[n + 1] = Step(t[n], path[n + 1])
      BY <1>2, <2>1
  <2>3. Leads[n + 1] = Step(Leads[n], path[n + 1])
      BY <1>1, <2>1, LeadsUnfolds
  <2>4. t[n] = Leads[n]
      BY <1>1, <1>4
  <2> QED
      BY <2>2, <2>3, <2>4
<1>5. Nat \subseteq S
  <2> HIDE DEF S
  <2> QED BY <1>3, <1>4, Induction
<1> QED
    BY <1>1, <1>2, <1>5

(* From where a path leads nowhere, it leads nowhere.                      *)
LEMMA NowhereIsFinal ==
    ASSUME Len(path) \in Nat, NEW n \in 0..Len(path), Leads[n] = 0
    PROVE  Leads[Len(path)] = 0
<1> DEFINE S == {k \in Nat : n + k <= Len(path) => Leads[n + k] = 0}
<1>1. 0 \in S
    OBVIOUS
<1>2. ASSUME NEW k \in Nat, k \in S
      PROVE  k + 1 \in S
  <2> SUFFICES ASSUME n + (k + 1) <= Len(path) PROVE Leads[n + (k + 1)] = 0
      OBVIOUS
  <2>1. n + (k + 1) \in 1..Len(path) /\ n + (k + 1) - 1 = n + k /\ n + k <= Len(path)
      OBVIOUS
  <2>2. Leads[n + k] = 0
      BY <1>2, <2>1
  <2>3. Leads[n + (k + 1)] = Step(Leads[n + k], path[n + (k + 1)])
      BY <2>1, LeadsUnfolds
  <2> QED
      BY <2>2, <2>3 DEF Step
<1>3. Nat \subseteq S
  <2> HIDE DEF S
  <2> QED BY <1>1, <1>2, Induction
<1>4. Len(path) - n \in Nat /\ n + (Len(path) - n) = Len(path)
    OBVIOUS
<1> QED
    BY <1>3, <1>4

(* An error has its cause at the end of what was resolved, and the path    *)
(* leads there.                                                            *)
LEMMA CauseIsReal ==
    ASSUME Inv PROVE ErrorIsReal
<1> DEFINE i == Leads[Len(path)]
<1> SUFFICES ASSUME pc = "done", result = 1, faults = {}
             PROVE  i = 0 \/ ~image[i].dir \/ \E b \in 1..Len(image[i].blocks) : Defective(image[i].blocks[b])
    BY DEF ErrorIsReal, Defective
<1>1. TypeOK /\ Trail /\ Cause
    BY DEF Inv
<1>2. current = Leads[Resolved]
    BY <1>1, TrailLeads DEF LeadsThere
<1>3. Len(path) \in Nat /\ Resolved \in 0..Len(path)
    BY <1>1, RestOfPath
<1>4. CASE rest # << >> /\ Step(current, Head(rest)) = 0
  <2>1. Resolved + 1 \in 1..Len(path) /\ Resolved + 1 \in 0..Len(path) /\ Head(rest) = path[Resolved + 1]
        /\ Resolved + 1 - 1 = Resolved
      BY <1>1, <1>3, <1>4, RestOfPath
  <2>2. Leads[Resolved + 1] = Step(Leads[Resolved], path[Resolved + 1])
      BY <1>3, <2>1, LeadsUnfolds
  <2>3. Leads[Resolved + 1] = 0
      BY <1>2, <1>4, <2>1, <2>2
  <2> QED
      BY <1>3, <2>1, <2>3, NowhereIsFinal
<1>5. CASE rest = << >> /\ (~image[current].dir \/ \E b \in 1..Len(Blocks) : Defective(Blocks[b]))
  <2>1. current = i
      BY <1>1, <1>2, <1>5, RestOfPath
  <2> QED
      BY <1>5, <2>1 DEF Blocks
<1> QED
    BY <1>1, <1>4, <1>5 DEF Cause

LEMMA SpecInv == Spec => []Inv
<1> QED
    BY InitInv, NextInv, PTL DEF Spec

(* What is left of the path is a suffix of it, the inode reached is one,   *)
(* and the place in a directory is inside it (ext4_resolve_path).          *)
THEOREM PathTypes == Spec => []TypeOK
<1>1. Inv => TypeOK
    BY DEF Inv
<1> QED
    BY <1>1, SpecInv, PTL

(* A path leads where the directories say, whatever cannot be read or is   *)
(* corrupt on the way (ext4_resolve_path, ext4_find_entry_in_directory).   *)
THEOREM PathLeadsThere == Spec => []LeadsThere
<1>1. Inv => LeadsThere
    BY TrailLeads DEF Inv
<1> QED
    BY <1>1, SpecInv, PTL

(* An error that no failing read explains is the path's or the listing's   *)
(* (ext4_print_directory_path).                                            *)
THEOREM PathErrorsAreReal == Spec => []ErrorIsReal
<1>1. Inv => ErrorIsReal
    BY CauseIsReal
<1> QED
    BY <1>1, SpecInv, PTL
=============================================================================

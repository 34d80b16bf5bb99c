-------------------------- MODULE HostFilesProofs --------------------------
(***************************************************************************)
(* Proofs about HostFiles for every tree, every set of processes and every *)
(* session: what editor commands do to the files they share is kept, the   *)
(* walk's frames, streams and totals are what they should be, a walk that  *)
(* returns 0 has reported everything that stayed where it was, once, and   *)
(* in a tree nobody changed a walk that returns 1 had a reason, and du's   *)
(* totals are those of the tree.                                           *)
(***************************************************************************)
EXTENDS HostFiles, FiniteSetTheorems, SequenceTheorems, WellFoundedInduction, TLAPS

-----------------------------------------------------------------------------
(* Induction *)

(* A set of numbers has a smallest.                                        *)
LEMMA Smallest ==
    ASSUME NEW S \in SUBSET Nat, S # {}
    PROVE  \E m \in S : \A k \in S : m <= k
<1> DEFINE below == {0..n : n \in S}
<1>1. below \subseteq FiniteSubsetsOf(Nat) /\ below # {}
    <2>1. \A n \in Nat : IsFiniteSet(0..n) /\ 0..n \in SUBSET Nat
        BY FS_Interval
    <2> QED BY <2>1 DEF FiniteSubsetsOf
<1>2. PICK x \in below : \A y \in below : <<y, x>> \notin StrictSubsetOrdering(Nat)
    <2> HIDE DEF below
    <2> QED
    BY <1>1, FS_StrictSubsetOrderingWellFounded, WFMin
<1>3. PICK m \in S : x = 0..m
    OBVIOUS
<1>4. ASSUME NEW k \in S, k < m PROVE FALSE
    <2>1. 0..k \subseteq 0..m /\ 0..k # 0..m
        <3>1. m \in 0..m /\ m \notin 0..k
            BY <1>4
        <3> QED BY <1>4, <3>1
    <2>2. <<0..k, 0..m>> \in StrictSubsetOrdering(Nat)
        BY <2>1 DEF StrictSubsetOrdering
    <2> QED
        BY <1>2, <1>3, <2>2
<1> QED
    BY <1>4

(* Induction.                                                              *)
LEMMA Induction ==
    ASSUME NEW S, 0 \in S, \A n \in Nat : n \in S => n + 1 \in S
    PROVE  Nat \subseteq S
<1> SUFFICES ASSUME Nat \ S # {} PROVE FALSE
    OBVIOUS
<1>1. PICK m \in Nat \ S : \A k \in Nat \ S : m <= k
    BY Smallest
<1>2. m # 0 /\ m - 1 \in Nat /\ m - 1 + 1 = m
    BY <1>1
<1> QED
    BY <1>1, <1>2

-----------------------------------------------------------------------------
(* An object of each kind is none of the other kinds.                      *)
LEMMA Kinds ==
    /\ \A o \in Object : o \in Directory \/ o \in File \/ o \in Link
    /\ None \notin Object /\ Top \in Directory /\ Top \in Object
    /\ Directory \subseteq Object /\ File \subseteq Object /\ Link \subseteq Object
    /\ \A o : o \in File => o \notin Directory /\ o \notin Link
    /\ \A o : o \in Link => o \notin Directory
BY HostTreeAssumption DEF Directory, File, Link

-----------------------------------------------------------------------------
(* Paths *)

(* f is what the beginnings of a path name, in a tree.                     *)
Walked(f, tree, path, m) ==
    f = [n \in 0..m |-> IF n = 0 THEN Top
                        ELSE IF f[n - 1] \in Directory THEN tree[f[n - 1]][path[n]]
                        ELSE None]

LEMMA WalkedExists ==
    ASSUME NEW tree, NEW path, NEW k \in Nat
    PROVE  \E f : Walked(f, tree, path, k)
<1> DEFINE To1(d, n) == IF d \in Directory THEN tree[d][path[n]] ELSE None
           S == {m \in Nat : \E f : Walked(f, tree, path, m)}
<1>1. 0 \in S
  <2> DEFINE f == [n \in 0..0 |-> Top]
  <2>1. f = [n \in 0..0 |-> IF n = 0 THEN Top ELSE To1(f[n - 1], n)]
      OBVIOUS
  <2>2. Walked(f, tree, path, 0)
      BY <2>1 DEF Walked
  <2> QED
      BY <2>2
<1>2. ASSUME NEW m \in Nat, m \in S
      PROVE  m + 1 \in S
  <2>1. PICK f : f = [n \in 0..m |-> IF n = 0 THEN Top ELSE To1(f[n - 1], n)]
      BY <1>2 DEF Walked
  <2> HIDE DEF To1
  <2> DEFINE g == [n \in 0..(m + 1) |-> IF n <= m THEN f[n] ELSE To1(f[m], n)]
             h == [n \in 0..(m + 1) |-> IF n = 0 THEN Top ELSE To1(g[n - 1], n)]
  <2>2. \A n \in 0..(m + 1) : g[n] = h[n]
    <3> TAKE n \in 0..(m + 1)
    <3>1. CASE n = 0
      <4>1. f[0] = Top
          BY <2>1
      <4> QED BY <3>1, <4>1
    <3>2. CASE n # 0 /\ n <= m
      <4>1. n \in 0..m /\ n - 1 \in 0..m /\ n - 1 \in 0..(m + 1)
          BY <3>2
      <4>2. f[n] = To1(f[n - 1], n)
          BY <2>1, <3>2, <4>1
      <4>3. g[n] = f[n] /\ g[n - 1] = f[n - 1]
          BY <3>2, <4>1
      <4>4. h[n] = To1(g[n - 1], n)
          BY <3>2
      <4> QED BY <4>2, <4>3, <4>4
    <3>3. CASE n = m + 1
      <4>1. g[n] = To1(f[m], n) /\ g[n - 1] = f[m]
          BY <3>3
      <4>2. h[n] = To1(g[n - 1], n)
          BY <3>3
      <4> QED BY <4>1, <4>2
    <3> QED
        BY <3>1, <3>2, <3>3
  <2>3. g = h
      BY <2>2
  <2>4. Walked(g, tree, path, m + 1)
      BY <2>3 DEF Walked, To1
  <2> HIDE DEF g, h
  <2> QED
      BY <2>4
<1> HIDE DEF S
<1>3. Nat \subseteq S
    BY <1>1, <1>2, Induction
<1> QED
    BY <1>3 DEF S

(* A path names an object that is in use, or none.                         *)
LEMMA LookupType ==
    ASSUME NEW S, Top \in S, at \in [Directory -> [Name -> S \cup {None}]],
           NEW path \in Seq(Name)
    PROVE  Lookup(path) \in S \cup {None}
<1>1. Len(path) \in Nat
    BY LenProperties
<1> DEFINE f == CHOOSE f : Walked(f, at, path, Len(path))
<1>2. Lookup(path) = f[Len(path)]
    BY DEF Lookup, Walked
<1>3. Walked(f, at, path, Len(path))
  <2>1. \E g : Walked(g, at, path, Len(path))
      BY <1>1, WalkedExists
  <2> QED BY <2>1
<1> HIDE DEF f
<1> DEFINE T == {n \in Nat : n <= Len(path) => f[n] \in S \cup {None}}
<1>4. 0 \in T
    BY <1>1, <1>3 DEF Walked
<1>5. ASSUME NEW n \in Nat, n \in T
      PROVE  n + 1 \in T
  <2> SUFFICES ASSUME n + 1 <= Len(path) PROVE f[n + 1] \in S \cup {None}
      OBVIOUS
  <2>1. n + 1 \in 0..Len(path) /\ n + 1 # 0 /\ n + 1 - 1 = n /\ path[n + 1] \in Name
      BY <1>1, ElementOfSeq
  <2>2. f[n + 1] = IF f[n] \in Directory THEN at[f[n]][path[n + 1]] ELSE None
      BY <1>3, <2>1 DEF Walked
  <2> QED
      BY <2>1, <2>2
<1>6. Nat \subseteq T
  <2> HIDE DEF T
  <2> QED BY <1>4, <1>5, Induction
<1> QED
    BY <1>1, <1>2, <1>6

(* What open follows is a path.                                            *)
LEMMA FollowType ==
    ASSUME NEW path \in Seq(Name) PROVE Follow(path) \in Seq(Name)
BY HostTreeAssumption DEF Follow

(* An object entered under a name is in use if it was, or becomes so.      *)
LEMMA EnterType ==
    ASSUME NEW S, NEW tree \in [Directory -> [Name -> S \cup {None}]],
           NEW object \in S \cup {None}, NEW d, NEW n
    PROVE  [tree EXCEPT ![d][n] = object] \in [Directory -> [Name -> S \cup {None}]]
OBVIOUS

-----------------------------------------------------------------------------
(* The invariant of the edits *)

(* Every object that is named, open or not empty is in use; what is not    *)
(* in use yet is what a new name gets.                                     *)
InUse ==
    /\ at \in [Directory -> [Name -> used \cup {None}]]
    /\ Tree \in [Directory -> [Name -> used \cup {None}]]
    /\ Top \in used
    /\ file \in [Process -> used \cup {None}]
    /\ \A o \in File : o \notin used => content[o] = << >> /\ Old[o] = << >>

(* Where a process stands.                                                 *)
Standing(p) ==
    LET op == command[p].op
    IN  /\ pc[p] = "start" => file[p] = None /\ written[p] = 0 /\ buffer[p] = << >>
        /\ pc[p] = "write" => op \in {"write", "append"}
        /\ pc[p] = "read" => op = "read"
        /\ op \in {"write", "append"} /\ file[p] # None /\ pc[p] \in {"close", "done"} /\ status[p] = 0 =>
               written[p] = command[p].length

(* Nobody's bytes are where he has not written them.                       *)
OwnBytes ==
    \A o \in File, p \in Process : \A k \in 1..Len(content[o]), n \in 1..command[p].length :
        content[o][k] = Stamp(p, n) => file[p] = o /\ n <= written[p]

OldIsKept == \A o \in File : Overwriters(o) = {} => IsPrefixOf(Old[o], content[o])

(* What p has written so far.                                              *)
Wrote(p) == [n \in 1..written[p] |-> Stamp(p, n)]

Appended(p) ==
    command[p].op = "append" /\ file[p] # None /\ Overwriters(file[p]) = {} =>
        InOrder(p, Wrote(p), content[file[p]])

Overwritten(p) ==
    file[p] # None /\ Overwriters(file[p]) = {p} =>
        /\ written[p] <= Len(content[file[p]])
        /\ \A n \in 1..written[p] : content[file[p]][n] = Stamp(p, n)
        /\ Writers(file[p]) = {p} => Len(content[file[p]]) = written[p]

Created(p) ==
    command[p].op = "create" /\ file[p] # None =>
        /\ \A d \in Directory, n \in Name : Tree[d][n] # file[p]
        /\ \A q \in Process \ {p} : file[q] = file[p] => command[q].op # "create"

Beginning(p) ==
    command[p].op = "read" /\ file[p] # None /\ Overwriters(file[p]) = {} =>
        /\ IsPrefixOf(buffer[p], content[file[p]])
        /\ pc[p] \in {"close", "done"} /\ status[p] = 0 => Len(buffer[p]) >= Len(Old[file[p]])

EditInv ==
    /\ HostTypeOK /\ EditorTypeOK /\ InUse
    /\ \A p \in Process : Standing(p)
    /\ OwnBytes /\ OldIsKept
    /\ \A p \in Process : Appended(p) /\ Overwritten(p) /\ Created(p) /\ Beginning(p)

-----------------------------------------------------------------------------
(* Contents *)

LEMMA CommandType ==
    ASSUME command \in Sessions, NEW p \in Process
    PROVE  /\ command[p].op \in Operation /\ command[p].path \in Seq(Name)
           /\ command[p].to \in Seq(Name) /\ command[p].length \in Nat
BY EditorAssumption DEF Command

(* The bytes of a process are told from those of others and from a hole.   *)
LEMMA Stamps ==
    ASSUME command \in Sessions
    PROVE  /\ \A p, q, m, n : Stamp(p, m) = Stamp(q, n) => p = q /\ m = n
           /\ \A p \in Process : \A n \in 1..command[p].length :
                /\ Stamp(p, n) \in Byte /\ Stamp(p, n) # Hole
                /\ \A o \in File : \A k \in 1..Len(Old[o]) : Old[o][k] # Stamp(p, n)
BY EditorAssumption DEF Stamp

LEMMA PrefixIff ==
    ASSUME NEW S, NEW a \in Seq(S), NEW b \in Seq(S)
    PROVE  IsPrefixOf(a, b) <=> Len(a) <= Len(b) /\ \A k \in 1..Len(a) : b[k] = a[k]
<1>1. Len(a) \in Nat /\ Len(b) \in Nat
    BY LenProperties
<1> SUFFICES ASSUME Len(a) <= Len(b)
             PROVE  SubSeq(b, 1, Len(a)) = a <=> \A k \in 1..Len(a) : b[k] = a[k]
    BY DEF IsPrefixOf
<1> DEFINE c == SubSeq(b, 1, Len(a))
<1>2. \A k \in 1..Len(a) : b[k] \in S
    BY <1>1, ElementOfSeq
<1>3. /\ c \in Seq(S) /\ Len(c) = Len(a)
      /\ \A k \in 1..Len(a) : c[k] = b[k]
  <2>1. /\ c \in Seq(S) /\ Len(c) = IF 1 <= Len(a) THEN Len(a) - 1 + 1 ELSE 0
        /\ \A k \in 1..(Len(a) - 1 + 1) : c[k] = b[1 + k - 1]
      BY <1>1, <1>2, SubSeqProperties
  <2>2. Len(a) - 1 + 1 = Len(a) /\ \A k \in 1..Len(a) : 1 + k - 1 = k
      BY <1>1
  <2> HIDE DEF c
  <2> QED
      BY <1>1, <2>1, <2>2
<1> HIDE DEF c
<1>4. c = a <=> \A k \in 1..Len(a) : c[k] = a[k]
    BY <1>3, SeqEqual
<1> QED
    BY <1>3, <1>4 DEF c

LEMMA EmptyPrefix ==
    ASSUME NEW S, NEW b \in Seq(S)
    PROVE  IsPrefixOf(<< >>, b)
<1>1. Len(b) \in Nat /\ Len(<< >>) = 0
    BY LenProperties
<1>2. SubSeq(b, 1, 0) = << >>
    BY SubSeqEmpty
<1> QED
    BY <1>1, <1>2 DEF IsPrefixOf

(* What a write leaves of a content, and what it puts there.               *)
LEMMA PutType ==
    ASSUME NEW old \in Seq(Byte), NEW offset \in Nat, NEW bytes \in Seq(Byte)
    PROVE  LET new == Put(old, offset, bytes)
               end == offset + Len(bytes)
           IN  /\ new \in Seq(Byte)
               /\ Len(new) = IF Len(old) > end THEN Len(old) ELSE end
               /\ \A k \in 1..Len(new) :
                    new[k] = IF k \in (offset + 1)..end THEN bytes[k - offset]
                             ELSE IF k <= Len(old) THEN old[k] ELSE Hole
<1> DEFINE new == Put(old, offset, bytes)
           end == offset + Len(bytes)
           size == IF Len(old) > end THEN Len(old) ELSE end
<1>1. Len(old) \in Nat /\ Len(bytes) \in Nat /\ end \in Nat /\ size \in Nat
    BY LenProperties
<1>2. new = [k \in 1..size |-> IF k \in (offset + 1)..end THEN bytes[k - offset]
                               ELSE IF k <= Len(old) THEN old[k] ELSE Hole]
    BY DEF Put
<1>3. \A k \in 1..size : (IF k \in (offset + 1)..end THEN bytes[k - offset]
                          ELSE IF k <= Len(old) THEN old[k] ELSE Hole) \in Byte
  <2> TAKE k \in 1..size
  <2>1. k \in (offset + 1)..end => k - offset \in 1..Len(bytes)
      BY <1>1
  <2>2. k \in (offset + 1)..end => bytes[k - offset] \in Byte
      BY <2>1, ElementOfSeq
  <2>3. k <= Len(old) => old[k] \in Byte
      BY <1>1, ElementOfSeq
  <2> QED
      BY <2>2, <2>3, HostTreeAssumption
<1> HIDE DEF size
<1>4. new \in [1..size -> Byte]
    BY <1>2, <1>3
<1>5. new \in Seq(Byte) /\ Len(new) = size
  <2>1. new \in Seq(Byte)
      BY <1>1, <1>4, SeqDef
  <2> QED
      BY <1>1, <1>4, <2>1
<1> QED
    BY <1>2, <1>5 DEF size

-----------------------------------------------------------------------------
(* The steps of the processes *)

(* The parts of the invariant as the steps need them.                      *)
LEMMA Parts ==
    ASSUME EditInv
    PROVE  /\ command \in Sessions /\ used \subseteq Object /\ content \in [File -> Seq(Byte)]
           /\ pc \in [Process -> {"start", "write", "read", "close", "done", "dead"}]
           /\ file \in [Process -> File \cup {None}] /\ file \in [Process -> used \cup {None}]
           /\ written \in [Process -> Nat] /\ \A p \in Process : written[p] <= command[p].length
           /\ buffer \in [Process -> Seq(Byte)] /\ status \in [Process -> {0, 1}]
           /\ \A p \in Process : pc[p] \in {"write", "read", "close"} => file[p] # None
           /\ \A o \in File : Old[o] \in Seq(Byte)
BY HostTreeAssumption DEF EditInv, HostTypeOK, EditorTypeOK, InUse

(* What the processes have written is not touched by a step that touches   *)
(* neither contents nor descriptors.                                       *)
LEMMA ContentsKept ==
    ASSUME UNCHANGED <<content, command, file, written>>
    PROVE  /\ OwnBytes => OwnBytes'
           /\ OldIsKept => OldIsKept'
           /\ \A p \in Process : /\ Appended(p) => Appended(p)'
                                 /\ Overwritten(p) => Overwritten(p)'
                                 /\ Created(p) => Created(p)'
<1>1. content' = content /\ command' = command /\ file' = file /\ written' = written
    OBVIOUS
<1>2. \A o : Overwriters(o)' = Overwriters(o)
    BY <1>1 DEF Overwriters
<1>3. \A o : Writers(o)' = Writers(o)
    BY <1>1, <1>2 DEF Writers
<1>4. \A p : Wrote(p)' = Wrote(p)
    BY <1>1 DEF Wrote, Stamp
<1>5. \A p, bytes, old : InOrder(p, bytes, old)' <=> InOrder(p, bytes, old)
    BY <1>1 DEF InOrder, Stamp
<1>6. OwnBytes => OwnBytes'
    BY <1>1 DEF OwnBytes, Stamp
<1>7. OldIsKept => OldIsKept'
    BY <1>1, <1>2 DEF OldIsKept, IsPrefixOf
<1>8. ASSUME NEW p \in Process
      PROVE  /\ Appended(p) => Appended(p)'
             /\ Overwritten(p) => Overwritten(p)'
             /\ Created(p) => Created(p)'
  <2>1. Appended(p) => Appended(p)'
      BY <1>1, <1>2, <1>4, <1>5 DEF Appended
  <2>2. Overwritten(p) => Overwritten(p)'
      BY <1>1, <1>2, <1>3 DEF Overwritten, Stamp
  <2>3. Created(p) => Created(p)'
      BY <1>1 DEF Created
  <2> QED BY <2>1, <2>2, <2>3
<1> QED
    BY <1>6, <1>7, <1>8

(* What is true of the tree when used grows and it names only used ones.   *)
LEMMA TreeKept ==
    ASSUME HostTypeOK, InUse, UNCHANGED content,
           used \subseteq used', used' \subseteq Object,
           at' \in [Directory -> [Name -> used' \cup {None}]],
           file' \in [Process -> used' \cup {None}]
    PROVE  HostTypeOK' /\ InUse'
<1>1. at' \in [Directory -> [Name -> Object \cup {None}]]
    OBVIOUS
<1>2. HostTypeOK'
    BY <1>1 DEF HostTypeOK
<1>3. Tree \in [Directory -> [Name -> used' \cup {None}]]
    BY DEF InUse
<1> QED
    BY <1>2, <1>3 DEF InUse

(* A step on the way of a process that changes no content, no descriptor   *)
(* and no buffer.  Whoever ends well has written or read everything.       *)
LEMMA Moved ==
    ASSUME EditInv, NEW p \in Process, NEW place \in {"close", "done", "dead"},
           Goes(p, place), UNCHANGED status \/ Fails(p),
           UNCHANGED <<content, command, file, written, buffer>>,
           used \subseteq used', used' \subseteq Object,
           at' \in [Directory -> [Name -> used' \cup {None}]],
           place = "close" => file[p] # None,
           place # "dead" /\ status'[p] = 0 =>
               \/ file[p] = None \/ pc[p] = "close"
               \/ pc[p] = "write" /\ written[p] = command[p].length
               \/ pc[p] = "read" /\ Len(buffer[p]) >= Len(content[file[p]])
    PROVE  EditInv'
<1>1. /\ content' = content /\ command' = command /\ file' = file /\ written' = written
      /\ buffer' = buffer
    OBVIOUS
<1>2. HostTypeOK /\ EditorTypeOK /\ InUse /\ OwnBytes /\ OldIsKept
      /\ \A q \in Process : Standing(q) /\ Appended(q) /\ Overwritten(q) /\ Created(q) /\ Beginning(q)
    BY DEF EditInv
<1>3. \A q \in Process : pc'[q] = IF q = p THEN place ELSE pc[q]
    BY <1>2 DEF Goes, EditorTypeOK
<1>4. \A q \in Process : status'[q] = status[q] \/ (q = p /\ status'[q] = 1)
    BY <1>2 DEF Fails, EditorTypeOK
<1>5. HostTypeOK' /\ InUse'
  <2>1. file' \in [Process -> used' \cup {None}]
      BY <1>1, <1>2 DEF InUse
  <2> QED
      BY <1>1, <1>2, <2>1, TreeKept
<1>6. EditorTypeOK'
  <2>1. pc' \in [Process -> {"start", "write", "read", "close", "done", "dead"}]
      BY <1>2 DEF Goes, EditorTypeOK
  <2>2. status' \in [Process -> {0, 1}]
      BY <1>2 DEF Fails, EditorTypeOK
  <2> QED
      BY <1>1, <1>2, <1>3, <2>1, <2>2 DEF EditorTypeOK
<1>7. place # "dead" /\ status'[p] = 0 =>
               \/ file[p] = None \/ (pc[p] = "close" /\ status[p] = 0)
               \/ pc[p] = "write" /\ written[p] = command[p].length
               \/ pc[p] = "read" /\ Len(buffer[p]) >= Len(content[file[p]])
    BY <1>2, <1>4 DEF Fails, EditorTypeOK
<1>8. \A q \in Process : Standing(q)'
  <2> TAKE q \in Process
  <2>1. CASE q # p
    <3>1. pc'[q] = pc[q] /\ status'[q] = status[q]
        BY <1>3, <1>4, <2>1
    <3> QED
        BY <1>1, <1>2, <3>1 DEF Standing
  <2>2. CASE q = p
    <3>1. pc'[p] = place
        BY <1>3
    <3>2. Standing(p)
        BY <1>2
    <3> QED
        BY <1>1, <1>7, <2>2, <3>1, <3>2 DEF Standing
  <2> QED BY <2>1, <2>2
<1>9. /\ OwnBytes' /\ OldIsKept'
      /\ \A q \in Process : Appended(q)' /\ Overwritten(q)' /\ Created(q)'
    BY <1>1, <1>2, ContentsKept
<1>10. \A q \in Process : Beginning(q)'
  <2> TAKE q \in Process
  <2>1. \A o : Overwriters(o)' = Overwriters(o)
      BY <1>1 DEF Overwriters
  <2> SUFFICES ASSUME command[q].op = "read", file[q] # None, Overwriters(file[q]) = {}
               PROVE  /\ IsPrefixOf(buffer[q], content[file[q]])
                      /\ pc'[q] \in {"close", "done"} /\ status'[q] = 0 =>
                            Len(buffer[q]) >= Len(Old[file[q]])
      BY <1>1, <2>1 DEF Beginning, IsPrefixOf
  <2>2. /\ IsPrefixOf(buffer[q], content[file[q]])
        /\ pc[q] \in {"close", "done"} /\ status[q] = 0 => Len(buffer[q]) >= Len(Old[file[q]])
      BY <1>2 DEF Beginning
  <2>3. ASSUME pc'[q] \in {"close", "done"}, status'[q] = 0
        PROVE  Len(buffer[q]) >= Len(Old[file[q]])
    <3>1. CASE q # p
        BY <1>3, <1>4, <2>2, <2>3, <3>1
    <3>2. CASE q = p /\ pc[p] = "read" /\ Len(buffer[p]) >= Len(content[file[p]])
      <4>1. file[p] \in File
          BY <2>3, <1>2, <3>2 DEF EditorTypeOK
      <4>2. Len(content[file[p]]) >= Len(Old[file[p]])
          BY <1>2, <3>2, <4>1 DEF OldIsKept, IsPrefixOf
      <4>3. Len(content[file[p]]) \in Nat /\ Len(buffer[p]) \in Nat /\ Len(Old[file[p]]) \in Nat
          BY <4>1, Parts, LenProperties
      <4> QED
          BY <3>2, <4>2, <4>3
    <3>3. CASE q = p /\ pc[p] = "close" /\ status[p] = 0
        BY <2>2, <3>3
    <3>4. CASE q = p /\ pc[p] = "write"
        BY <1>2, <3>4 DEF Standing
    <3> QED
        BY <1>3, <1>7, <2>3, <3>1, <3>2, <3>3, <3>4
  <2> QED
      BY <2>2, <2>3
<1> QED
    BY <1>5, <1>6, <1>8, <1>9, <1>10 DEF EditInv

(* An open: a file that is there, or a new one, which was not in use, and  *)
(* is empty in both cases when it is to be written from the beginning.     *)
LEMMA Opened ==
    ASSUME EditInv, NEW p \in Process, NEW o \in File, NEW place \in {"write", "read", "close"},
           pc[p] = "start", Goes(p, place), file' = [file EXCEPT ![p] = o],
           UNCHANGED <<command, written, buffer, status>>,
           used \subseteq used', used' \subseteq Object, o \in used',
           at' \in [Directory -> [Name -> used' \cup {None}]],
           content' = [content EXCEPT ![o] = IF command[p].op = "write" THEN << >> ELSE @],
           place = "write" => command[p].op \in {"write", "append"},
           place = "read" => command[p].op = "read",
           place = "close" => command[p].op = "create",
           command[p].op = "create" => o \notin used
    PROVE  EditInv'
<1>1. command' = command /\ written' = written /\ buffer' = buffer /\ status' = status
    OBVIOUS
<1>2. HostTypeOK /\ EditorTypeOK /\ InUse /\ OwnBytes /\ OldIsKept
      /\ \A q \in Process : Standing(q) /\ Appended(q) /\ Overwritten(q) /\ Created(q) /\ Beginning(q)
    BY DEF EditInv
<1>3. \A q \in Process : pc'[q] = IF q = p THEN place ELSE pc[q]
    BY Parts DEF Goes
<1>4. \A q \in Process : file'[q] = IF q = p THEN o ELSE file[q]
    BY Parts
<1>5. file[p] = None /\ written[p] = 0 /\ buffer[p] = << >>
    BY <1>2 DEF Standing
<1>6. \A x \in File : content'[x] = IF x = o /\ command[p].op = "write" THEN << >> ELSE content[x]
    BY Parts
<1>7. content' \in [File -> Seq(Byte)]
  <2>1. << >> \in Seq(Byte)
      BY EmptySeq
  <2> QED BY <2>1, Parts
<1>8. None \notin File
    BY Kinds
<1>9. \A x \in File : Overwriters(x)' =
            IF x = o /\ command[p].op = "write" THEN Overwriters(x) \cup {p} ELSE Overwriters(x)
    BY <1>1, <1>4, <1>5, <1>8 DEF Overwriters
<1>10. \A x \in File : Writers(x) \subseteq Writers(x)'
    BY <1>1, <1>4, <1>5, <1>8, <1>9 DEF Writers
<1>11. HostTypeOK' /\ InUse'
  <2>1. at' \in [Directory -> [Name -> Object \cup {None}]]
      OBVIOUS
  <2>2. HostTypeOK'
      BY <1>7, <2>1 DEF HostTypeOK
  <2>3. Tree \in [Directory -> [Name -> used' \cup {None}]]
      BY <1>2 DEF InUse
  <2>4. file' \in [Process -> used' \cup {None}]
      BY Parts
  <2>5. \A x \in File : x \notin used' => content'[x] = << >> /\ Old[x] = << >>
      BY <1>2, <1>6 DEF InUse
  <2> QED
      BY <1>2, <2>2, <2>3, <2>4, <2>5 DEF InUse
<1>12. EditorTypeOK'
  <2>1. pc' \in [Process -> {"start", "write", "read", "close", "done", "dead"}]
      BY Parts DEF Goes
  <2>2. file' \in [Process -> File \cup {None}]
      BY Parts
  <2>3. \A q \in Process : pc'[q] \in {"write", "read", "close"} => file'[q] # None
      BY <1>3, <1>4, <1>8, Parts
  <2> QED
      BY <1>1, <2>1, <2>2, <2>3, Parts DEF EditorTypeOK
<1>13. \A q \in Process : Standing(q)'
  <2> TAKE q \in Process
  <2>1. CASE q # p
      BY <1>1, <1>2, <1>3, <1>4, <2>1 DEF Standing
  <2>2. CASE q = p
    <3>1. pc'[p] = place /\ file'[p] = o
        BY <1>3, <1>4
    <3> QED
        BY <1>1, <1>2, <1>5, <2>2, <3>1 DEF Standing
  <2> QED BY <2>1, <2>2
<1>14. OwnBytes'
  <2> SUFFICES ASSUME NEW x \in File, NEW q \in Process, NEW k \in 1..Len(content'[x]),
                      NEW n \in 1..command[q].length, content'[x][k] = Stamp(q, n)
               PROVE  file'[q] = x /\ n <= written[q]
      BY <1>1 DEF OwnBytes, Stamp
  <2>1. content'[x] = content[x]
    <3>1. content'[x] # << >>
        OBVIOUS
    <3> QED BY <1>6, <3>1
  <2>2. file[q] = x /\ n <= written[q]
      BY <1>2, <2>1 DEF OwnBytes
  <2> QED
      BY <1>4, <1>5, <1>8, <2>2
<1>15. ASSUME NEW x \in File, Overwriters(x)' = {}
       PROVE  Overwriters(x) = {} /\ content'[x] = content[x]
    BY <1>6, <1>9, <1>15
<1>16. OldIsKept'
    BY <1>2, <1>15 DEF OldIsKept, IsPrefixOf
<1>17. ASSUME NEW q \in Process, q # p, file[q] # None
       PROVE  file'[q] = file[q] /\ file[q] \in File
    BY <1>4, <1>17, Parts
<1>18. \A q \in Process : Appended(q)'
  <2> SUFFICES ASSUME NEW q \in Process, command[q].op = "append",
                      NEW x \in File, file'[q] = x, Overwriters(x)' = {}
               PROVE  InOrder(q, Wrote(q), content'[x])
    <3>1. \A q : Wrote(q)' = Wrote(q)
        BY <1>1 DEF Wrote, Stamp
    <3>2. \A q, bytes, old : InOrder(q, bytes, old)' <=> InOrder(q, bytes, old)
        BY <1>1 DEF InOrder, Stamp
    <3> QED
        BY <1>1, <1>12, <3>1, <3>2 DEF Appended, EditorTypeOK
  <2>1. CASE q # p
    <3>1. file[q] = x /\ x # None
        BY <1>4, <1>8, <2>1
    <3>2. Overwriters(x) = {} /\ content'[x] = content[x]
        BY <1>15
    <3> QED
        BY <1>2, <3>1, <3>2 DEF Appended
  <2>2. CASE q = p
    <3>1. x = o /\ content'[o] = content[o] /\ content[o] \in Seq(Byte)
        BY <1>4, <1>6, <2>2, Parts
    <3>2. Wrote(p) = << >>
        BY <1>5 DEF Wrote
    <3>3. Len(<< >>) = 0 /\ 1..0 = {} /\ 2..0 = {}
        OBVIOUS
    <3>4. \A k \in 1..Len(content[o]) : ~\E n \in 1..command[p].length : content[o][k] = Stamp(p, n)
        BY <1>2, <1>5, <1>8 DEF OwnBytes
    <3> DEFINE none == [n \in 1..0 |-> 0]
    <3>5. none \in [1..0 -> 1..Len(content[o])]
        BY <3>3
    <3> HIDE DEF none
    <3>6. InOrder(p, << >>, content[o])
        BY <3>3, <3>4, <3>5 DEF InOrder
    <3> QED
        BY <2>2, <3>1, <3>2, <3>6
  <2> QED
      BY <2>1, <2>2
<1>19. \A q \in Process : Overwritten(q)'
  <2> SUFFICES ASSUME NEW q \in Process, NEW x \in File, file'[q] = x, Overwriters(x)' = {q}
               PROVE  /\ written[q] <= Len(content'[x])
                      /\ \A n \in 1..written[q] : content'[x][n] = Stamp(q, n)
                      /\ Writers(x)' = {q} => Len(content'[x]) = written[q]
    <3>1. \A q \in Process : file'[q] # None => file'[q] \in File
        BY <1>12 DEF EditorTypeOK
    <3>2. \A q, n : Stamp(q, n)' = Stamp(q, n)
        BY DEF Stamp
    <3> QED
        BY <1>1, <3>1, <3>2 DEF Overwritten
  <2>1. CASE q # p
    <3>1. file[q] = x /\ x # None
        BY <1>4, <1>8, <2>1
    <3>2. Overwriters(x) = {q} /\ content'[x] = content[x]
        BY ZenonT(60), <1>6, <1>9, <2>1, <3>1
    <3>3. Writers(x)' = {q} => Writers(x) = {q}
        BY <1>10, <3>1, <3>2 DEF Writers
    <3> QED
        BY <1>2, <3>1, <3>2, <3>3 DEF Overwritten
  <2>2. CASE q = p
    <3>1. x = o /\ command[p].op = "write"
        BY <1>1, <1>4, <2>2 DEF Overwriters
    <3>2. content'[o] = << >>
        BY <1>6, <3>1
    <3> QED
        BY <1>5, <2>2, <3>1, <3>2
  <2> QED
      BY <2>1, <2>2
<1>20. \A q \in Process : Created(q)'
  <2> SUFFICES ASSUME NEW q \in Process, command[q].op = "create", file'[q] # None
               PROVE  /\ \A d \in Directory, n \in Name : Tree[d][n] # file'[q]
                      /\ \A r \in Process \ {q} : file'[r] = file'[q] => command[r].op # "create"
      BY <1>1 DEF Created
  <2>1. CASE q # p
    <3>1. file'[q] = file[q] /\ file[q] \in used
        BY <1>17, <2>1, <1>4, Parts
    <3>2. command[p].op = "create" => file[q] # o
        BY <3>1
    <3>3. Created(q) /\ file[q] # None
        BY <1>2, <1>4, <2>1
    <3> QED
        BY <1>4, <3>1, <3>2, <3>3 DEF Created
  <2>2. CASE q = p
    <3>1. file'[p] = o /\ o \notin used /\ o # None
        BY <1>4, <1>8, <2>2
    <3>2. \A d \in Directory, n \in Name : Tree[d][n] # o
        BY <1>2, <3>1 DEF InUse
    <3>3. \A r \in Process \ {p} : file'[r] # o
        BY <1>4, <3>1, Parts
    <3> QED
        BY <2>2, <3>1, <3>2, <3>3
  <2> QED
      BY <2>1, <2>2
<1>21. \A q \in Process : Beginning(q)'
  <2> SUFFICES ASSUME NEW q \in Process, command[q].op = "read",
                      NEW x \in File, file'[q] = x, Overwriters(x)' = {}
               PROVE  /\ IsPrefixOf(buffer[q], content'[x])
                      /\ pc'[q] \in {"close", "done"} /\ status[q] = 0 => Len(buffer[q]) >= Len(Old[x])
      BY <1>1, <1>12 DEF Beginning, IsPrefixOf, EditorTypeOK
  <2>1. CASE q # p
    <3>1. file[q] = x /\ x # None /\ pc'[q] = pc[q]
        BY <1>3, <1>4, <1>8, <2>1
    <3>2. Overwriters(x) = {} /\ content'[x] = content[x]
        BY <1>15
    <3> QED
        BY <1>2, <3>1, <3>2 DEF Beginning
  <2>2. CASE q = p
    <3>1. pc'[p] = place /\ place # "close" /\ place # "done"
        BY <1>3, <2>2
    <3>2. content'[x] \in Seq(Byte)
        BY <1>7
    <3>3. IsPrefixOf(<< >>, content'[x])
        BY <3>2, EmptyPrefix
    <3> QED
        BY <1>5, <2>2, <3>1, <3>2, <3>3
  <2> QED
      BY <2>1, <2>2
<1> QED
    BY <1>11, <1>12, <1>13, <1>14, <1>16, <1>18, <1>19, <1>20, <1>21 DEF EditInv

(* write_all puts the next bytes into the file: behind everything, or      *)
(* behind what it has written.                                             *)
LEMMA WriteSomeStep ==
    ASSUME EditInv, NEW p \in Process, WriteSome(p)
    PROVE  EditInv'
<1> DEFINE o == file[p]
           old == content[o]
           w == written[p]
           off == Offset(p)
<1>1. /\ UNCHANGED <<at, used, command, pc, file, buffer, status>>
      /\ pc[p] = "write"
      /\ command[p].op \in {"write", "append"}
    BY DEF WriteSome, EditInv, Standing
<1>2. PICK n \in 1..Left(p) :
        /\ content' = [content EXCEPT ![o] = Put(@, off, [k \in 1..n |-> Stamp(p, w + k)])]
        /\ written' = [written EXCEPT ![p] = @ + n]
    BY DEF WriteSome
<1> DEFINE bytes == [k \in 1..n |-> Stamp(p, w + k)]
           new == Put(old, off, bytes)
<1>3. HostTypeOK /\ EditorTypeOK /\ InUse /\ OwnBytes /\ OldIsKept
      /\ \A q \in Process : Standing(q) /\ Appended(q) /\ Overwritten(q) /\ Created(q) /\ Beginning(q)
    BY DEF EditInv
<1>4. o \in File /\ old \in Seq(Byte) /\ Len(old) \in Nat /\ w \in Nat
  <2>1. o \in File /\ w \in Nat
      BY <1>1, Parts
  <2>2. old \in Seq(Byte) /\ Len(old) \in Nat
      BY <2>1, Parts, LenProperties
  <2> QED
      BY <2>1, <2>2
<1>a. off = IF command[p].op = "append" THEN Len(old) ELSE w
    BY DEF Offset
<1>b. n \in Nat /\ n >= 1 /\ w + n <= command[p].length /\ command[p].length \in Nat
  <2>1. command[p].length \in Nat
      BY Parts, CommandType
  <2>2. n \in 1..(command[p].length - w)
      BY DEF Left
  <2> HIDE DEF w
  <2> QED
      BY <1>4, <2>1, <2>2
<1>c. off \in Nat /\ (off = Len(old) \/ (command[p].op = "write" /\ off = w))
  <2> HIDE DEF off, w, old
  <2> QED
      BY <1>1, <1>4, <1>a
<1>d. off \in Nat /\ n \in Nat /\ n >= 1 /\ w \in Nat /\ Len(old) \in Nat
    BY <1>4, <1>b, <1>c
<1>5. bytes \in Seq(Byte) /\ Len(bytes) = n /\ \A k \in 1..n : bytes[k] = Stamp(p, w + k)
  <2>1. \A k \in 1..n : w + k \in 1..command[p].length
    <3> HIDE DEF w
    <3> QED
        BY <1>b, <1>d
  <2>2. \A k \in 1..n : Stamp(p, w + k) \in Byte
      BY <2>1, Parts, Stamps
  <2>3. bytes \in [1..n -> Byte]
      BY <2>2
  <2>4. bytes \in Seq(Byte)
      BY <1>d, <2>3, SeqDef
  <2> QED
      BY <1>d, <2>3, <2>4
<1>6. /\ new \in Seq(Byte)
      /\ Len(new) \in Nat
      /\ Len(new) = IF Len(old) > off + n THEN Len(old) ELSE off + n
      /\ \A k \in 1..Len(new) :
            new[k] = IF k \in (off + 1)..(off + n) THEN Stamp(p, w + (k - off))
                     ELSE IF k <= Len(old) THEN old[k] ELSE Hole
  <2> HIDE DEF bytes, old, off
  <2>1. /\ new \in Seq(Byte)
        /\ Len(new) = IF Len(old) > off + n THEN Len(old) ELSE off + n
        /\ \A k \in 1..Len(new) :
            new[k] = IF k \in (off + 1)..(off + n) THEN bytes[k - off]
                     ELSE IF k <= Len(old) THEN old[k] ELSE Hole
    <3>1. /\ new \in Seq(Byte)
          /\ Len(new) = IF Len(old) > off + Len(bytes) THEN Len(old) ELSE off + Len(bytes)
          /\ \A k \in 1..Len(new) :
            new[k] = IF k \in (off + 1)..(off + Len(bytes)) THEN bytes[k - off]
                     ELSE IF k <= Len(old) THEN old[k] ELSE Hole
      <4>1. old \in Seq(Byte) /\ off \in Nat /\ bytes \in Seq(Byte)
          BY <1>4, <1>5, <1>d
      <4> QED
          BY <4>1, PutType
    <3> HIDE DEF new
    <3> QED
        BY <1>5, <3>1
  <2> HIDE DEF new
  <2>2. Len(new) \in Nat
      BY <2>1, LenProperties
  <2>3. \A k \in (off + 1)..(off + n) : k - off \in 1..n
      BY <1>d
  <2>4. ASSUME NEW k \in 1..Len(new)
        PROVE  new[k] = IF k \in (off + 1)..(off + n) THEN Stamp(p, w + (k - off))
                        ELSE IF k <= Len(old) THEN old[k] ELSE Hole
    <3>1. CASE k \in (off + 1)..(off + n)
        BY <1>5, <2>1, <2>3, <3>1
    <3>2. CASE k \notin (off + 1)..(off + n)
        BY <2>1, <3>2
    <3> QED BY <3>1, <3>2
  <2>5. new \in Seq(Byte) /\ Len(new) = IF Len(old) > off + n THEN Len(old) ELSE off + n
      BY <2>1
  <2>6. \A k \in 1..Len(new) :
            new[k] = IF k \in (off + 1)..(off + n) THEN Stamp(p, w + (k - off))
                     ELSE IF k <= Len(old) THEN old[k] ELSE Hole
      BY <2>4
  <2> QED
      BY <2>2, <2>5, <2>6
<1>7. /\ \A x \in File : content'[x] = IF x = o THEN new ELSE content[x]
      /\ content' \in [File -> Seq(Byte)]
  <2> HIDE DEF new
  <2>1. content' = [content EXCEPT ![o] = new]
      BY <1>2 DEF new
  <2> HIDE DEF o
  <2> QED
      BY <1>4, <1>6, <2>1, Parts
<1>8. \A q \in Process : written'[q] = IF q = p THEN w + n ELSE written[q]
    BY <1>2, Parts
<1>9. \A x : Overwriters(x)' = Overwriters(x) /\ Writers(x)' = Writers(x)
    BY <1>1 DEF Overwriters, Writers
<1>10. /\ p \in Writers(o)
       /\ command[p].op = "write" => p \in Overwriters(o)
       /\ Overwriters(o) = {} => command[p].op = "append"
    BY <1>1 DEF Overwriters, Writers
<1> HIDE DEF o, old, w, off, bytes, new
<1>11. command[p].op = "append" =>
            /\ off = Len(old) /\ Len(new) = Len(old) + n
            /\ \A k \in 1..Len(old) : k \in 1..Len(new) /\ new[k] = old[k]
            /\ \A k \in (Len(old) + 1)..Len(new) : new[k] = Stamp(p, w + (k - Len(old)))
            /\ \A k \in 1..Len(new) : k \in 1..Len(old) \/ k \in (Len(old) + 1)..Len(new)
  <2> SUFFICES ASSUME command[p].op = "append"
               PROVE  /\ off = Len(old) /\ Len(new) = Len(old) + n
                      /\ \A k \in 1..Len(old) : k \in 1..Len(new) /\ new[k] = old[k]
                      /\ \A k \in (Len(old) + 1)..Len(new) : new[k] = Stamp(p, w + (k - Len(old)))
                      /\ \A k \in 1..Len(new) : k \in 1..Len(old) \/ k \in (Len(old) + 1)..Len(new)
      OBVIOUS
  <2>1. off = Len(old)
      BY <1>a
  <2>2. Len(new) = Len(old) + n
      BY <1>6, <1>d, <2>1
  <2> QED
      BY <1>6, <1>d, <2>1, <2>2
<1>12. command' = command /\ file' = file /\ pc' = pc /\ status' = status /\ buffer' = buffer
    BY <1>1
<1>13. HostTypeOK' /\ InUse'
  <2>1. HostTypeOK'
      BY <1>1, <1>3, <1>7 DEF HostTypeOK
  <2>2. \A x \in File : x \notin used => x # o
      BY <1>1, <1>4, Kinds, Parts DEF o
  <2>3. \A x \in File : x \notin used' => content'[x] = << >> /\ Old[x] = << >>
      BY <1>1, <1>3, <1>7, <2>2 DEF InUse
  <2> QED
      BY <1>1, <1>3, <2>1, <2>3 DEF InUse
<1>14. EditorTypeOK'
  <2>1. written' \in [Process -> Nat]
      BY <1>2, <1>d, Parts DEF w
  <2>2. \A q \in Process : written'[q] <= command[q].length
      BY <1>8, <1>b, Parts
  <2> QED
      BY <1>12, <2>1, <2>2, Parts DEF EditorTypeOK
<1>15. \A q \in Process : Standing(q)'
  <2> TAKE q \in Process
  <2>1. CASE q # p
      BY <1>3, <1>8, <1>12, <2>1 DEF Standing
  <2>2. CASE q = p
      BY <1>1, <1>3, <1>12, <2>2 DEF Standing
  <2> QED BY <2>1, <2>2
<1>16. OwnBytes'
  <2> SUFFICES ASSUME NEW x \in File, NEW q \in Process, NEW k \in 1..Len(content'[x]),
                      NEW m \in 1..command[q].length, content'[x][k] = Stamp(q, m)
               PROVE  file[q] = x /\ m <= written'[q]
    <3>1. \A q, m : Stamp(q, m)' = Stamp(q, m)
        BY DEF Stamp
    <3> QED
        BY <1>12, <3>1 DEF OwnBytes
  <2>1. written[q] \in Nat /\ written'[q] \in Nat /\ written[q] <= written'[q] /\ m \in Nat
    <3>1. written[q] \in Nat
        BY Parts
    <3>2. CASE q = p
        BY <1>8, <1>d, <3>2 DEF w
    <3>3. written'[q] \in Nat /\ command[q].length \in Nat
        BY <1>14, Parts, CommandType DEF EditorTypeOK
    <3> QED
        BY <1>8, <3>1, <3>2, <3>3
  <2>2. CASE x # o \/ (k \in 1..Len(old) /\ content'[x][k] = old[k])
    <3>1. k \in 1..Len(content[x]) /\ content[x][k] = Stamp(q, m)
        BY <1>7, <2>2 DEF old
    <3>2. file[q] = x /\ m <= written[q]
        BY <1>3, <3>1 DEF OwnBytes
    <3> QED
        BY <2>1, <3>2
  <2>3. CASE x = o /\ k \in (off + 1)..(off + n)
    <3>1. k \in 1..Len(new) /\ content'[x] = new
        BY <1>7, <2>3
    <3>2. new[k] = Stamp(p, w + (k - off))
        BY <1>6, <2>3, <3>1
    <3>3. q = p /\ m = w + (k - off)
        BY <3>1, <3>2, Parts, Stamps
    <3>4. m <= w + n
        BY <1>d, <2>3, <3>3
    <3> QED
      <4>1. file[q] = x
          BY <2>3, <3>3 DEF o
      <4>2. written'[q] = w + n
          BY <1>8, <3>3
      <4> QED
          BY <3>4, <4>1, <4>2
  <2>4. CASE x = o /\ k \notin (off + 1)..(off + n) /\ k \notin 1..Len(old)
    <3>1. k \in 1..Len(new) /\ content'[x] = new
        BY <1>7, <2>4
    <3>2. new[k] = Hole
        BY <1>6, <1>d, <2>4, <3>1
    <3> QED
        BY <3>1, <3>2, Parts, Stamps
  <2>5. CASE x = o /\ k \notin (off + 1)..(off + n) /\ k \in 1..Len(old)
    <3>1. k \in 1..Len(new) /\ content'[x] = new
        BY <1>7, <2>5
    <3>2. new[k] = old[k]
        BY <1>6, <1>d, <2>5, <3>1
    <3> QED
        BY <2>2, <2>5, <3>1, <3>2
  <2> QED
      BY <2>2, <2>3, <2>4, <2>5
<1>17. OldIsKept'
  <2> SUFFICES ASSUME NEW x \in File, Overwriters(x) = {}
               PROVE  IsPrefixOf(Old[x], content'[x])
      BY <1>9 DEF OldIsKept, IsPrefixOf
  <2>1. IsPrefixOf(Old[x], content[x])
      BY <1>3 DEF OldIsKept
  <2>2. CASE x # o
      BY <1>7, <2>1, <2>2
  <2>3. CASE x = o
    <3>1. content[x] = old /\ content'[x] = new /\ Old[x] \in Seq(Byte) /\ Len(Old[x]) \in Nat
        BY <1>7, <2>3, Parts, LenProperties DEF old
    <3>2. Len(Old[x]) <= Len(old) /\ \A k \in 1..Len(Old[x]) : old[k] = Old[x][k]
        BY <1>4, <2>1, <3>1, PrefixIff
    <3>3. Len(Old[x]) <= Len(new) /\ \A k \in 1..Len(Old[x]) : new[k] = Old[x][k]
        BY <1>4, <1>10, <1>11, <2>3, <3>1, <3>2
    <3> QED
        BY <1>6, <3>1, <3>3, PrefixIff
  <2> QED BY <2>2, <2>3

<1>18. ASSUME NEW q \in Process, NEW x \in File, file[q] = x, x # o
       PROVE  content'[x] = content[x] /\ q # p
    BY <1>7, <1>18 DEF o
<1>19. \A q \in Process : Appended(q)'
  <2> SUFFICES ASSUME NEW q \in Process, command[q].op = "append",
                      NEW x \in File, file[q] = x, Overwriters(x) = {}
               PROVE  InOrder(q, Wrote(q)', content'[x])
    <3>1. \A r, b, c : InOrder(r, b, c)' <=> InOrder(r, b, c)
        BY <1>12 DEF InOrder, Stamp
    <3> QED
        BY <1>9, <1>12, <3>1, Parts DEF Appended
  <2>1. InOrder(q, Wrote(q), content[x]) /\ x # None
      BY <1>3, Kinds DEF Appended
  <2>2. CASE x # o
    <3>1. content'[x] = content[x] /\ written'[q] = written[q]
        BY <1>8, <1>18, <2>2
    <3>2. Wrote(q)' = Wrote(q)
        BY <3>1 DEF Wrote, Stamp
    <3> QED
        BY <2>1, <3>1, <3>2
  <2>3. CASE x = o
    <3> DEFINE had == Wrote(q)
               have == [m \in 1..written'[q] |-> Stamp(q, m)]
    <3>1. content[x] = old /\ content'[x] = new /\ have = Wrote(q)'
        BY <1>7, <2>3 DEF old, Wrote, Stamp
    <3>2. /\ written[q] \in Nat /\ written'[q] \in Nat
          /\ Len(had) = written[q] /\ Len(have) = written'[q]
          /\ \A m \in 1..written[q] : had[m] = Stamp(q, m)
          /\ \A m \in 1..written'[q] : have[m] = Stamp(q, m)
      <4>1. written[q] \in Nat
          BY Parts
      <4>2. written'[q] \in Nat
          BY <1>14 DEF EditorTypeOK
      <4> QED
          BY <4>1, <4>2 DEF Wrote
    <3> HIDE DEF had, have
    <3>3. PICK place \in [1..written[q] -> 1..Len(old)] :
            /\ \A m \in 1..written[q] : old[place[m]] = Stamp(q, m)
            /\ \A m \in 2..written[q] : place[m - 1] < place[m]
            /\ \A k \in 1..Len(old) : (\E m \in 1..command[q].length : old[k] = Stamp(q, m)) =>
                                         \E m \in 1..written[q] : k = place[m]
      <4>1. InOrder(q, had, old)
          BY <2>1, <3>1 DEF had
      <4>2. PICK place \in [1..Len(had) -> 1..Len(old)] :
            /\ \A m \in 1..Len(had) : old[place[m]] = had[m]
            /\ \A m \in 2..Len(had) : place[m - 1] < place[m]
            /\ \A k \in 1..Len(old) : (\E m \in 1..command[q].length : old[k] = Stamp(q, m)) =>
                                         \E m \in 1..Len(had) : k = place[m]
          BY <4>1 DEF InOrder
      <4>3. Len(had) = written[q] /\ \A m \in 1..written[q] : had[m] = Stamp(q, m)
          BY <3>2
      <4>4. place \in [1..written[q] -> 1..Len(old)]
          BY <4>2, <4>3
      <4>5. \A m \in 1..written[q] : old[place[m]] = Stamp(q, m)
          BY <4>2, <4>3
      <4>6. /\ \A m \in 2..written[q] : place[m - 1] < place[m]
            /\ \A k \in 1..Len(old) : (\E m \in 1..command[q].length : old[k] = Stamp(q, m)) =>
                                         \E m \in 1..written[q] : k = place[m]
          BY <4>2, <4>3
      <4> QED
          BY <4>4, <4>5, <4>6
    <3>4. /\ command[p].op = "append" /\ off = Len(old) /\ Len(new) = Len(old) + n
          /\ \A k \in 1..Len(old) : k \in 1..Len(new) /\ new[k] = old[k]
          /\ \A k \in (Len(old) + 1)..Len(new) : new[k] = Stamp(p, w + (k - Len(old)))
          /\ \A k \in 1..Len(new) : k \in 1..Len(old) \/ k \in (Len(old) + 1)..Len(new)
        BY <1>10, <1>11, <2>3
    <3> SUFFICES \E put \in [1..written'[q] -> 1..Len(new)] :
            /\ \A m \in 1..written'[q] : new[put[m]] = Stamp(q, m)
            /\ \A m \in 2..written'[q] : put[m - 1] < put[m]
            /\ \A k \in 1..Len(new) : (\E m \in 1..command[q].length : new[k] = Stamp(q, m)) =>
                                         \E m \in 1..written'[q] : k = put[m]
        BY SMTT(30), <3>1, <3>2 DEF InOrder
    <3>5. CASE q # p
      <4>1. written'[q] = written[q]
          BY <1>8, <3>5
      <4>2. place \in [1..written'[q] -> 1..Len(new)]
          BY <3>4, <4>1
      <4>3. ASSUME NEW k \in 1..Len(new), NEW m \in 1..command[q].length, new[k] = Stamp(q, m)
            PROVE  k \in 1..Len(old) /\ old[k] = Stamp(q, m)
        <5>1. CASE k \in 1..Len(old)
            BY <3>4, <4>3, <5>1
        <5>2. CASE k \in (Len(old) + 1)..Len(new)
          <6>1. Stamp(q, m) = Stamp(p, w + (k - Len(old)))
              BY <3>4, <4>3, <5>2
          <6> QED
              BY <3>5, <6>1, Parts, Stamps
        <5> QED
            BY <3>4, <5>1, <5>2
      <4>4. \A m \in 1..written'[q] : new[place[m]] = Stamp(q, m)
          BY <3>3, <3>4, <4>1
      <4>5. /\ \A m \in 2..written'[q] : place[m - 1] < place[m]
            /\ \A k \in 1..Len(new) : (\E m \in 1..command[q].length : new[k] = Stamp(q, m)) =>
                                         \E m \in 1..written'[q] : k = place[m]
          BY <3>3, <4>1, <4>3
      <4> QED
          BY <4>2, <4>4, <4>5
    <3>6. CASE q = p
      <4>1. written[q] = w /\ written'[q] = w + n
          BY <1>8, <3>6 DEF w
      <4> DEFINE put == [m \in 1..(w + n) |-> IF m <= w THEN place[m] ELSE Len(old) + (m - w)]
      <4>2. \A m \in 1..(w + n) :
              \/ m \in 1..w /\ put[m] = place[m] /\ put[m] \in 1..Len(old)
              \/ m \in (w + 1)..(w + n) /\ put[m] = Len(old) + (m - w) /\ put[m] \in (Len(old) + 1)..(Len(old) + n)
        <5> TAKE m \in 1..(w + n)
        <5>1. CASE m <= w
          <6>1. m \in 1..w
              BY <1>d, <5>1
          <6> QED
              BY <3>3, <4>1, <5>1, <6>1
        <5>2. CASE ~(m <= w)
          <6>1. m \in (w + 1)..(w + n)
              BY <1>d, <5>2
          <6>2. Len(old) + (m - w) \in (Len(old) + 1)..(Len(old) + n)
              BY <1>d, <6>1
          <6> QED
              BY <5>2, <6>1, <6>2
        <5> QED BY <5>1, <5>2
      <4>3. put \in [1..(w + n) -> 1..Len(new)]
        <5>1. \A m \in 1..(w + n) : put[m] \in 1..Len(new)
          <6> HIDE DEF put
          <6> QED
              BY <1>d, <3>4, <4>2
        <5> QED BY <5>1
      <4> HIDE DEF put
      <4>4. \A m \in 1..(w + n) : new[put[m]] = Stamp(q, m)
        <5> TAKE m \in 1..(w + n)
        <5>1. CASE m \in 1..w /\ put[m] = place[m] /\ put[m] \in 1..Len(old)
            BY <3>3, <3>4, <4>1, <5>1
        <5>2. CASE m \in (w + 1)..(w + n) /\ put[m] = Len(old) + (m - w) /\ put[m] \in (Len(old) + 1)..(Len(old) + n)
          <6>1. new[put[m]] = Stamp(p, w + (put[m] - Len(old)))
              BY <3>4, <5>2
          <6>2. w + (put[m] - Len(old)) = m
              BY <1>d, <5>2
          <6> QED
              BY <3>6, <6>1, <6>2
        <5> QED
            BY <4>2, <5>1, <5>2
      <4>5. \A m \in 2..(w + n) : put[m - 1] < put[m]
        <5> TAKE m \in 2..(w + n)
        <5>1. m \in 1..(w + n) /\ m - 1 \in 1..(w + n)
            BY <1>d
        <5>2. CASE m <= w
          <6>1. put[m] = place[m] /\ put[m - 1] = place[m - 1] /\ m \in 2..w
              BY <1>d, <4>2, <5>1, <5>2
          <6> QED
              BY <3>3, <4>1, <6>1
        <5>3. CASE m > w /\ m - 1 <= w
          <6>1. put[m] \in (Len(old) + 1)..(Len(old) + n) /\ put[m - 1] \in 1..Len(old)
              BY <1>d, <4>2, <5>1, <5>3
          <6> QED
              BY <1>d, <6>1
        <5>4. CASE m - 1 > w
          <6>1. put[m] = Len(old) + (m - w) /\ put[m - 1] = Len(old) + (m - 1 - w)
              BY <1>d, <4>2, <5>1, <5>4
          <6> QED
              BY <1>d, <6>1
        <5> QED
            BY <1>d, <5>2, <5>3, <5>4
      <4>6. ASSUME NEW k \in 1..Len(new),
                   \E m \in 1..command[q].length : new[k] = Stamp(q, m)
            PROVE  \E m \in 1..(w + n) : k = put[m]
        <5>1. CASE k \in 1..Len(old)
          <6>1. new[k] = old[k]
              BY <3>4, <5>1
          <6>2. PICK m \in 1..w : k = place[m]
              BY <3>3, <4>1, <4>6, <5>1, <6>1
          <6>3. m \in 1..(w + n) /\ put[m] = place[m]
              BY <1>d, <4>2, <6>2
          <6> QED
              BY <6>2, <6>3
        <5>2. CASE k \in (Len(old) + 1)..Len(new)
          <6> DEFINE m == w + (k - Len(old))
          <6>1. m \in (w + 1)..(w + n) /\ m \in 1..(w + n) /\ Len(old) + (m - w) = k
              BY <1>d, <3>4, <5>2
          <6> HIDE DEF m
          <6>2. put[m] = Len(old) + (m - w)
              BY <1>d, <4>2, <6>1
          <6> QED
              BY <6>1, <6>2
        <5> QED
            BY <3>4, <5>1, <5>2
      <4> QED
          BY ZenonT(60), <4>1, <4>3, <4>4, <4>5, <4>6
    <3> QED
        BY <3>5, <3>6
  <2> QED
      BY <2>2, <2>3
<1>20. \A q \in Process : Overwritten(q)'
  <2> SUFFICES ASSUME NEW q \in Process, NEW x \in File, file[q] = x, Overwriters(x) = {q}
               PROVE  /\ written'[q] <= Len(content'[x])
                      /\ \A m \in 1..written'[q] : content'[x][m] = Stamp(q, m)
                      /\ Writers(x) = {q} => Len(content'[x]) = written'[q]
    <3>1. \A r, m : Stamp(r, m)' = Stamp(r, m)
        BY DEF Stamp
    <3> QED
        BY <1>9, <1>12, <3>1, Parts DEF Overwritten
  <2>1. /\ written[q] \in Nat /\ written[q] <= Len(content[x])
        /\ \A m \in 1..written[q] : content[x][m] = Stamp(q, m)
        /\ Writers(x) = {q} => Len(content[x]) = written[q]
      BY <1>3, Kinds, Parts DEF Overwritten
  <2>2. CASE x # o
    <3>1. content'[x] = content[x] /\ written'[q] = written[q]
        BY <1>8, <1>18, <2>2
    <3> QED
        BY <2>1, <3>1
  <2>3. CASE x = o
    <3>1. content[x] = old /\ content'[x] = new
        BY <1>7, <2>3 DEF old
    <3>2. CASE q # p
      <4>1. p \notin Overwriters(o) /\ Writers(x) # {q}
          BY <1>10, <2>3, <3>2
      <4>2. command[p].op = "append" /\ written'[q] = written[q]
          BY <1>1, <1>8, <1>10, <3>2, <4>1
      <4>3. Len(new) = Len(old) + n /\ \A m \in 1..Len(old) : new[m] = old[m]
          BY <1>11, <4>2
      <4>4. \A m \in 1..written[q] : m \in 1..Len(old)
          BY <1>d, <2>1, <3>1
      <4>5. \A m \in 1..written[q] : new[m] = Stamp(q, m)
          BY <2>1, <3>1, <4>3, <4>4
      <4>6. written[q] <= Len(new)
          BY <1>d, <2>1, <3>1, <4>3
      <4> QED
          BY <3>1, <4>1, <4>2, <4>5, <4>6
    <3>3. CASE q = p
      <4>1. command[p].op = "write" /\ off = w /\ written[q] = w /\ written'[q] = w + n
          BY <1>8, <1>a, <2>3, <3>3 DEF Overwriters, w
      <4>2. w <= Len(old) /\ \A m \in 1..w : old[m] = Stamp(p, m)
          BY <2>1, <3>1, <3>3, <4>1
      <4>3. w + n <= Len(new) /\ (Len(old) = w => Len(new) = w + n)
          BY <1>6, <1>d, <4>1
      <4>4. \A m \in 1..(w + n) : new[m] = Stamp(p, m)
        <5> TAKE m \in 1..(w + n)
        <5>1. m \in 1..Len(new)
            BY <1>6, <1>d, <4>3
        <5>2. CASE m <= w
          <6>1. m \notin (off + 1)..(off + n) /\ m <= Len(old) /\ m \in 1..w
              BY <1>d, <4>1, <4>2, <5>2
          <6> QED
              BY <1>6, <4>2, <5>1, <6>1
        <5>3. CASE m > w
          <6>1. m \in (off + 1)..(off + n) /\ w + (m - off) = m
              BY <1>d, <4>1, <5>3
          <6> QED
              BY <1>6, <5>1, <6>1
        <5> QED
            BY <1>d, <5>2, <5>3
      <4> QED
          BY <2>1, <3>1, <3>3, <4>1, <4>3, <4>4
    <3> QED
        BY <3>2, <3>3
  <2> QED
      BY <2>2, <2>3
<1>21. \A q \in Process : Created(q)'
    BY <1>3, <1>12 DEF Created
<1>22. \A q \in Process : Beginning(q)'
  <2> SUFFICES ASSUME NEW q \in Process, command[q].op = "read",
                      NEW x \in File, file[q] = x, Overwriters(x) = {}
               PROVE  /\ IsPrefixOf(buffer[q], content'[x])
                      /\ pc[q] \in {"close", "done"} /\ status[q] = 0 => Len(buffer[q]) >= Len(Old[x])
    BY <1>9, <1>12, Parts DEF Beginning, IsPrefixOf
  <2>1. /\ IsPrefixOf(buffer[q], content[x])
        /\ pc[q] \in {"close", "done"} /\ status[q] = 0 => Len(buffer[q]) >= Len(Old[x])
      BY <1>3, Kinds DEF Beginning
  <2>2. CASE x # o
      BY <1>18, <2>1, <2>2
  <2>3. CASE x = o
    <3>1. content[x] = old /\ content'[x] = new /\ buffer[q] \in Seq(Byte) /\ Len(buffer[q]) \in Nat
        BY <1>7, <2>3, Parts, LenProperties DEF old
    <3>2. Len(buffer[q]) <= Len(old) /\ \A k \in 1..Len(buffer[q]) : old[k] = buffer[q][k]
        BY <1>4, <2>1, <3>1, PrefixIff
    <3>3. Len(new) = Len(old) + n /\ \A k \in 1..Len(old) : new[k] = old[k]
        BY <1>10, <1>11, <2>3
    <3>4. \A k \in 1..Len(buffer[q]) : k \in 1..Len(old)
        BY <1>d, <3>1, <3>2
    <3>5. Len(buffer[q]) <= Len(new) /\ \A k \in 1..Len(buffer[q]) : new[k] = buffer[q][k]
        BY <1>d, <3>1, <3>2, <3>3, <3>4
    <3>6. IsPrefixOf(buffer[q], new)
        BY <1>6, <3>1, <3>5, PrefixIff
    <3> QED
        BY <2>1, <3>1, <3>6
  <2> QED BY <2>2, <2>3
<1> QED
    BY <1>13, <1>14, <1>15, <1>16, <1>17, <1>19, <1>20, <1>21, <1>22 DEF EditInv

(* editor_read_file takes what follows in the file at that time.           *)
LEMMA ReadSomeStep ==
    ASSUME EditInv, NEW p \in Process, ReadSome(p)
    PROVE  EditInv'
<1> DEFINE o == file[p]
           old == content[o]
           had == buffer[p]
<1>1. /\ UNCHANGED <<at, used, content, command, pc, file, written, status>>
      /\ pc[p] = "read" /\ command[p].op = "read"
    BY DEF ReadSome, EditInv, Standing, host
<1>2. PICK n \in (Len(had) + 1)..Len(old) :
        buffer' = [buffer EXCEPT ![p] = @ \o SubSeq(old, Len(had) + 1, n)]
    BY DEF ReadSome
<1> DEFINE more == SubSeq(old, Len(had) + 1, n)
           have == had \o more
<1>3. HostTypeOK /\ EditorTypeOK /\ InUse /\ OwnBytes /\ OldIsKept
      /\ \A q \in Process : Standing(q) /\ Appended(q) /\ Overwritten(q) /\ Created(q) /\ Beginning(q)
    BY DEF EditInv
<1>4. /\ o \in File /\ old \in Seq(Byte) /\ Len(old) \in Nat
      /\ had \in Seq(Byte) /\ Len(had) \in Nat
  <2>1. o \in File
      BY <1>1, Parts
  <2> QED
      BY <2>1, Parts, LenProperties
<1>5. buffer' = [buffer EXCEPT ![p] = have]
    BY <1>2
<1> HIDE DEF o, old, had
<1>6. /\ more \in Seq(Byte) /\ Len(more) = n - Len(had)
      /\ \A k \in 1..(n - Len(had)) : more[k] = old[Len(had) + k]
  <2>1. \A k \in (Len(had) + 1)..n : old[k] \in Byte
      BY <1>4, ElementOfSeq
  <2>2. /\ more \in Seq(Byte)
        /\ Len(more) = IF Len(had) + 1 <= n THEN n - (Len(had) + 1) + 1 ELSE 0
        /\ \A k \in 1..(n - (Len(had) + 1) + 1) : more[k] = old[Len(had) + 1 + k - 1]
      BY <1>4, <2>1, SubSeqProperties
  <2> HIDE DEF more
  <2>3. n - (Len(had) + 1) + 1 = n - Len(had) /\ \A k \in Int : Len(had) + 1 + k - 1 = Len(had) + k
      BY <1>4
  <2>4. Len(had) + 1 <= n
      BY <1>4
  <2> QED
      BY <2>2, <2>3, <2>4
<1> HIDE DEF more
<1>7. /\ have \in Seq(Byte) /\ Len(have) = n
      /\ \A k \in 1..n : have[k] = IF k <= Len(had) THEN had[k] ELSE old[k]
  <2>1. /\ have \in Seq(Byte) /\ Len(have) = Len(had) + Len(more)
        /\ \A k \in 1..(Len(had) + Len(more)) : have[k] = IF k <= Len(had) THEN had[k] ELSE more[k - Len(had)]
      BY <1>4, <1>6, ConcatProperties
  <2> HIDE DEF have
  <2>2. Len(had) + Len(more) = n
      BY <1>4, <1>6
  <2>3. \A k \in 1..n : k > Len(had) => k - Len(had) \in 1..(n - Len(had)) /\ Len(had) + (k - Len(had)) = k
      BY <1>4
  <2>4. ASSUME NEW k \in 1..n
        PROVE  have[k] = IF k <= Len(had) THEN had[k] ELSE old[k]
    <3>1. CASE k <= Len(had)
        BY <2>1, <2>2, <3>1
    <3>2. CASE k > Len(had)
      <4>1. have[k] = more[k - Len(had)]
          BY <1>4, <2>1, <2>2, <3>2
      <4>2. more[k - Len(had)] = old[k]
          BY <1>6, <2>3, <3>2
      <4> QED
          BY <1>4, <3>2, <4>1, <4>2
    <3> QED
        BY <1>4, <3>1, <3>2
  <2>5. have \in Seq(Byte) /\ Len(have) = n
      BY <2>1, <2>2
  <2> QED
      BY <2>4, <2>5
<1> HIDE DEF have
<1>8. \A q \in Process : buffer'[q] = IF q = p THEN have ELSE buffer[q]
    BY <1>5, Parts
<1>9. content' = content /\ command' = command /\ file' = file /\ written' = written /\ pc' = pc /\ status' = status
    BY <1>1
<1>10. HostTypeOK' /\ InUse'
    BY <1>1, <1>3 DEF HostTypeOK, InUse
<1>11. EditorTypeOK'
  <2>1. buffer' \in [Process -> Seq(Byte)]
      BY <1>5, <1>7, Parts
  <2> QED
      BY <1>9, <2>1, Parts DEF EditorTypeOK
<1>12. \A q \in Process : Standing(q)'
  <2> TAKE q \in Process
  <2>1. CASE q # p
      BY <1>3, <1>8, <1>9, <2>1 DEF Standing
  <2>2. CASE q = p
      BY <1>1, <1>3, <1>9, <2>2 DEF Standing
  <2> QED BY <2>1, <2>2
<1>13. /\ OwnBytes' /\ OldIsKept'
       /\ \A q \in Process : Appended(q)' /\ Overwritten(q)' /\ Created(q)'
    BY <1>3, <1>9, ContentsKept
<1>14. \A q \in Process : Beginning(q)'
  <2>1. \A x : Overwriters(x)' = Overwriters(x)
      BY <1>9 DEF Overwriters
  <2> SUFFICES ASSUME NEW q \in Process, command[q].op = "read",
                      NEW x \in File, file[q] = x, Overwriters(x) = {}
               PROVE  /\ IsPrefixOf(buffer'[q], content[x])
                      /\ pc[q] \in {"close", "done"} /\ status[q] = 0 => Len(buffer'[q]) >= Len(Old[x])
    BY <1>9, <2>1, Parts DEF Beginning, IsPrefixOf
  <2>2. /\ IsPrefixOf(buffer[q], content[x])
        /\ pc[q] \in {"close", "done"} /\ status[q] = 0 => Len(buffer[q]) >= Len(Old[x])
      BY <1>3, Kinds DEF Beginning
  <2>3. CASE q # p
      BY <1>8, <2>2, <2>3
  <2>4. CASE q = p
    <3>1. x = o /\ content[x] = old /\ buffer[q] = had /\ buffer'[q] = have
        BY <1>8, <2>4 DEF o, old, had
    <3>2. Len(had) <= Len(old) /\ \A k \in 1..Len(had) : old[k] = had[k]
        BY <1>4, <2>2, <3>1, PrefixIff
    <3>3. n <= Len(old) /\ \A k \in 1..n : old[k] = have[k]
      <4>1. \A k \in 1..n : k <= Len(had) => k \in 1..Len(had)
          BY <1>4
      <4>2. n <= Len(old)
          BY <1>4
      <4> QED
          BY <1>7, <3>2, <4>1, <4>2
    <3>4. IsPrefixOf(have, old)
        BY <1>4, <1>7, <3>3, PrefixIff
    <3> QED
        BY <1>1, <2>4, <3>1, <3>4
  <2> QED BY <2>3, <2>4
<1> QED
    BY <1>10, <1>11, <1>12, <1>13, <1>14 DEF EditInv

(* What a system call does to the tree: it names objects in use.           *)
LEMMA CallsKeepTree ==
    ASSUME EditInv, NEW from \in Seq(Name), NEW to \in Seq(Name)
    PROVE  /\ Unlink(from) \/ Rename(from, to) \/ AddLink(from, to) =>
                /\ UNCHANGED <<content, used>>
                /\ at' \in [Directory -> [Name -> used \cup {None}]]
           /\ \A o \in Object : Make(from, o) =>
                /\ used' = used \cup {o} /\ o \notin used
                /\ at' \in [Directory -> [Name -> used' \cup {None}]]
<1>1. Top \in used /\ at \in [Directory -> [Name -> used \cup {None}]]
    BY DEF EditInv, InUse
<1>2. Lookup(from) \in used \cup {None}
    BY <1>1, LookupType
<1>3. ASSUME Unlink(from)
      PROVE  UNCHANGED <<content, used>> /\ at' \in [Directory -> [Name -> used \cup {None}]]
    BY <1>1, <1>3, EnterType DEF Unlink, Enter
<1>4. ASSUME AddLink(from, to)
      PROVE  UNCHANGED <<content, used>> /\ at' \in [Directory -> [Name -> used \cup {None}]]
    BY <1>1, <1>2, <1>4, EnterType DEF AddLink, Enter
<1>5. ASSUME Rename(from, to)
      PROVE  UNCHANGED <<content, used>> /\ at' \in [Directory -> [Name -> used \cup {None}]]
  <2> DEFINE gone == [at EXCEPT ![Lookup(Parent(from))][LastName(from)] = None]
  <2>1. gone \in [Directory -> [Name -> used \cup {None}]]
      BY <1>1, EnterType
  <2>2. at' = at \/ at' = [gone EXCEPT ![Lookup(Parent(to))][LastName(to)] = Lookup(from)]
      BY <1>5 DEF Rename
  <2> HIDE DEF gone
  <2>3. at' \in [Directory -> [Name -> used \cup {None}]]
    <3>1. [gone EXCEPT ![Lookup(Parent(to))][LastName(to)] = Lookup(from)] \in [Directory -> [Name -> used \cup {None}]]
        BY <1>2, <2>1, EnterType
    <3> QED
        BY <1>1, <2>2, <3>1
  <2> QED
      BY <1>5, <2>3 DEF Rename
<1>6. ASSUME NEW o \in Object, Make(from, o)
      PROVE  /\ used' = used \cup {o} /\ o \notin used
             /\ at' \in [Directory -> [Name -> used' \cup {None}]]
  <2>1. used' = used \cup {o} /\ o \notin used /\ Enter(from, o)
      BY <1>6 DEF Make
  <2>2. at \in [Directory -> [Name -> used' \cup {None}]] /\ o \in used' \cup {None}
      BY <1>1, <2>1
  <2>3. at' \in [Directory -> [Name -> used' \cup {None}]]
      BY <2>1, <2>2, EnterType DEF Enter
  <2> QED
      BY <2>1, <2>3
<1> QED
    BY <1>3, <1>4, <1>5, <1>6

LEMMA OneCallStep ==
    ASSUME EditInv, NEW p \in Process, OneCall(p)
    PROVE  EditInv'
<1>1. pc[p] = "start" /\ Goes(p, "done") /\ UNCHANGED <<command, file, written, buffer, status>>
    BY DEF OneCall, At
<1>2. Path(p) \in Seq(Name) /\ To(p) \in Seq(Name)
    BY Parts, CommandType DEF Path, To
<1>3. /\ UNCHANGED content /\ used \subseteq used' /\ used' \subseteq Object
      /\ at' \in [Directory -> [Name -> used' \cup {None}]]
  <2>1. CASE Unlink(Path(p)) \/ Rename(Path(p), To(p)) \/ AddLink(Path(p), To(p))
    <3>1. UNCHANGED <<content, used>> /\ at' \in [Directory -> [Name -> used \cup {None}]]
        BY <1>2, <2>1, CallsKeepTree
    <3>2. used' = used /\ content' = content
        BY <3>1
    <3> QED
        BY <3>1, <3>2, Parts
  <2>2. CASE \E o \in Link : Make(To(p), o) /\ UNCHANGED content
    <3>1. PICK o \in Link : Make(To(p), o) /\ UNCHANGED content
        BY <2>2
    <3>2. o \in Object
        BY Kinds
    <3>3. used' = used \cup {o} /\ at' \in [Directory -> [Name -> used' \cup {None}]]
        BY <1>2, <3>1, <3>2, CallsKeepTree
    <3> QED
        BY <3>1, <3>2, <3>3, Parts
  <2> QED
      BY <2>1, <2>2 DEF OneCall
<1>4. file[p] = None
    BY <1>1 DEF EditInv, Standing
<1> QED
    BY <1>1, <1>3, <1>4, Moved

LEMMA OpenNewStep ==
    ASSUME EditInv, NEW p \in Process, OpenNew(p)
    PROVE  EditInv'
<1> DEFINE op == command[p].op
           place == IF op = "create" THEN "close" ELSE "write"
           path == IF Exclusive(op) THEN Path(p) ELSE Follow(Path(p))
<1>1. /\ pc[p] = "start" /\ op \in {"write", "append", "create"}
      /\ Goes(p, place)
      /\ UNCHANGED <<content, command, written, buffer, status>>
    BY DEF OpenNew, At
<1>2. PICK o \in File : Make(path, o) /\ file' = [file EXCEPT ![p] = o]
    BY DEF OpenNew
<1>3. path \in Seq(Name)
    BY Parts, CommandType, FollowType DEF Path
<1>4. o \in Object
    BY Kinds
<1>5. used' = used \cup {o} /\ o \notin used /\ at' \in [Directory -> [Name -> used' \cup {None}]]
    BY <1>2, <1>3, <1>4, CallsKeepTree
<1>6. content[o] = << >> /\ content \in [File -> Seq(Byte)]
    BY <1>5, Parts DEF EditInv, InUse
<1>7. content' = [content EXCEPT ![o] = IF op = "write" THEN << >> ELSE @]
    BY <1>1, <1>6
<1>8. /\ place \in {"write", "read", "close"}
      /\ place = "write" => op \in {"write", "append"}
      /\ place = "read" => op = "read"
      /\ place = "close" => op = "create"
    BY <1>1
<1>9. used \subseteq used' /\ used' \subseteq Object /\ o \in used'
    BY <1>4, <1>5, Parts
<1> HIDE DEF place, path
<1> QED
    BY <1>1, <1>2, <1>5, <1>7, <1>8, <1>9, Opened

LEMMA OpenOldStep ==
    ASSUME EditInv, NEW p \in Process, OpenOld(p)
    PROVE  EditInv'
<1> DEFINE op == command[p].op
           o == Lookup(Follow(Path(p)))
           place == CASE op = "read" -> "read" [] op = "create" -> "close" [] OTHER -> "write"
<1>1. /\ pc[p] = "start" /\ op \in {"read", "write", "append", "create"} /\ ~Exclusive(op)
      /\ o \in File /\ file' = [file EXCEPT ![p] = o]
      /\ content' = IF op = "write" THEN [content EXCEPT ![o] = << >>] ELSE content
      /\ Goes(p, place)
      /\ UNCHANGED <<at, used, command, written, buffer, status>>
    BY DEF OpenOld
<1>2. op # "create"
    BY <1>1 DEF Exclusive
<1>3. /\ place \in {"write", "read", "close"}
      /\ place = "write" => op \in {"write", "append"}
      /\ place = "read" => op = "read"
      /\ place # "close"
    BY <1>1, <1>2
<1>4. Top \in used /\ at \in [Directory -> [Name -> used \cup {None}]]
    BY DEF EditInv, InUse
<1>5. o \in used
  <2>1. Follow(Path(p)) \in Seq(Name)
      BY Parts, CommandType, FollowType DEF Path
  <2>2. o \in used \cup {None}
      BY <1>4, <2>1, LookupType
  <2> QED
      BY <1>1, <2>2, Kinds
<1> HIDE DEF place, o
<1>6. content' = [content EXCEPT ![o] = IF op = "write" THEN << >> ELSE @]
  <2>1. content \in [File -> Seq(Byte)]
      BY Parts
  <2> QED
      BY <1>1, <2>1
<1>7. used' = used /\ at' = at
    BY <1>1
<1>8. used \subseteq used' /\ used' \subseteq Object /\ o \in used'
    BY <1>5, <1>7, Parts
<1> QED
    BY <1>1, <1>2, <1>3, <1>4, <1>6, <1>7, <1>8, Opened

(* The steps that only move a process along its way.                       *)
LEMMA OtherSteps ==
    ASSUME EditInv, NEW p \in Process,
           \/ FirstCallFails(p) \/ WriteEnds(p) \/ WriteFails(p)
           \/ ReadEnds(p) \/ ReadFails(p) \/ Close(p) \/ Die(p)
    PROVE  EditInv'
<1>1. at \in [Directory -> [Name -> used \cup {None}]] /\ used \subseteq Object
    BY Parts DEF EditInv, InUse
<1>2. Standing(p) /\ (pc[p] \in {"write", "read", "close"} => file[p] # None)
    BY Parts DEF EditInv
<1>3. Fails(p) => status'[p] = 1
    BY Parts DEF Fails
<1>5. CASE FirstCallFails(p)
  <2>1. /\ file[p] = None /\ Goes(p, "done") /\ Fails(p)
        /\ UNCHANGED <<at, content, used, command, file, written, buffer>>
      BY <1>2, <1>5 DEF FirstCallFails, Standing, host
  <2> QED
      BY <1>1, <2>1, Moved
<1>6. CASE WriteEnds(p)
  <2>1. /\ pc[p] = "write" /\ Left(p) = 0 /\ Goes(p, "close")
        /\ UNCHANGED <<at, content, used, command, file, written, buffer, status>>
      BY <1>6 DEF WriteEnds, Enough, host
  <2>2. written[p] = command[p].length
    <3>1. written[p] \in Nat /\ command[p].length \in Nat
        BY Parts, CommandType
    <3> QED
        BY <2>1, <3>1 DEF Left
  <2> QED
      BY <1>1, <1>2, <2>1, <2>2, Moved
<1>7. CASE ReadEnds(p)
  <2>1. /\ pc[p] = "read" /\ Len(buffer[p]) >= Len(content[file[p]]) /\ Goes(p, "close")
        /\ UNCHANGED <<at, content, used, command, file, written, buffer, status>>
      BY <1>7 DEF ReadEnds, host
  <2> QED
      BY <1>1, <1>2, <2>1, Moved
<1>8. CASE Close(p)
  <2>1. /\ pc[p] = "close" /\ Goes(p, "done")
        /\ UNCHANGED status \/ Fails(p)
        /\ UNCHANGED <<at, content, used, command, file, written, buffer>>
      BY <1>8 DEF Close, host
  <2> QED
      BY <1>1, <1>2, <2>1, Moved
<1>9. CASE Die(p)
  <2>1. /\ Goes(p, "dead")
        /\ UNCHANGED <<at, content, used, command, file, written, buffer, status>>
      BY <1>9 DEF Die, host
  <2> QED
      BY <1>1, <2>1, Moved
<1>10. CASE WriteFails(p) \/ ReadFails(p)
  <2>1. /\ pc[p] \in {"write", "read"} /\ Goes(p, "close") /\ Fails(p)
        /\ UNCHANGED <<at, content, used, command, file, written, buffer>>
      BY <1>10 DEF WriteFails, ReadFails, host
  <2> QED
      BY <1>1, <1>2, <1>3, <2>1, Moved
<1> QED
    BY <1>5, <1>6, <1>7, <1>8, <1>9, <1>10

-----------------------------------------------------------------------------
(* The steps of the walk, and the theorems about the edits *)

(* A walk changes nothing.                                                 *)
LEMMA WalkLooksOn == HostWalkNext => UNCHANGED host
BY DEF HostWalkNext, Begin, LstatFails, CountFile, CountDirectory, PrintEntry, ReadLink, OpenDir,
       OpenDirFails, ReadName, ReaddirEnds, ReaddirFails, CloseDir, NextEntry, EntriesEnd, EntriesBreak

LEMMA EditInvInit == Init => EditInv
<1> SUFFICES ASSUME Init PROVE EditInv
    OBVIOUS
<1>1. /\ at = Tree /\ content = Old /\ command \in Sessions
      /\ used = {Top} \cup {o \in Object : \E d \in Directory, n \in Name : Tree[d][n] = o}
      /\ pc = [p \in Process |-> "start"]
      /\ file = [p \in Process |-> None] /\ written = [p \in Process |-> 0]
      /\ buffer = [p \in Process |-> << >>] /\ status = [p \in Process |-> 0]
    BY DEF Init, HostInit, EditorInit
<1>2. used \subseteq Object /\ Top \in used
    BY <1>1, Kinds
<1>3. HostTypeOK
    BY <1>1, <1>2, HostTreeAssumption DEF HostTypeOK
<1>4. EditorTypeOK
  <2>1. << >> \in Seq(Byte)
      BY EmptySeq
  <2>2. \A p \in Process : 0 <= command[p].length
      BY <1>1, CommandType
  <2> QED
      BY <1>1, <2>1, <2>2 DEF EditorTypeOK
<1>5. InUse
  <2>1. Tree \in [Directory -> [Name -> used \cup {None}]]
    <3>1. Tree \in [Directory -> [Name -> Object \cup {None}]]
        BY HostTreeAssumption
    <3>2. \A d \in Directory, n \in Name : Tree[d][n] \in used \cup {None}
        BY <1>1, <3>1
    <3> QED
        BY <3>1, <3>2
  <2>2. \A o \in File : o \notin used => Old[o] = << >>
    <3>1. \A o \in File : o \in Object
        BY Kinds
    <3> QED
        BY <1>1, <3>1, HostTreeAssumption
  <2>3. file \in [Process -> used \cup {None}]
      BY <1>1
  <2> QED
      BY <1>1, <1>2, <2>1, <2>2, <2>3 DEF InUse
<1>6. \A p \in Process : Standing(p)
    BY <1>1 DEF Standing
<1>7. OwnBytes
  <2> SUFFICES ASSUME NEW o \in File, NEW p \in Process, NEW k \in 1..Len(Old[o]),
                      NEW n \in 1..command[p].length
               PROVE  Old[o][k] # Stamp(p, n)
      BY <1>1 DEF OwnBytes
  <2> QED
      BY <1>1, Stamps
<1>8. OldIsKept
  <2> SUFFICES ASSUME NEW o \in File PROVE IsPrefixOf(Old[o], Old[o])
      BY <1>1 DEF OldIsKept
  <2>1. Old[o] \in Seq(Byte) /\ Len(Old[o]) \in Nat
      BY HostTreeAssumption, LenProperties
  <2> QED
      BY <2>1, PrefixIff
<1>9. \A p \in Process : Appended(p) /\ Overwritten(p) /\ Created(p) /\ Beginning(p)
    BY <1>1 DEF Appended, Overwritten, Created, Beginning
<1> QED
    BY <1>3, <1>4, <1>5, <1>6, <1>7, <1>8, <1>9 DEF EditInv

LEMMA EditInvStutter == ASSUME EditInv, UNCHANGED <<host, edit>> PROVE EditInv'
<1>1. /\ at' = at /\ content' = content /\ used' = used
      /\ command' = command /\ pc' = pc /\ file' = file /\ written' = written
      /\ buffer' = buffer /\ status' = status
    BY DEF host, edit
<1>2. HostTypeOK /\ EditorTypeOK /\ InUse /\ OwnBytes /\ OldIsKept
      /\ \A q \in Process : Standing(q) /\ Appended(q) /\ Overwritten(q) /\ Created(q) /\ Beginning(q)
    BY DEF EditInv
<1>3. HostTypeOK' /\ EditorTypeOK' /\ InUse'
    BY <1>1, <1>2 DEF HostTypeOK, EditorTypeOK, InUse
<1>4. \A q \in Process : Standing(q)'
    BY <1>1, <1>2 DEF Standing
<1>5. /\ OwnBytes' /\ OldIsKept'
      /\ \A q \in Process : Appended(q)' /\ Overwritten(q)' /\ Created(q)'
    BY <1>1, <1>2, ContentsKept
<1>6. \A x : Overwriters(x)' = Overwriters(x)
    BY <1>1 DEF Overwriters
<1>7. \A q \in Process : Beginning(q)'
    BY <1>1, <1>2, <1>6 DEF Beginning, IsPrefixOf
<1> QED
    BY <1>3, <1>4, <1>5, <1>7 DEF EditInv

LEMMA EditInvNext == EditInv /\ [Next]_vars => EditInv'
<1> SUFFICES ASSUME EditInv, [Next]_vars PROVE EditInv'
    OBVIOUS
<1>1. CASE EditorNext
  <2>1. PICK p \in Process :
            \/ OneCall(p) \/ FirstCallFails(p) \/ OpenNew(p) \/ OpenOld(p)
            \/ WriteSome(p) \/ WriteEnds(p) \/ WriteFails(p)
            \/ ReadSome(p) \/ ReadEnds(p) \/ ReadFails(p)
            \/ Close(p) \/ Die(p)
      BY <1>1 DEF EditorNext
  <2> QED
      BY <2>1, OneCallStep, OpenNewStep, OpenOldStep, WriteSomeStep, ReadSomeStep, OtherSteps
<1>2. CASE HostWalkNext /\ UNCHANGED edit
    BY <1>2, WalkLooksOn, EditInvStutter
<1>3. CASE UNCHANGED vars
    BY <1>3, EditInvStutter DEF vars
<1> QED
    BY <1>1, <1>2, <1>3 DEF Next

LEMMA EditInvariant == Spec => []EditInv
<1> QED
    BY EditInvInit, EditInvNext, PTL DEF Spec

(* What has been written so far is everything once a process has returned. *)
LEMMA EditsKept == EditInv => EditsAreKept
<1> SUFFICES ASSUME EditInv, NEW p \in Process, file[p] # None
             PROVE  /\ AppendIsKept(p, file[p]) /\ WriteIsKept(p, file[p])
                    /\ CreateIsAlone(p, file[p]) /\ ReadIsReal(p, file[p])
    BY DEF EditsAreKept
<1> DEFINE o == file[p]
<1>1. /\ o \in File /\ content[o] \in Seq(Byte) /\ Len(content[o]) \in Nat
      /\ written[p] \in Nat /\ Old[o] \in Seq(Byte)
  <2>1. o \in File
      BY Parts
  <2> QED
      BY <2>1, Parts, LenProperties
<1>2. Standing(p) /\ Appended(p) /\ Overwritten(p) /\ Created(p) /\ Beginning(p) /\ OldIsKept
    BY DEF EditInv
<1>3. command[p].op \in {"write", "append"} => Bytes(p) = Wrote(p)
  <2>1. command[p].op \in {"write", "append"} /\ Finished(p) => written[p] = command[p].length
      BY <1>2 DEF Standing, Finished
  <2> QED
      BY <2>1 DEF Bytes, Wrote
<1> HIDE DEF o
<1>4. AppendIsKept(p, o)
    BY <1>1, <1>2, <1>3 DEF AppendIsKept, Appended, OldIsKept, o
<1>5. WriteIsKept(p, o)
  <2> SUFFICES ASSUME Overwriters(o) = {p}
               PROVE  /\ IsPrefixOf(Bytes(p), content[o])
                      /\ Writers(o) = {p} => content[o] = Bytes(p)
      BY DEF WriteIsKept
  <2>1. Bytes(p) = Wrote(p)
      BY <1>3 DEF Overwriters
  <2>2. /\ written[p] <= Len(content[o])
        /\ \A n \in 1..written[p] : content[o][n] = Stamp(p, n)
        /\ Writers(o) = {p} => Len(content[o]) = written[p]
      BY <1>2 DEF Overwritten, o
  <2>3. /\ Wrote(p) \in Seq(Byte) /\ Len(Wrote(p)) = written[p]
        /\ \A n \in 1..written[p] : Wrote(p)[n] = Stamp(p, n)
    <3>1. \A n \in 1..written[p] : n \in 1..command[p].length
        BY <1>1, Parts, CommandType
    <3>2. \A n \in 1..written[p] : Stamp(p, n) \in Byte
        BY <3>1, Parts, Stamps
    <3>3. Wrote(p) \in [1..written[p] -> Byte]
        BY <3>2 DEF Wrote
    <3>4. Wrote(p) \in Seq(Byte)
        BY <1>1, <3>3, SeqDef
    <3> QED
        BY <1>1, <3>3, <3>4 DEF Wrote
  <2>4. IsPrefixOf(Wrote(p), content[o])
      BY <1>1, <2>2, <2>3, PrefixIff
  <2>5. Writers(o) = {p} => content[o] = Wrote(p)
      BY <1>1, <2>2, <2>3, SeqEqual
  <2> QED
      BY <2>1, <2>4, <2>5
<1>6. CreateIsAlone(p, o)
    BY <1>2 DEF CreateIsAlone, Created, o
<1>7. ReadIsReal(p, o)
    BY <1>2 DEF ReadIsReal, Beginning, Finished, o
<1> QED
    BY <1>4, <1>5, <1>6, <1>7 DEF o

(* Whatever several editor commands do to a file together, and however     *)
(* many of them fail or are killed: appends and writes are kept, a create  *)
(* is alone, a read is real (editor.c).                                    *)
THEOREM EditsKeptAlways == Spec => []EditsAreKept
<1> QED
    BY EditInvariant, EditsKept, PTL

-----------------------------------------------------------------------------
(* The types of the walk *)

(* The calls of the recursion and the streams they have open.              *)
FramesInv ==
    /\ step \in {"start", "lstat", "readlink", "opendir", "readdir", "closedir", "entries", "done"}
    /\ frames \in Seq(Frame) /\ result \in {0, 1}
    /\ streams = IF Du THEN Len(frames) ELSE IF step \in {"readdir", "closedir"} THEN 1 ELSE 0
    /\ step \in {"readdir", "closedir", "entries"} => frames # << >>
    /\ step = "entries" => ~Du

(* What is at hand and what has been counted.                              *)
CountInv ==
    /\ walk \in Walks /\ here \in Seq(Name)
    /\ usage \in [size : 0..MaxTotal, files : 0..MaxTotal, directories : 0..MaxTotal]
    /\ reported \in Seq(Seq(Name) \X BOOLEAN \X Nat)
    /\ steady \subseteq Seq(Name) /\ faults \in 0..MaxFaults

WalkInv == FramesInv /\ CountInv

LEMMA WalkTypes == WalkInv => HostWalkTypeOK
BY DEF WalkInv, FramesInv, CountInv, HostWalkTypeOK, Du

(* A sequence that is not empty, without its last element.                 *)
LEMMA Shorter ==
    ASSUME NEW S, NEW s \in Seq(S), s # << >>
    PROVE  /\ Len(s) \in Nat \ {0} /\ Len(s) \in 1..Len(s) /\ s[Len(s)] \in S
           /\ SubSeq(s, 1, Len(s) - 1) \in Seq(S) /\ Len(SubSeq(s, 1, Len(s) - 1)) = Len(s) - 1
<1> DEFINE n == Len(s)
           t == SubSeq(s, 1, n - 1)
<1>1. n \in Nat /\ n # 0
    BY LenProperties, EmptySeq
<1>2. n \in 1..n /\ n - 1 \in Nat /\ n - 1 <= n
  <2> HIDE DEF n
  <2> QED BY <1>1
<1>3. s[n] \in S
    BY <1>2, ElementOfSeq
<1>4. \A i \in 1..(n - 1) : s[i] \in S
  <2>1. \A i \in 1..(n - 1) : i \in 1..n
    <3> HIDE DEF n
    <3> QED BY <1>2
  <2> QED BY <2>1, ElementOfSeq
<1>5. /\ t \in Seq(S) /\ Len(t) = IF 1 <= n - 1 THEN (n - 1) - 1 + 1 ELSE 0
    BY <1>2, <1>4, SubSeqProperties
<1>6. (IF 1 <= n - 1 THEN (n - 1) - 1 + 1 ELSE 0) = n - 1
  <2> HIDE DEF n
  <2> QED BY <1>1, <1>2
<1> QED
    BY <1>1, <1>2, <1>3, <1>5, <1>6

(* The innermost call and those around it.                                 *)
LEMMA InnerOuter ==
    ASSUME frames \in Seq(Frame), frames # << >>
    PROVE  /\ Inner \in Frame /\ Outer \in Seq(Frame)
           /\ Len(frames) \in Nat \ {0} /\ Len(frames) \in 1..Len(frames) /\ Len(Outer) = Len(frames) - 1
BY Shorter DEF Inner, Outer

(* The innermost call with other data in its place.                        *)
LEMMA InnerChanged ==
    ASSUME frames \in Seq(Frame), frames # << >>, NEW f \in Frame
    PROVE  /\ Append(Outer, f) \in Seq(Frame) /\ Len(Append(Outer, f)) = Len(frames)
           /\ Append(Outer, f) # << >>
           /\ [frames EXCEPT ![Len(frames)] = f] \in Seq(Frame)
           /\ Len([frames EXCEPT ![Len(frames)] = f]) = Len(frames)
           /\ [frames EXCEPT ![Len(frames)] = f] # << >>
<1>1. Outer \in Seq(Frame) /\ Len(frames) \in Nat \ {0} /\ Len(frames) \in 1..Len(frames)
      /\ Len(Outer) = Len(frames) - 1
    BY InnerOuter
<1>2. Len(frames) - 1 + 1 = Len(frames)
  <2> DEFINE n == Len(frames)
  <2>1. n \in Nat \ {0}
      BY <1>1
  <2> HIDE DEF n
  <2> QED BY <2>1
<1>3. Append(Outer, f) \in Seq(Frame) /\ Len(Append(Outer, f)) = Len(frames)
    BY <1>1, <1>2, AppendProperties
<1>4. [frames EXCEPT ![Len(frames)] = f] \in Seq(Frame) /\ Len([frames EXCEPT ![Len(frames)] = f]) = Len(frames)
    BY <1>1, ExceptSeq
<1>5. Len(<< >>) = 0
    BY EmptySeq
<1> QED
    BY <1>1, <1>3, <1>4, <1>5

LEMMA NotedFrame ==
    \A f \in Frame : [f EXCEPT !.status = 1] \in Frame /\ [f EXCEPT !.status = @] \in Frame
BY DEF Frame

(* A call that returns leaves the calls around it, and a loop to go on     *)
(* with or the end of the command.                                         *)
LEMMA Returned ==
    ASSUME NEW callers \in Seq(Frame), NEW s \in {0, 1}, ReturnTo(callers, s), result \in {0, 1}
    PROVE  /\ frames' \in Seq(Frame) /\ Len(frames') = Len(callers) /\ result' \in {0, 1}
           /\ \/ step' = "done"
              \/ Du /\ step' = "readdir" /\ frames' # << >>
              \/ ~Du /\ step' = "entries" /\ frames' # << >>
<1>1. CASE callers = << >>
    BY <1>1 DEF ReturnTo
<1>2. CASE callers # << >>
  <2>1. /\ step' = IF Du THEN "readdir" ELSE "entries"
        /\ frames' = [callers EXCEPT ![Len(callers)].status = IF s = 1 THEN 1 ELSE @]
        /\ result' = result
      BY <1>2 DEF ReturnTo
  <2> DEFINE n == Len(callers)
             g == [callers[n] EXCEPT !.status = IF s = 1 THEN 1 ELSE @]
  <2>2. n \in Nat \ {0} /\ n \in 1..n /\ callers[n] \in Frame
      BY <1>2, Shorter
  <2>3. g \in Frame
    <3>1. CASE s = 1
        BY <2>2, <3>1, NotedFrame
    <3>2. CASE s # 1
        BY <2>2, <3>2, NotedFrame
    <3> QED BY <3>1, <3>2
  <2>4. frames' = [callers EXCEPT ![n] = g]
      BY <2>1, <2>2
  <2> HIDE DEF g
  <2>5. frames' \in Seq(Frame) /\ Len(frames') = n
      BY <2>2, <2>3, <2>4, ExceptSeq
  <2>6. frames' # << >>
      BY <2>2, <2>5, EmptySeq
  <2> QED
      BY <2>1, <2>5, <2>6
<1> QED
    BY <1>1, <1>2

(* A step after which the calls are as many as the streams.                *)
LEMMA FramesStep ==
    ASSUME NEW callers \in Seq(Frame), NEW s \in {0, 1}, ReturnTo(callers, s), result \in {0, 1},
           UNCHANGED walk, streams' = IF Du THEN Len(callers) ELSE 0
    PROVE  FramesInv'
<1>1. Du' = Du
    BY DEF Du
<1>2. frames' \in Seq(Frame) /\ Len(frames') = Len(callers) /\ result' \in {0, 1}
    BY Returned
<1>3. \/ step' = "done"
      \/ Du /\ step' = "readdir" /\ frames' # << >>
      \/ ~Du /\ step' = "entries" /\ frames' # << >>
    BY Returned
<1>4. CASE Du
    BY <1>1, <1>2, <1>3, <1>4 DEF FramesInv
<1>5. CASE ~Du
    BY <1>1, <1>2, <1>3, <1>5 DEF FramesInv
<1> QED
    BY <1>4, <1>5

LEMMA Remainder ==
    ASSUME NEW d \in Nat \ {0}, NEW x \in Nat
    PROVE  x % d \in 0..(d - 1)
OBVIOUS

LEMMA AddedType ==
    ASSUME NEW a \in 0..MaxTotal, NEW v \in Nat
    PROVE  Added(a, v) \in 0..MaxTotal
<1>1. MaxTotal + 1 \in Nat \ {0} /\ a + v \in Nat /\ (MaxTotal + 1) - 1 = MaxTotal
    BY HostWalkAssumption
<1>2. (a + v) % (MaxTotal + 1) \in 0..((MaxTotal + 1) - 1)
    BY <1>1, Remainder
<1> QED
    BY <1>1, <1>2 DEF Added

LEMMA SizeType ==
    ASSUME HostTypeOK, NEW o \in File \cup Link
    PROVE  SizeOf(o) \in Nat
<1>1. CASE o \in File
  <2>1. SizeOf(o) = Len(content[o])
      BY <1>1, Kinds DEF SizeOf
  <2> QED
      BY <1>1, <2>1, LenProperties DEF HostTypeOK
<1>2. CASE o \in Link
  <2>1. SizeOf(o) = Len(Target[o])
      BY <1>2, Kinds DEF SizeOf
  <2> QED
      BY <1>2, <2>1, LenProperties, HostTreeAssumption
<1> QED
    BY <1>1, <1>2

-----------------------------------------------------------------------------
(* Paths below paths *)

(* The path of a name in the directory a path names.                       *)
Under(path, n) == Append(path, n)

LEMMA UnderType ==
    ASSUME NEW p \in Seq(Name), NEW n \in Name
    PROVE  /\ Under(p, n) \in Seq(Name) /\ Len(p) \in Nat /\ Len(Under(p, n)) = Len(p) + 1
           /\ \A k \in 1..Len(p) : Under(p, n)[k] = p[k]
           /\ Under(p, n)[Len(p) + 1] = n
BY AppendProperties, LenProperties DEF Under

LEMMA BelowIff ==
    ASSUME NEW a \in Seq(Name), NEW b \in Seq(Name)
    PROVE  Below(a, b) <=> Len(a) <= Len(b) /\ \A k \in 1..Len(a) : b[k] = a[k]
<1>1. Below(a, b) <=> IsPrefixOf(a, b)
    BY DEF Below, IsPrefixOf
<1> QED
    BY <1>1, PrefixIff

LEMMA BelowSelf == ASSUME NEW a \in Seq(Name) PROVE Below(a, a)
<1>1. Len(a) \in Nat
    BY LenProperties
<1> QED
    BY <1>1, BelowIff

LEMMA BelowTransitive ==
    ASSUME NEW a \in Seq(Name), NEW b \in Seq(Name), NEW c \in Seq(Name), Below(a, b), Below(b, c)
    PROVE  Below(a, c)
<1>1. Len(a) \in Nat /\ Len(b) \in Nat /\ Len(c) \in Nat
    BY LenProperties
<1>2. /\ Len(a) <= Len(b) /\ \A k \in 1..Len(a) : b[k] = a[k]
      /\ Len(b) <= Len(c) /\ \A k \in 1..Len(b) : c[k] = b[k]
    BY BelowIff
<1>3. Len(a) <= Len(c) /\ \A k \in 1..Len(a) : c[k] = a[k]
    BY <1>1, <1>2
<1> QED
    BY <1>3, BelowIff

(* Of two paths above a third the shorter is above the longer.             *)
LEMMA BelowBoth ==
    ASSUME NEW a \in Seq(Name), NEW b \in Seq(Name), NEW c \in Seq(Name), Below(a, c), Below(b, c),
           Len(a) <= Len(b)
    PROVE  Below(a, b) /\ (Len(a) = Len(b) => a = b)
<1>1. Len(a) \in Nat /\ Len(b) \in Nat /\ Len(c) \in Nat
    BY LenProperties
<1>2. /\ \A k \in 1..Len(a) : c[k] = a[k]
      /\ Len(b) <= Len(c) /\ \A k \in 1..Len(b) : c[k] = b[k]
    BY BelowIff
<1>3. \A k \in 1..Len(a) : b[k] = a[k]
    BY <1>1, <1>2
<1>4. Below(a, b)
    BY <1>3, BelowIff
<1>5. Len(a) = Len(b) => a = b
    BY <1>3, SeqEqual
<1> QED
    BY <1>4, <1>5

LEMMA BelowLength ==
    ASSUME NEW a \in Seq(Name), NEW b \in Seq(Name), Below(a, b)
    PROVE  Len(a) <= Len(b) /\ (Len(a) = Len(b) => a = b)
<1>1. Len(a) <= Len(b)
    BY BelowIff
<1>2. Below(b, b)
    BY BelowSelf
<1> QED
    BY <1>1, <1>2, BelowBoth

LEMMA UnderBelow ==
    ASSUME NEW p \in Seq(Name), NEW n \in Name
    PROVE  Below(p, Under(p, n)) /\ p # Under(p, n)
<1> DEFINE u == Under(p, n)
<1>1. u \in Seq(Name) /\ Len(p) \in Nat /\ Len(u) = Len(p) + 1 /\ \A k \in 1..Len(p) : u[k] = p[k]
    BY UnderType
<1> HIDE DEF u
<1>2. Below(p, u) /\ p # u
    BY <1>1, BelowIff
<1> QED
    BY <1>2 DEF u

(* What is below a path and not it is below a name under it.               *)
LEMMA NextBelow ==
    ASSUME NEW p \in Seq(Name), NEW q \in Seq(Name), Below(p, q), p # q
    PROVE  \E n \in Name : Below(Under(p, n), q)
<1>1. Len(p) \in Nat /\ Len(q) \in Nat /\ Len(p) < Len(q) /\ \A k \in 1..Len(p) : q[k] = p[k]
    BY BelowIff, BelowLength, LenProperties
<1> DEFINE n == q[Len(p) + 1]
           u == Under(p, n)
<1>2. n \in Name
  <2>1. Len(p) + 1 \in 1..Len(q)
      BY <1>1
  <2> QED
      BY <2>1, ElementOfSeq
<1>3. u \in Seq(Name) /\ Len(u) = Len(p) + 1 /\ u[Len(p) + 1] = n /\ \A k \in 1..Len(p) : u[k] = p[k]
    BY <1>2, UnderType
<1>4. \A k \in 1..Len(u) : q[k] = u[k]
  <2> HIDE DEF u
  <2> TAKE k \in 1..Len(u)
  <2>1. k \in 1..Len(p) \/ k = Len(p) + 1
      BY <1>1, <1>3
  <2> QED
      BY <1>1, <1>3, <2>1
<1>5. Below(u, q)
  <2> HIDE DEF u, n
  <2> QED BY <1>1, <1>3, <1>4, BelowIff
<1> QED
    BY <1>2, <1>5

(* What a name under a path is below is that name, or the path is below it. *)
LEMMA BelowUnder ==
    ASSUME NEW a \in Seq(Name), NEW p \in Seq(Name), NEW n \in Name, Below(a, Under(p, n))
    PROVE  Below(a, p) \/ a = Under(p, n)
<1> DEFINE u == Under(p, n)
<1>1. u \in Seq(Name) /\ Len(p) \in Nat /\ Len(a) \in Nat /\ Len(u) = Len(p) + 1 /\ Below(p, u)
    BY UnderType, UnderBelow, LenProperties
<1> HIDE DEF u
<1>2. Below(a, u)
    BY DEF u
<1>3. Len(a) <= Len(p) \/ Len(a) = Len(u)
    BY <1>1, <1>2, BelowLength
<1>4. Below(a, p) \/ a = u
    BY <1>1, <1>2, <1>3, BelowBoth, BelowLength
<1> QED
    BY <1>4 DEF u

LEMMA UnderEqual ==
    ASSUME NEW p \in Seq(Name), NEW n \in Name, NEW m \in Name, Under(p, n) = Under(p, m)
    PROVE  n = m
BY UnderType

-----------------------------------------------------------------------------
(* What paths name, and the paths a walk can reach *)

(* What a path names in a tree.                                            *)
LookupIn(tree, path) ==
    LET upTo[n \in 0..Len(path)] ==
            IF n = 0 THEN Top
            ELSE IF upTo[n - 1] \in Directory THEN tree[upTo[n - 1]][path[n]]
            ELSE None
    IN  upTo[Len(path)]

LEMMA LookupNow == \A path : Lookup(path) = LookupIn(at, path)
BY DEF Lookup, LookupIn

LEMMA LookupThen == \A path : Lookup(path)' = LookupIn(at', path)
BY DEF Lookup, LookupIn

LEMMA WalkedUnfolds ==
    ASSUME NEW f, NEW tree, NEW path, NEW m \in Nat, Walked(f, tree, path, m)
    PROVE  /\ f[0] = Top
           /\ \A k \in 1..m : f[k] = IF f[k - 1] \in Directory THEN tree[f[k - 1]][path[k]] ELSE None
<1>1. 0 \in 0..m /\ \A k \in 1..m : k \in 0..m /\ k # 0
    OBVIOUS
<1> QED
    BY <1>1 DEF Walked

LEMMA LookupUnder ==
    ASSUME NEW tree, NEW p \in Seq(Name), NEW n \in Name
    PROVE  LookupIn(tree, Under(p, n)) =
               IF LookupIn(tree, p) \in Directory THEN tree[LookupIn(tree, p)][n] ELSE None
<1> DEFINE u == Under(p, n)
           m == Len(p)
           f == CHOOSE f : Walked(f, tree, p, m)
           g == CHOOSE g : Walked(g, tree, u, Len(u))
<1>1. m \in Nat /\ Len(u) = m + 1 /\ u[m + 1] = n /\ \A k \in 1..m : u[k] = p[k]
    BY UnderType
<1> HIDE DEF u, m
<1>2. LookupIn(tree, p) = f[m]
    BY DEF LookupIn, Walked, m
<1>3. LookupIn(tree, u) = g[m + 1]
    BY <1>1 DEF LookupIn, Walked
<1>4. Walked(f, tree, p, m)
    BY <1>1, WalkedExists
<1>5. Walked(g, tree, u, m + 1)
    BY <1>1, WalkedExists
<1> HIDE DEF f, g
<1>6. /\ f[0] = Top /\ g[0] = Top
      /\ \A k \in 1..m : f[k] = IF f[k - 1] \in Directory THEN tree[f[k - 1]][p[k]] ELSE None
      /\ \A k \in 1..(m + 1) : g[k] = IF g[k - 1] \in Directory THEN tree[g[k - 1]][u[k]] ELSE None
  <2>1. m + 1 \in Nat
      BY <1>1
  <2> QED
      BY <1>1, <1>4, <1>5, <2>1, WalkedUnfolds
<1> DEFINE S == {k \in Nat : k <= m => g[k] = f[k]}
<1>7. 0 \in S
    BY <1>6
<1>8. ASSUME NEW k \in Nat, k \in S PROVE k + 1 \in S
  <2> SUFFICES ASSUME k + 1 <= m PROVE g[k + 1] = f[k + 1]
      OBVIOUS
  <2> DEFINE j == k + 1
  <2>1. j \in 1..m /\ j \in 1..(m + 1) /\ j - 1 = k /\ k <= m
      BY <1>1
  <2>2. g[k] = f[k]
      BY <1>8, <2>1
  <2> HIDE DEF S, j
  <2>3. g[j] = f[j]
      BY <1>1, <1>6, <2>1, <2>2
  <2> QED
      BY <2>3 DEF j
<1>9. Nat \subseteq S
  <2> HIDE DEF S
  <2> QED BY <1>7, <1>8, Induction
<1>10. g[m] = f[m]
    BY <1>1, <1>9
<1> HIDE DEF S
<1>11. g[m + 1] = IF g[m] \in Directory THEN tree[g[m]][u[m + 1]] ELSE None
  <2> DEFINE e == m + 1
  <2>1. e \in 1..(m + 1) /\ e - 1 = m
      BY <1>1
  <2> HIDE DEF e
  <2>2. g[e] = IF g[e - 1] \in Directory THEN tree[g[e - 1]][u[e]] ELSE None
      BY <1>6, <2>1
  <2> QED
      BY <2>1, <2>2 DEF e
<1> QED
    BY <1>1, <1>2, <1>3, <1>10, <1>11 DEF u

(* Paths, and those one name longer.                                       *)
Deeper(S) ==
    LET dirs == {q \in S : Lookup(q) \in Directory}
    IN  S \cup {Append(q, m) : q \in dirs, m \in Name}

Grown(f, path, c) == f = [n \in 0..c |-> IF n = 0 THEN {path} ELSE Deeper(f[n - 1])]

LEMMA GrownUnfolds ==
    ASSUME NEW f, NEW path, NEW c \in Nat, Grown(f, path, c)
    PROVE  f[0] = {path} /\ \A k \in 1..c : f[k] = Deeper(f[k - 1])
<1>1. 0 \in 0..c /\ \A k \in 1..c : k \in 0..c /\ k # 0
    OBVIOUS
<1> QED
    BY <1>1 DEF Grown

LEMMA GrownExists ==
    ASSUME NEW path, NEW c \in Nat
    PROVE  \E f : Grown(f, path, c)
<1> DEFINE K == {k \in Nat : \E f : Grown(f, path, k)}
<1>1. 0 \in K
  <2> DEFINE f == [n \in 0..0 |-> {path}]
  <2>1. Grown(f, path, 0)
      BY DEF Grown
  <2> HIDE DEF f
  <2> QED
      BY <2>1
<1>2. ASSUME NEW m \in Nat, m \in K
      PROVE  m + 1 \in K
  <2>1. PICK f : Grown(f, path, m)
      BY <1>2
  <2>2. f[0] = {path} /\ \A k \in 1..m : f[k] = Deeper(f[k - 1])
      BY <2>1, GrownUnfolds
  <2> DEFINE g == [n \in 0..(m + 1) |-> IF n <= m THEN f[n] ELSE Deeper(f[m])]
             h == [n \in 0..(m + 1) |-> IF n = 0 THEN {path} ELSE Deeper(g[n - 1])]
  <2> HIDE DEF K
  <2>3. \A n \in 0..(m + 1) : g[n] = h[n]
    <3> TAKE n \in 0..(m + 1)
    <3>1. CASE n = 0
        BY <2>2, <3>1
    <3>2. CASE n \in 1..m
      <4>1. n - 1 \in 0..(m + 1) /\ n - 1 <= m /\ n # 0 /\ n <= m
          BY <3>2
      <4>2. g[n] = f[n] /\ g[n - 1] = f[n - 1] /\ h[n] = Deeper(g[n - 1])
          BY <4>1
      <4> QED BY <2>2, <3>2, <4>2
    <3>3. CASE n = m + 1
      <4>1. m \in 0..(m + 1) /\ n - 1 = m /\ n # 0 /\ ~(n <= m)
          BY <3>3
      <4>2. g[n] = Deeper(f[m]) /\ g[n - 1] = f[m] /\ h[n] = Deeper(g[n - 1])
          BY <4>1
      <4> QED BY <4>2
    <3>4. n = 0 \/ n \in 1..m \/ n = m + 1
        OBVIOUS
    <3> QED
        BY <3>1, <3>2, <3>3, <3>4
  <2>4. g = h
      BY <2>3
  <2>5. Grown(g, path, m + 1)
      BY <2>4 DEF Grown
  <2> HIDE DEF g, h
  <2> QED
      BY <2>5 DEF K
<1> HIDE DEF K
<1>3. Nat \subseteq K
    BY <1>1, <1>2, Induction
<1> QED
    BY <1>3 DEF K

Named(S) == {q \in S : Lookup(q) # None}

(* What a walk can reach grows in so many rounds as there are directories. *)
LEMMA PathsGrow ==
    ASSUME NEW path
    PROVE  \E c \in Nat : \E f : PathsFrom(path) = Named(f[c]) /\ Grown(f, path, c)
<1> DEFINE c == Cardinality(Directory)
           f == CHOOSE f : Grown(f, path, c)
<1>1. c \in Nat
    BY FS_CardinalityType, HostWalkAssumption
<1>2. PathsFrom(path) = Named(f[c])
    BY DEF PathsFrom, Grown, Deeper, Named
<1>3. Grown(f, path, c)
  <2> HIDE DEF c
  <2>1. \E g : Grown(g, path, c)
      BY <1>1, GrownExists
  <2> QED BY <2>1
<1> HIDE DEF f, c
<1> QED
    BY <1>1, <1>2, <1>3

(* Every path is a beginning of it or longer by names of directories.      *)
Rooted(path, S) ==
    \A q \in S : /\ q \in Seq(Name) /\ Below(path, q)
                 /\ \A a \in Seq(Name) : Len(path) <= Len(a) /\ Below(a, q) =>
                        a \in S /\ (a # q => Lookup(a) \in Directory)

LEMMA DeeperRooted ==
    ASSUME NEW path \in Seq(Name), NEW S, Rooted(path, S)
    PROVE  Rooted(path, Deeper(S))
<1> SUFFICES ASSUME NEW q \in Deeper(S)
             PROVE  /\ q \in Seq(Name) /\ Below(path, q)
                    /\ \A a \in Seq(Name) : Len(path) <= Len(a) /\ Below(a, q) =>
                            a \in Deeper(S) /\ (a # q => Lookup(a) \in Directory)
    BY DEF Rooted
<1>1. S \subseteq Deeper(S)
    BY DEF Deeper
<1>2. CASE q \in S
    BY <1>1, <1>2 DEF Rooted
<1>3. CASE q \notin S
  <2>1. PICK p \in S, n \in Name : q = Under(p, n) /\ Lookup(p) \in Directory
      BY <1>3 DEF Deeper, Under
  <2>2. p \in Seq(Name) /\ Below(path, p)
      BY DEF Rooted
  <2>3. q \in Seq(Name) /\ Below(path, q)
    <3>1. Below(p, Under(p, n)) /\ Under(p, n) \in Seq(Name)
        BY <2>2, UnderBelow, UnderType
    <3> QED BY <2>1, <2>2, <3>1, BelowTransitive
  <2>4. ASSUME NEW a \in Seq(Name), Len(path) <= Len(a), Below(a, q)
        PROVE  a \in Deeper(S) /\ (a # q => Lookup(a) \in Directory)
    <3>1. Below(a, p) \/ a = q
        BY <2>1, <2>2, <2>4, BelowUnder
    <3>2. CASE a = q
        BY <3>2
    <3>3. CASE Below(a, p)
        BY <1>1, <2>1, <2>4, <3>3 DEF Rooted
    <3> QED
        BY <3>1, <3>2, <3>3
  <2> QED
      BY <2>3, <2>4
<1> QED
    BY <1>2, <1>3

LEMMA PathsRooted ==
    ASSUME NEW path \in Seq(Name)
    PROVE  Rooted(path, PathsFrom(path)) /\ \A q \in PathsFrom(path) : Lookup(q) # None
<1>0. PICK c \in Nat : \E f : PathsFrom(path) = Named(f[c]) /\ Grown(f, path, c)
    BY PathsGrow
<1>1. PICK f : PathsFrom(path) = Named(f[c]) /\ Grown(f, path, c)
    BY <1>0
<1>2. PathsFrom(path) = Named(f[c]) /\ f[0] = {path} /\ \A k \in 1..c : f[k] = Deeper(f[k - 1])
    BY <1>1, GrownUnfolds
<1> DEFINE S == {n \in Nat : n <= c => Rooted(path, f[n])}
<1>3. 0 \in S
  <2>1. Below(path, path)
      BY BelowSelf
  <2>2. \A a \in Seq(Name) : Len(path) <= Len(a) /\ Below(a, path) => a = path
    <3> TAKE a \in Seq(Name)
    <3>1. Len(a) \in Nat /\ Len(path) \in Nat
        BY LenProperties
    <3> QED BY <3>1, BelowLength
  <2> QED
      BY <1>2, <2>1, <2>2 DEF Rooted
<1>4. ASSUME NEW n \in Nat, n \in S PROVE n + 1 \in S
  <2> SUFFICES ASSUME n + 1 <= c PROVE Rooted(path, f[n + 1])
      OBVIOUS
  <2> DEFINE k == n + 1
  <2>1. k \in 1..c /\ k - 1 = n /\ n <= c
      OBVIOUS
  <2>2. Rooted(path, f[n])
      BY <1>4, <2>1
  <2> HIDE DEF S, k
  <2>3. f[k] = Deeper(f[n])
      BY <1>2, <2>1
  <2> QED
      BY <2>2, <2>3, DeeperRooted DEF k
<1>5. Nat \subseteq S
  <2> HIDE DEF S
  <2> QED BY <1>3, <1>4, Induction
<1>6. Rooted(path, f[c])
    BY <1>5
<1> HIDE DEF S
<1>7. None \notin Directory
    BY Kinds
<1> QED
    BY <1>2, <1>6, <1>7 DEF Rooted, Named

(* All paths from a path are paths.                                        *)
LEMMA PathsAreSequences ==
    ASSUME NEW path \in Seq(Name)
    PROVE  PathsFrom(path) \subseteq Seq(Name)
BY PathsRooted DEF Rooted

-----------------------------------------------------------------------------
(* The steps of the walk *)

LEMMA LookupObject ==
    ASSUME HostTypeOK, NEW path \in Seq(Name)
    PROVE  Lookup(path) \in Object \cup {None}
BY LookupType, Kinds DEF HostTypeOK

LEMMA FaultType ==
    ASSUME CountInv, Fault \/ UNCHANGED faults
    PROVE  faults' \in 0..MaxFaults
<1>1. faults \in 0..MaxFaults /\ MaxFaults \in Nat
    BY HostWalkAssumption DEF CountInv
<1>2. CASE Fault
  <2>1. faults < MaxFaults /\ faults' = faults + 1
      BY <1>2 DEF Fault
  <2> QED BY <1>1, <2>1
<1>3. CASE UNCHANGED faults
    BY <1>1, <1>3
<1> QED
    BY <1>2, <1>3

(* A step that reports nothing and counts nothing.                         *)
LEMMA CountStep ==
    ASSUME CountInv, UNCHANGED <<walk, here, usage, reported, steady>>, Fault \/ UNCHANGED faults
    PROVE  CountInv'
<1>1. faults' \in 0..MaxFaults
    BY FaultType
<1> QED
    BY <1>1 DEF CountInv

LEMMA ReturnStep ==
    ASSUME FramesInv, NEW s \in {0, 1}, Return(s), UNCHANGED <<walk, streams>>,
           step \notin {"readdir", "closedir"}
    PROVE  FramesInv'
<1>1. ReturnTo(frames, s) /\ frames \in Seq(Frame) /\ result \in {0, 1}
    BY DEF Return, FramesInv
<1>2. streams' = IF Du THEN Len(frames) ELSE 0
    BY DEF FramesInv
<1> QED
    BY <1>1, <1>2, FramesStep

LEMMA ReturnOuterStep ==
    ASSUME FramesInv, frames # << >>, NEW s \in {0, 1}, ReturnTo(Outer, s), UNCHANGED walk,
           \/ step = "closedir" /\ streams' = streams - 1
           \/ ~Du /\ step \notin {"readdir", "closedir"} /\ streams' = streams
    PROVE  FramesInv'
<1>1. /\ Outer \in Seq(Frame) /\ result \in {0, 1}
      /\ Len(frames) \in Nat \ {0} /\ Len(Outer) = Len(frames) - 1
    BY InnerOuter DEF FramesInv
<1>2. streams' = IF Du THEN Len(Outer) ELSE 0
  <2>1. CASE Du
    <3>1. streams = Len(frames) /\ streams' = streams - 1
        BY <2>1 DEF FramesInv
    <3> QED BY <1>1, <2>1, <3>1
  <2>2. CASE ~Du /\ step = "closedir"
    <3>1. streams = 1 /\ streams' = streams - 1
        BY <2>2 DEF FramesInv
    <3> QED BY <2>2, <3>1
  <2>3. CASE ~Du /\ step # "closedir"
    <3>1. streams' = 0
        BY <2>3 DEF FramesInv
    <3> QED BY <2>3, <3>1
  <2> QED
      BY <2>1, <2>2, <2>3
<1> QED
    BY <1>1, <1>2, FramesStep

LEMMA BeginStep ==
    ASSUME WalkInv, Begin PROVE WalkInv'
<1>1. FramesInv'
    BY DEF WalkInv, FramesInv, Begin, Du
<1>2. steady' \subseteq Seq(Name)
  <2>1. here \in Seq(Name) /\ steady' = PathsFrom(here)
      BY DEF WalkInv, CountInv, Begin
  <2> QED
      BY <2>1, PathsAreSequences
<1>3. CountInv'
    BY <1>2 DEF WalkInv, CountInv, Begin
<1> QED
    BY <1>1, <1>3 DEF WalkInv

LEMMA LstatFailsStep ==
    ASSUME WalkInv, LstatFails PROVE WalkInv'
<1>1. FramesInv'
    BY ReturnStep DEF WalkInv, LstatFails
<1>2. CountInv'
    BY CountStep DEF WalkInv, LstatFails
<1> QED
    BY <1>1, <1>2 DEF WalkInv

LEMMA ReadLinkStep ==
    ASSUME WalkInv, ReadLink PROVE WalkInv'
<1>1. FramesInv'
    BY ReturnStep DEF WalkInv, ReadLink
<1>2. CountInv'
    BY CountStep DEF WalkInv, ReadLink
<1> QED
    BY <1>1, <1>2 DEF WalkInv

LEMMA OpenDirFailsStep ==
    ASSUME WalkInv, OpenDirFails PROVE WalkInv'
<1>1. FramesInv'
    BY ReturnStep DEF WalkInv, OpenDirFails
<1>2. CountInv'
    BY CountStep DEF WalkInv, OpenDirFails
<1> QED
    BY <1>1, <1>2 DEF WalkInv

(* What is reported.                                                       *)
LEMMA ReportType ==
    ASSUME CountInv, NEW d \in BOOLEAN, NEW size \in Nat, Report(d, size)
    PROVE  reported' \in Seq(Seq(Name) \X BOOLEAN \X Nat)
<1>1. <<here, d, size>> \in Seq(Name) \X BOOLEAN \X Nat
    BY DEF CountInv
<1>2. reported \in Seq(Seq(Name) \X BOOLEAN \X Nat) /\ reported' = Append(reported, <<here, d, size>>)
    BY DEF CountInv, Report
<1> QED
    BY <1>1, <1>2, AppendProperties

LEMMA CountFileStep ==
    ASSUME HostTypeOK, WalkInv, CountFile PROVE WalkInv'
<1> DEFINE size == SizeOf(Lookup(here))
           counted == [usage EXCEPT !.files = Added(@, 1)]
           U == [size : 0..MaxTotal, files : 0..MaxTotal, directories : 0..MaxTotal]
<1>1. /\ step = "lstat" /\ size \in Nat
      /\ UNCHANGED <<walk, here, streams, steady>>
      /\ \/ Return(1) /\ UNCHANGED <<usage, reported, faults>>
         \/ Fault /\ usage' = counted /\ Return(1) /\ UNCHANGED reported
         \/ UNCHANGED faults /\ usage' = counted /\ Return(1) /\ UNCHANGED reported
         \/ /\ usage' = [counted EXCEPT !.size = Added(@, size)]
            /\ Report(FALSE, size) /\ Return(0) /\ UNCHANGED faults
    BY SizeType DEF CountFile
<1>2. usage \in U
    BY DEF WalkInv, CountInv
<1>3. counted \in U
  <2>1. usage.files \in 0..MaxTotal
      BY <1>2
  <2>2. Added(usage.files, 1) \in 0..MaxTotal
      BY <2>1, AddedType
  <2> QED
      BY <1>2, <2>2
<1>4. [counted EXCEPT !.size = Added(@, size)] \in U
  <2> HIDE DEF counted, size
  <2>1. counted.size \in 0..MaxTotal
      BY <1>3
  <2>2. Added(counted.size, size) \in 0..MaxTotal
      BY <1>1, <2>1, AddedType
  <2> QED
      BY <1>3, <2>2
<1> HIDE DEF counted, size
<1>5. FramesInv'
    BY <1>1, ReturnStep DEF WalkInv
<1>6. usage' \in U /\ faults' \in 0..MaxFaults
    BY <1>1, <1>2, <1>3, <1>4, FaultType DEF WalkInv
<1>7. reported' \in Seq(Seq(Name) \X BOOLEAN \X Nat)
  <2>1. CASE UNCHANGED reported
      BY <2>1 DEF WalkInv, CountInv
  <2>2. CASE Report(FALSE, size)
      BY <1>1, <2>2, ReportType DEF WalkInv
  <2> QED
      BY <1>1, <2>1, <2>2
<1>8. CountInv'
    BY <1>1, <1>6, <1>7 DEF WalkInv, CountInv
<1> QED
    BY <1>5, <1>8 DEF WalkInv

LEMMA CountDirectoryStep ==
    ASSUME WalkInv, CountDirectory PROVE WalkInv'
<1> DEFINE counted == [usage EXCEPT !.directories = Added(@, 1)]
           U == [size : 0..MaxTotal, files : 0..MaxTotal, directories : 0..MaxTotal]
<1>1. /\ step = "lstat"
      /\ UNCHANGED <<walk, here, streams, steady, faults>>
      /\ \/ Return(1) /\ UNCHANGED <<usage, reported>>
         \/ /\ usage' = counted /\ Report(TRUE, 0)
            /\ step' = "opendir" /\ UNCHANGED <<frames, result>>
    BY DEF CountDirectory
<1>2. usage \in U
    BY DEF WalkInv, CountInv
<1>3. counted \in U
  <2>1. usage.directories \in 0..MaxTotal
      BY <1>2
  <2>2. Added(usage.directories, 1) \in 0..MaxTotal
      BY <2>1, AddedType
  <2> QED
      BY <1>2, <2>2
<1> HIDE DEF counted
<1>4. FramesInv'
  <2>1. CASE Return(1)
      BY <1>1, <2>1, ReturnStep DEF WalkInv
  <2>2. CASE step' = "opendir" /\ UNCHANGED <<frames, result>>
      BY <1>1, <2>2 DEF WalkInv, FramesInv, Du
  <2> QED
      BY <1>1, <2>1, <2>2
<1>5. reported' \in Seq(Seq(Name) \X BOOLEAN \X Nat)
  <2>1. CASE UNCHANGED reported
      BY <2>1 DEF WalkInv, CountInv
  <2>2. CASE Report(TRUE, 0)
      BY <2>2, ReportType DEF WalkInv
  <2> QED
      BY <1>1, <2>1, <2>2
<1>6. CountInv'
    BY <1>1, <1>2, <1>3, <1>5 DEF WalkInv, CountInv
<1> QED
    BY <1>4, <1>6 DEF WalkInv

LEMMA PrintEntryStep ==
    ASSUME WalkInv, PrintEntry PROVE WalkInv'
<1> DEFINE isDirectory == Lookup(here) \in Directory
<1>1. /\ step = "lstat" /\ ~Du
      /\ UNCHANGED <<walk, here, streams, usage, steady, faults>>
      /\ Report(isDirectory, 0) /\ isDirectory \in BOOLEAN
      /\ \/ step' = "opendir" /\ UNCHANGED <<frames, result>>
         \/ step' = "readlink" /\ UNCHANGED <<frames, result>>
         \/ Return(0)
    BY DEF PrintEntry
<1> HIDE DEF isDirectory
<1>2. FramesInv'
  <2>1. CASE Return(0)
      BY <1>1, <2>1, ReturnStep DEF WalkInv
  <2>2. CASE step' \in {"opendir", "readlink"} /\ UNCHANGED <<frames, result>>
      BY <1>1, <2>2 DEF WalkInv, FramesInv, Du
  <2> QED
      BY <1>1, <2>1, <2>2
<1>3. reported' \in Seq(Seq(Name) \X BOOLEAN \X Nat)
    BY <1>1, ReportType DEF WalkInv
<1>4. CountInv'
    BY <1>1, <1>3 DEF WalkInv, CountInv
<1> QED
    BY <1>2, <1>4 DEF WalkInv

LEMMA EntriesType == \A d : Entries(d) \subseteq Name
BY DEF Entries

LEMMA OpenDirStep ==
    ASSUME WalkInv, OpenDir PROVE WalkInv'
<1> DEFINE d == Lookup(Follow(here))
           f == [path |-> here, dir |-> d, listed |-> Entries(d), sure |-> Entries(d),
                 returned |-> {}, entries |-> << >>, status |-> 0]
<1>1. /\ step = "opendir" /\ d \in Directory /\ frames' = Append(frames, f)
      /\ step' = "readdir" /\ streams' = streams + 1
      /\ UNCHANGED <<walk, here, usage, result, reported, steady, faults>>
    BY DEF OpenDir
<1>2. here \in Seq(Name) /\ frames \in Seq(Frame) /\ Len(frames) \in Nat
    BY LenProperties DEF WalkInv, FramesInv, CountInv
<1> HIDE DEF d
<1>3. f \in Frame
    BY <1>1, <1>2, EntriesType, EmptySeq DEF Frame
<1> HIDE DEF f
<1>4. frames' \in Seq(Frame) /\ Len(frames') = Len(frames) + 1 /\ frames' # << >>
    BY <1>1, <1>2, <1>3, AppendProperties
<1>5. Du' = Du /\ result' \in {0, 1}
    BY <1>1 DEF WalkInv, FramesInv, Du
<1>6. streams' = IF Du THEN Len(frames') ELSE 1
  <2>1. streams = IF Du THEN Len(frames) ELSE 0
      BY <1>1 DEF WalkInv, FramesInv
  <2> QED
      BY <1>1, <1>4, <2>1
<1>7. FramesInv'
    BY <1>1, <1>4, <1>5, <1>6 DEF FramesInv
<1>8. CountInv'
    BY <1>1 DEF WalkInv, CountInv
<1> QED
    BY <1>7, <1>8 DEF WalkInv

(* A step that changes the innermost call and stays inside.                *)
LEMMA InnerStep ==
    ASSUME FramesInv, frames # << >>, NEW f \in Frame,
           frames' \in {Append(Outer, f), [frames EXCEPT ![Len(frames)] = f]},
           UNCHANGED <<walk, streams, result>>,
           \/ step' = step
           \/ Du /\ step' = "lstat"
           \/ step = "readdir" /\ step' = "closedir"
           \/ step = "entries" /\ step' = "lstat"
    PROVE  FramesInv'
<1>1. frames \in Seq(Frame)
    BY DEF FramesInv
<1>2. frames' \in Seq(Frame) /\ Len(frames') = Len(frames) /\ frames' # << >>
    BY <1>1, InnerChanged
<1>3. Du' = Du
    BY DEF Du
<1> QED
    BY <1>2, <1>3 DEF FramesInv

LEMMA ReadNameStep ==
    ASSUME WalkInv, ReadName PROVE WalkInv'
<1>1. PICK n \in (Inner.listed \cup Entries(Inner.dir)) \ Inner.returned :
        LET read == [Inner EXCEPT !.returned = @ \cup {n}]
        IN  IF Du
            THEN /\ frames' = Append(Outer, read)
                 /\ here' = Append(Inner.path, n) /\ step' = "lstat"
            ELSE /\ frames' = Append(Outer, [read EXCEPT !.entries = Append(@, n)])
                 /\ UNCHANGED <<here, step>>
    BY DEF ReadName
<1>2. /\ step = "readdir"
      /\ UNCHANGED <<walk, streams, usage, result, reported, steady, faults>>
    BY DEF ReadName
<1>3. Inner \in Frame /\ frames # << >>
    BY <1>2, InnerOuter DEF WalkInv, FramesInv
<1>4. n \in Name
  <2>1. Inner.listed \subseteq Name
      BY <1>3 DEF Frame
  <2> QED
      BY <2>1, EntriesType
<1> DEFINE read == [Inner EXCEPT !.returned = @ \cup {n}]
           more == [read EXCEPT !.entries = Append(@, n)]
<1>5. read \in Frame
    BY <1>3, <1>4 DEF Frame
<1>6. more \in Frame
  <2> HIDE DEF read
  <2>1. Append(read.entries, n) \in Seq(Name)
      BY <1>4, <1>5, AppendProperties DEF Frame
  <2> QED
      BY <1>5, <2>1 DEF Frame
<1>7. \/ Du /\ frames' = Append(Outer, read) /\ here' = Append(Inner.path, n) /\ step' = "lstat"
      \/ frames' = Append(Outer, more) /\ UNCHANGED <<here, step>>
    BY <1>1
<1> HIDE DEF read, more
<1>8. FramesInv'
    BY <1>2, <1>3, <1>5, <1>6, <1>7, InnerStep DEF WalkInv
<1>9. here' \in Seq(Name)
  <2>1. Inner.path \in Seq(Name) /\ here \in Seq(Name)
      BY <1>3 DEF Frame, WalkInv, CountInv
  <2>2. Append(Inner.path, n) \in Seq(Name)
      BY <1>4, <2>1, AppendProperties
  <2> QED
      BY <1>7, <2>1, <2>2
<1>10. CountInv'
    BY <1>2, <1>9 DEF WalkInv, CountInv
<1> QED
    BY <1>8, <1>10 DEF WalkInv

LEMMA ReaddirEndsStep ==
    ASSUME WalkInv, ReaddirEnds PROVE WalkInv'
<1>1. FramesInv'
    BY DEF WalkInv, FramesInv, ReaddirEnds, Du
<1>2. CountInv'
    BY DEF WalkInv, CountInv, ReaddirEnds
<1> QED
    BY <1>1, <1>2 DEF WalkInv

LEMMA ReaddirFailsStep ==
    ASSUME WalkInv, ReaddirFails PROVE WalkInv'
<1> DEFINE f == [Inner EXCEPT !.status = 1]
<1>1. /\ step = "readdir" /\ Fault /\ step' = "closedir"
      /\ frames' = [frames EXCEPT ![Len(frames)] = f]
      /\ UNCHANGED <<walk, here, streams, usage, result, reported, steady>>
    BY DEF ReaddirFails, Inner
<1>2. frames # << >> /\ f \in Frame
    BY <1>1, InnerOuter, NotedFrame DEF WalkInv, FramesInv
<1> HIDE DEF f
<1>3. FramesInv'
    BY <1>1, <1>2, InnerStep DEF WalkInv
<1>4. CountInv'
    BY <1>1, CountStep DEF WalkInv
<1> QED
    BY <1>3, <1>4 DEF WalkInv

LEMMA CloseDirStep ==
    ASSUME WalkInv, CloseDir PROVE WalkInv'
<1>1. PICK s \in {Inner.status, 1} :
        /\ (s = Inner.status /\ UNCHANGED faults) \/ (s # Inner.status /\ Fault)
        /\ IF Du \/ s = 1 THEN ReturnTo(Outer, s)
           ELSE step' = "entries" /\ UNCHANGED <<frames, result>>
    BY DEF CloseDir
<1>2. /\ step = "closedir" /\ streams' = streams - 1
      /\ UNCHANGED <<walk, here, usage, reported, steady>>
    BY DEF CloseDir, StreamsLeft
<1>3. frames # << >> /\ s \in {0, 1}
  <2>1. frames \in Seq(Frame) /\ frames # << >>
      BY <1>2 DEF WalkInv, FramesInv
  <2>2. Inner.status \in {0, 1}
      BY <2>1, InnerOuter DEF Frame
  <2> QED
      BY <2>1, <2>2
<1>4. FramesInv'
  <2>1. CASE ReturnTo(Outer, s)
      BY <1>2, <1>3, <2>1, ReturnOuterStep DEF WalkInv
  <2>2. CASE ~Du /\ step' = "entries" /\ UNCHANGED <<frames, result>>
    <3>1. streams' = 0
        BY <1>2, <2>2 DEF WalkInv, FramesInv
    <3> QED
        BY <1>2, <1>3, <2>2, <3>1 DEF WalkInv, FramesInv, Du
  <2> QED
      BY <1>1, <2>1, <2>2
<1>5. CountInv'
    BY <1>1, <1>2, CountStep DEF WalkInv
<1> QED
    BY <1>4, <1>5 DEF WalkInv

LEMMA NextEntryStep ==
    ASSUME WalkInv, NextEntry PROVE WalkInv'
<1> DEFINE f == [Inner EXCEPT !.entries = Tail(@)]
<1>1. /\ step = "entries" /\ Inner.entries # << >>
      /\ here' = Append(Inner.path, Head(Inner.entries)) /\ step' = "lstat"
      /\ frames' = [frames EXCEPT ![Len(frames)] = f]
      /\ UNCHANGED <<walk, streams, usage, result, reported, steady, faults>>
    BY DEF NextEntry, Inner
<1>2. frames # << >> /\ Inner \in Frame
    BY <1>1, InnerOuter DEF WalkInv, FramesInv
<1>3. Inner.path \in Seq(Name) /\ Inner.entries \in Seq(Name)
    BY <1>2 DEF Frame
<1>4. Head(Inner.entries) \in Name /\ Tail(Inner.entries) \in Seq(Name)
    BY <1>1, <1>3, HeadTailProperties
<1>5. f \in Frame
    BY <1>2, <1>4 DEF Frame
<1> HIDE DEF f
<1>6. FramesInv'
    BY <1>1, <1>2, <1>5, InnerStep DEF WalkInv
<1>7. here' \in Seq(Name)
    BY <1>1, <1>3, <1>4, AppendProperties
<1>8. CountInv'
    BY <1>1, <1>7 DEF WalkInv, CountInv
<1> QED
    BY <1>6, <1>8 DEF WalkInv

LEMMA EntriesEndStep ==
    ASSUME WalkInv, EntriesEnd PROVE WalkInv'
<1>1. frames # << >> /\ ~Du /\ Inner.status \in {0, 1}
  <2>1. frames \in Seq(Frame) /\ frames # << >> /\ ~Du
      BY DEF WalkInv, FramesInv, EntriesEnd
  <2> QED
      BY <2>1, InnerOuter DEF Frame
<1>2. FramesInv'
    BY <1>1, ReturnOuterStep DEF WalkInv, EntriesEnd
<1>3. CountInv'
    BY CountStep DEF WalkInv, EntriesEnd
<1> QED
    BY <1>2, <1>3 DEF WalkInv

LEMMA EntriesBreakStep ==
    ASSUME WalkInv, EntriesBreak PROVE WalkInv'
<1>1. FramesInv'
    BY ReturnOuterStep DEF WalkInv, EntriesBreak
<1>2. CountInv'
    BY CountStep DEF WalkInv, EntriesBreak
<1> QED
    BY <1>1, <1>2 DEF WalkInv

LEMMA WalkStep ==
    ASSUME HostTypeOK, WalkInv, HostWalkNext PROVE WalkInv'
BY BeginStep, LstatFailsStep, CountFileStep, CountDirectoryStep, PrintEntryStep, ReadLinkStep,
   OpenDirStep, OpenDirFailsStep, ReadNameStep, ReaddirEndsStep, ReaddirFailsStep, CloseDirStep,
   NextEntryStep, EntriesEndStep, EntriesBreakStep DEF HostWalkNext

(* A change of the tree by others leaves the calls and the streams.        *)
LEMMA DisturbStep ==
    ASSUME WalkInv, Disturb PROVE WalkInv'
<1>1. frames \in Seq(Frame) /\ Len(frames) \in Nat /\ DOMAIN frames = 1..Len(frames)
    BY LenProperties DEF WalkInv, FramesInv
<1>2. \A f \in Frame : Disturbed(f) \in Frame
    BY DEF Disturbed, Frame
<1>3. \A k \in 1..Len(frames) : Disturbed(frames[k]) \in Frame
    BY <1>1, <1>2, ElementOfSeq
<1>4. frames' = [k \in 1..Len(frames) |-> Disturbed(frames[k])]
    BY <1>1 DEF Disturb
<1>5. frames' \in [1..Len(frames) -> Frame]
    BY <1>3, <1>4
<1>6. frames' \in Seq(Frame)
    BY <1>1, <1>5, SeqDef
<1>7. Len(frames') = Len(frames)
    BY <1>1, <1>5, <1>6, LenProperties
<1>8. frames # << >> => frames' # << >>
    BY <1>1, <1>6, <1>7, EmptySeq
<1>9. FramesInv'
    BY <1>6, <1>7, <1>8 DEF WalkInv, FramesInv, Disturb, Du
<1>10. CountInv'
    BY DEF WalkInv, CountInv, Disturb
<1> QED
    BY <1>9, <1>10 DEF WalkInv

LEMMA WalkStutter ==
    ASSUME WalkInv, UNCHANGED walker PROVE WalkInv'
<1>1. UNCHANGED <<walk, step, here, frames, streams, usage, result, reported, steady, faults>>
    BY DEF walker
<1> QED
    BY <1>1 DEF WalkInv, FramesInv, CountInv, Du

LEMMA WalkInit == HostWalkInit => WalkInv
<1> SUFFICES ASSUME HostWalkInit PROVE WalkInv
    OBVIOUS
<1>1. FramesInv
    BY EmptySeq DEF HostWalkInit, FramesInv, Du
<1>2. CountInv
    BY EmptySeq, HostWalkAssumption DEF HostWalkInit, CountInv
<1> QED
    BY <1>1, <1>2 DEF WalkInv

-----------------------------------------------------------------------------
(* The walk among the edits *)

LEMMA BothInvInit == Init => EditInv /\ WalkInv
BY EditInvInit, WalkInit DEF Init

LEMMA BothInvNext == EditInv /\ WalkInv /\ [Next]_vars => EditInv' /\ WalkInv'
<1> SUFFICES ASSUME EditInv, WalkInv, [Next]_vars PROVE EditInv' /\ WalkInv'
    OBVIOUS
<1>1. EditInv'
    BY EditInvNext
<1>2. HostTypeOK
    BY DEF EditInv
<1>3. CASE EditorNext /\ Disturb
    BY <1>1, <1>3, DisturbStep
<1>4. CASE HostWalkNext
    BY <1>1, <1>2, <1>4, WalkStep
<1>5. CASE UNCHANGED vars
  <2>1. UNCHANGED walker
      BY <1>5 DEF vars
  <2> QED
      BY <1>1, <2>1, WalkStutter
<1> QED
    BY <1>3, <1>4, <1>5 DEF Next

(* Every stream that opendir opened is closed, in every order of the steps *)
(* and whatever fails; no total leaves its range (analyzer.c).             *)
THEOREM HostTypes == Spec => []TypeOK
<1>1. EditInv /\ WalkInv => TypeOK
    BY WalkTypes DEF TypeOK, EditInv
<1> QED
    BY <1>1, BothInvInit, BothInvNext, PTL DEF Spec

-----------------------------------------------------------------------------
(* What a walk has told of the paths that are steady *)

(* The path of a name in a call, and the names it still has to deal with.  *)
Child(f, n) == Under(f.path, n)
Todo(du, f) == (Name \ f.returned) \cup (IF du THEN {} ELSE {f.entries[i] : i \in 1..Len(f.entries)})

AheadOf(du, f, q) == \E n \in Todo(du, f) : Below(Child(f, n), q)

Going == {"lstat", "readlink", "opendir"}

(* The walk has still to come by a path.                                   *)
AheadIn(q) == \E k \in 1..Len(frames) : AheadOf(Du, frames[k], q)

Ahead(q) ==
    \/ AheadIn(q)
    \/ step = "lstat" /\ Below(here, q)
    \/ step = "opendir" /\ Below(here, q) /\ q # here

(* No failure has been noted.                                              *)
Clean == (\A k \in 1..Len(frames) : frames[k].status = 0) /\ (step = "done" => result = 0)

SteadyInv == Rooted(walk.path, steady) /\ \A q \in steady : Lookup(q) # None

(* The calls are on the way down to the path at hand.                      *)
LineInv ==
    /\ step = "start" => here = walk.path /\ steady = {} /\ reported = << >>
    /\ step \in {"start", "done"} => frames = << >>
    /\ step = "readlink" => ~Du
    /\ \A k \in 1..Len(frames) : Len(frames[k].path) = Len(walk.path) + k - 1
    /\ step \in Going => Len(here) = Len(walk.path) + Len(frames)

(* A name that is left is not on the way.                                  *)
FreshInv ==
    \A k \in 1..Len(frames) : \A n \in Todo(Du, frames[k]) :
        Child(frames[k], n) \in steady =>
            /\ \A l \in 1..Len(frames) : ~Below(Child(frames[k], n), frames[l].path)
            /\ step \in Going => ~Below(Child(frames[k], n), here)

(* A stream returns a steady name, and tree has it once.                   *)
Once(f, n) ==
    \A i, j \in 1..Len(f.entries) :
        /\ f.entries[i] = n => n \in f.returned
        /\ f.entries[i] = n /\ f.entries[j] = n => i = j

Streamed(tree, paths, f) ==
    \A n \in Name : Child(f, n) \in paths =>
        LookupIn(tree, f.path) = f.dir /\ n \in f.sure /\ Once(f, n)

StreamInv == \A k \in 1..Len(frames) : Streamed(at, steady, frames[k])

(* A call has read all of its stream.                                      *)
Drained(k) ==
    IF Du THEN k = Len(frames) /\ step = "closedir"
    ELSE k < Len(frames) \/ step \in Going \cup {"closedir", "entries"}

DrainedInv ==
    Clean => \A k \in 1..Len(frames) : Drained(k) => frames[k].sure \subseteq frames[k].returned

(* What is told of a path is right.                                        *)
Right(q, k) ==
    /\ reported[k][2] <=> Lookup(q) \in Directory
    /\ Du /\ ~reported[k][2] /\ (Lookup(q) \in Link \/ Unwritten(Lookup(q))) =>
           reported[k][3] = SizeOf(Lookup(q))

(* What is ahead has not been told, and all else has, once.                *)
ToldInv ==
    Clean => \A q \in steady :
        /\ Ahead(q) => Reports(q) = {}
        /\ ~Ahead(q) => \E k \in DOMAIN reported : Reports(q) = {k} /\ Right(q, k)

TotalInv ==
    Clean /\ Du => /\ usage.files = Cardinality(FileReports)
                   /\ usage.directories = Len(reported) - Cardinality(FileReports)
                   /\ usage.size = TotalOf(Sizes)

(* Calls with the same data, but for the status.                           *)
Like(f, g) == /\ f.path = g.path /\ f.dir = g.dir /\ f.sure = g.sure
              /\ f.returned = g.returned /\ f.entries = g.entries

LEMMA LikeSame ==
    ASSUME NEW f, NEW g, Like(f, g)
    PROVE  /\ \A n : Child(f, n) = Child(g, n)
           /\ \A n : Once(f, n) <=> Once(g, n)
           /\ \A du : Todo(du, f) = Todo(du, g)
           /\ \A du, q : AheadOf(du, f, q) <=> AheadOf(du, g, q)
           /\ \A tree, paths : Streamed(tree, paths, f) <=> Streamed(tree, paths, g)
BY DEF Like, Child, Todo, AheadOf, Streamed, Once

LEMMA TodoNames ==
    ASSUME NEW f \in Frame, NEW du
    PROVE  Todo(du, f) \subseteq Name
<1>1. f.entries \in Seq(Name)
    BY DEF Frame
<1>2. \A i \in 1..Len(f.entries) : f.entries[i] \in Name
    BY <1>1, ElementOfSeq
<1> QED
    BY <1>2 DEF Todo

LEMMA ChildType ==
    ASSUME NEW f \in Frame, NEW n \in Name
    PROVE  /\ f.path \in Seq(Name) /\ Len(f.path) \in Nat
           /\ Child(f, n) \in Seq(Name) /\ Len(Child(f, n)) = Len(f.path) + 1
           /\ Below(f.path, Child(f, n)) /\ f.path # Child(f, n)
<1>1. f.path \in Seq(Name)
    BY DEF Frame
<1> QED
    BY <1>1, UnderType, UnderBelow DEF Child

(* A call that returns to another changes no more than its status.         *)
LEMMA ReturnedLike ==
    ASSUME NEW callers \in Seq(Frame), NEW s \in {0, 1}, ReturnTo(callers, s)
    PROVE  /\ Len(frames') = Len(callers)
           /\ \A k \in 1..Len(callers) : Like(frames'[k], callers[k])
           /\ \/ callers = << >> /\ frames' = << >> /\ step' = "done"
              \/ callers # << >> /\ step' = IF Du THEN "readdir" ELSE "entries"
           /\ Clean' => s = 0 /\ \A k \in 1..Len(callers) : callers[k].status = 0
<1>1. CASE callers = << >>
  <2>1. step' = "done" /\ result' = s /\ frames' = callers /\ frames' = << >>
      BY <1>1 DEF ReturnTo
  <2>2. Len(callers) = 0
      BY <1>1
  <2>3. Clean' => s = 0
      BY <2>1 DEF Clean
  <2> QED
      BY <1>1, <2>1, <2>2, <2>3
<1>2. CASE callers # << >>
  <2> DEFINE n == Len(callers)
             g == [callers[n] EXCEPT !.status = IF s = 1 THEN 1 ELSE @]
  <2>1. /\ step' = IF Du THEN "readdir" ELSE "entries"
        /\ frames' = [callers EXCEPT ![n] = g]
      BY <1>2 DEF ReturnTo
  <2>2. n \in Nat \ {0} /\ n \in 1..n /\ callers[n] \in Frame
      BY <1>2, Shorter
  <2>3. /\ Like(g, callers[n]) /\ g \in Frame
        /\ g.status = 0 => s = 0 /\ callers[n].status = 0
    <3>1. CASE s = 1
        BY <2>2, <3>1 DEF Like, Frame
    <3>2. CASE s # 1
        BY <2>2, <3>2 DEF Like, Frame
    <3> QED BY <3>1, <3>2
  <2> HIDE DEF g
  <2>4. Len(frames') = n /\ \A k \in 1..n : frames'[k] = IF k = n THEN g ELSE callers[k]
      BY <2>1, <2>2, <2>3, ExceptSeq
  <2>5. \A k \in 1..n : Like(callers[k], callers[k])
      BY DEF Like
  <2> HIDE DEF n
  <2>6. \A k \in 1..n : Like(frames'[k], callers[k])
      BY <2>3, <2>4, <2>5
  <2>7. ASSUME Clean' PROVE s = 0 /\ \A k \in 1..n : callers[k].status = 0
    <3>1. \A k \in 1..n : frames'[k].status = 0
        BY <2>4, <2>7 DEF Clean
    <3> QED BY <2>2, <2>3, <2>4, <3>1
  <2> QED
      BY <1>2, <2>1, <2>4, <2>6, <2>7 DEF n
<1> QED
    BY <1>1, <1>2

TellInv ==
    SteadyInv /\ LineInv /\ FreshInv /\ StreamInv /\ DrainedInv /\ ToldInv /\ TotalInv

(* A step that ends calls, and changes no other but for its status.        *)
Shrunk ==
    /\ Len(frames') <= Len(frames)
    /\ \A k \in 1..Len(frames') : Like(frames'[k], frames[k])

LEMMA SteadySame ==
    ASSUME SteadyInv, UNCHANGED <<at, walk, steady>>
    PROVE  SteadyInv'
<1>1. \A p : Lookup(p)' = Lookup(p)
    BY LookupNow, LookupThen
<1> QED
    BY <1>1 DEF SteadyInv, Rooted

LEMMA ShrunkStep ==
    ASSUME TellInv, WalkInv, WalkInv', Shrunk, UNCHANGED <<at, walk, here, steady>>,
           step' # "start", step' = "done" => frames' = << >>, step' = "readlink" => ~Du,
           step' \in Going => step \in Going /\ Len(frames') = Len(frames),
           Clean' => Clean /\ \A k \in 1..Len(frames') :
                                 Drained(k)' => frames[k].sure \subseteq frames[k].returned
    PROVE  SteadyInv' /\ LineInv' /\ FreshInv' /\ StreamInv' /\ DrainedInv'
<1>1. Len(frames) \in Nat /\ Len(frames') \in Nat /\ 1..Len(frames') \subseteq 1..Len(frames)
  <2>1. Len(frames) \in Nat /\ Len(frames') \in Nat
      BY LenProperties DEF WalkInv, FramesInv
  <2> QED
      BY <2>1 DEF Shrunk
<1>2. Du' = Du
    BY DEF Du
<1>3. \A k \in 1..Len(frames') :
         /\ frames'[k].path = frames[k].path /\ frames'[k].sure = frames[k].sure
         /\ frames'[k].returned = frames[k].returned
    BY DEF Shrunk, Like
<1>4. \A k \in 1..Len(frames') :
         /\ \A n : Child(frames'[k], n) = Child(frames[k], n)
         /\ Todo(Du, frames'[k]) = Todo(Du, frames[k])
         /\ Streamed(at, steady, frames[k]) => Streamed(at, steady, frames'[k])
    BY LikeSame DEF Shrunk
<1>5. SteadyInv'
    BY SteadySame DEF TellInv
<1>6. LineInv'
    BY <1>1, <1>2, <1>3 DEF TellInv, LineInv
<1>7. FreshInv'
  <2> SUFFICES ASSUME NEW k \in 1..Len(frames'), NEW n \in Todo(Du, frames'[k]), Child(frames'[k], n) \in steady
               PROVE  /\ \A l \in 1..Len(frames') : ~Below(Child(frames'[k], n), frames'[l].path)
                      /\ step' \in Going => ~Below(Child(frames'[k], n), here)
      BY <1>2 DEF FreshInv, Going
  <2>1. k \in 1..Len(frames) /\ n \in Todo(Du, frames[k]) /\ Child(frames'[k], n) = Child(frames[k], n)
      BY <1>1, <1>4
  <2>2. /\ \A l \in 1..Len(frames) : ~Below(Child(frames[k], n), frames[l].path)
        /\ step \in Going => ~Below(Child(frames[k], n), here)
      BY <2>1 DEF TellInv, FreshInv
  <2> QED
      BY <1>1, <1>3, <2>1, <2>2
<1>8. StreamInv'
    BY <1>1, <1>4 DEF TellInv, StreamInv
<1>9. DrainedInv'
    BY <1>1, <1>3 DEF DrainedInv
<1> QED
    BY <1>5, <1>6, <1>7, <1>8, <1>9

(* A step that tells nothing.                                              *)
LEMMA RightSame ==
    ASSUME UNCHANGED <<host, edit, walk>>, NEW q, NEW k, NEW j, reported'[j] = reported[k], Right(q, k)
    PROVE  Right(q, j)'
<1>1. Lookup(q)' = Lookup(q)
    BY LookupNow, LookupThen DEF host
<1>2. Du' = Du /\ content' = content
    BY DEF Du, host
<1> HIDE DEF Du
<1>3. Unwritten(Lookup(q))' = Unwritten(Lookup(q)) /\ SizeOf(Lookup(q))' = SizeOf(Lookup(q))
  <2>1. \A o : Lookup(q)' = o => Unwritten(Lookup(q))' = Unwritten(o) /\ SizeOf(Lookup(q))' = SizeOf(o)
      BY <1>2 DEF SizeOf, Unwritten, Writers, Overwriters, edit
  <2> QED
      BY <1>1, <2>1
<1> QED
    BY <1>1, <1>2, <1>3 DEF Right

LEMMA ToldNothing ==
    ASSUME ToldInv, UNCHANGED <<host, edit, walk, steady, reported>>,
           Clean' => Clean /\ \A q \in steady : Ahead(q)' <=> Ahead(q)
    PROVE  ToldInv'
<1>1. \A q : Reports(q)' = Reports(q)
    BY DEF Reports
<1>2. \A q, k : Right(q, k) => Right(q, k)'
    BY RightSame
<1> SUFFICES ASSUME Clean', NEW q \in steady
             PROVE  /\ Ahead(q)' => Reports(q)' = {}
                    /\ ~Ahead(q)' => \E k \in DOMAIN reported : Reports(q)' = {k} /\ Right(q, k)'
    BY DEF ToldInv
<1> QED
    BY <1>1, <1>2 DEF ToldInv

LEMMA TotalSame ==
    ASSUME TotalInv, UNCHANGED <<walk, usage, reported>>, Clean' => Clean
    PROVE  TotalInv'
BY DEF TotalInv, Du, FileReports, Sizes

LEMMA FrameTypes ==
    ASSUME WalkInv
    PROVE  /\ frames \in Seq(Frame) /\ Len(frames) \in Nat /\ result \in {0, 1}
           /\ \A k \in 1..Len(frames) : frames[k] \in Frame
           /\ walk.path \in Seq(Name) /\ Len(walk.path) \in Nat /\ here \in Seq(Name)
<1>1. frames \in Seq(Frame) /\ result \in {0, 1} /\ walk \in Walks /\ here \in Seq(Name)
    BY DEF WalkInv, FramesInv, CountInv
<1>2. walk.path \in Seq(Name)
    BY <1>1, HostWalkAssumption
<1>3. \A k \in 1..Len(frames) : frames[k] \in Frame
    BY <1>1, ElementOfSeq
<1> QED
    BY <1>1, <1>2, <1>3, LenProperties

(* The beginnings of a steady path are steady.                             *)
LEMMA SteadyAbove ==
    ASSUME WalkInv, SteadyInv, NEW q \in steady, NEW a \in Seq(Name), Len(walk.path) <= Len(a), Below(a, q)
    PROVE  a \in steady /\ q \in Seq(Name) /\ (a # q => Lookup(a) \in Directory)
BY DEF SteadyInv, Rooted

(* Nothing steady is ahead in a call that has dealt with all it has read.  *)
LEMMA NothingLeft ==
    ASSUME WalkInv, TellInv, NEW k \in 1..Len(frames), frames[k].sure \subseteq frames[k].returned,
           Du \/ frames[k].entries = << >>, NEW q \in steady
    PROVE  ~AheadOf(Du, frames[k], q)
<1> SUFFICES ASSUME NEW n \in Todo(Du, frames[k]), Below(Child(frames[k], n), q) PROVE FALSE
    BY DEF AheadOf
<1>1. frames[k] \in Frame /\ k \in Nat /\ k >= 1 /\ Len(walk.path) \in Nat
    BY FrameTypes
<1>2. n \in Name
    BY <1>1, TodoNames
<1>3. n \notin frames[k].returned
  <2>1. Du \/ Len(frames[k].entries) = 0
      OBVIOUS
  <2> QED
      BY <2>1 DEF Todo
<1>4. Child(frames[k], n) \in steady
  <2>1. Len(frames[k].path) = Len(walk.path) + k - 1
      BY DEF TellInv, LineInv
  <2>2. Child(frames[k], n) \in Seq(Name) /\ Len(Child(frames[k], n)) = Len(frames[k].path) + 1
      BY <1>1, <1>2, ChildType
  <2>3. Len(walk.path) <= Len(Child(frames[k], n))
      BY <1>1, <2>1, <2>2
  <2> QED
      BY <2>2, <2>3, SteadyAbove DEF TellInv
<1>5. n \in frames[k].sure
    BY <1>2, <1>4 DEF TellInv, StreamInv, Streamed
<1> QED
    BY <1>3, <1>5

LEMMA OuterElements ==
    ASSUME frames \in Seq(Frame), frames # << >>
    PROVE  /\ Len(Outer) = Len(frames) - 1 /\ Len(frames) \in Nat \ {0}
           /\ \A k \in 1..Len(Outer) : Outer[k] = frames[k]
<1>1. Len(frames) \in Nat \ {0} /\ Len(Outer) = Len(frames) - 1
    BY InnerOuter
<1> DEFINE m == Len(frames) - 1
<1>2. m \in Nat /\ \A k \in 1..m : k \in 1..Len(frames)
    BY <1>1
<1>3. \A k \in 1..m : frames[k] \in Frame
    BY <1>2, ElementOfSeq
<1>4. \A k \in 1..(m - 1 + 1) : Outer[k] = frames[1 + k - 1]
  <2> HIDE DEF m
  <2> QED BY <1>2, <1>3, SubSeqProperties DEF Outer, m
<1> HIDE DEF m
<1>5. m - 1 + 1 = m /\ \A k \in 1..m : 1 + k - 1 = k
    BY <1>2
<1>6. \A k \in 1..m : Outer[k] = frames[k]
    BY <1>4, <1>5
<1> QED
    BY <1>1, <1>6 DEF m

(* A call at the path at hand returns to the innermost.                    *)
LEMMA ReturnTells ==
    ASSUME TellInv, WalkInv, WalkInv', NEW s \in {0, 1}, Return(s), step \in Going,
           UNCHANGED <<at, walk, here, steady>>
    PROVE  /\ SteadyInv' /\ LineInv' /\ FreshInv' /\ StreamInv' /\ DrainedInv'
           /\ Clean' => Clean /\ s = 0
           /\ \A q : Ahead(q)' <=> AheadIn(q)
<1>1. ReturnTo(frames, s) /\ frames \in Seq(Frame) /\ Len(frames) \in Nat
    BY FrameTypes DEF Return
<1>2. /\ Len(frames') = Len(frames)
      /\ \A k \in 1..Len(frames) : Like(frames'[k], frames[k])
      /\ \/ frames' = << >> /\ step' = "done"
         \/ step' = IF Du THEN "readdir" ELSE "entries"
      /\ Clean' => s = 0 /\ \A k \in 1..Len(frames) : frames[k].status = 0
    BY <1>1, ReturnedLike
<1>3. Shrunk
    BY <1>1, <1>2 DEF Shrunk
<1>4. Clean' => Clean /\ s = 0
    BY <1>2 DEF Clean, Going
<1>5. Du' = Du
    BY DEF Du
<1>6. ASSUME Clean', NEW k \in 1..Len(frames'), Drained(k)'
      PROVE  frames[k].sure \subseteq frames[k].returned
  <2>1. ~Du
      BY <1>2, <1>5, <1>6 DEF Drained
  <2>2. k \in 1..Len(frames) /\ Drained(k)
      BY <1>2, <2>1 DEF Drained
  <2> QED
      BY <1>4, <1>6, <2>2 DEF TellInv, DrainedInv
<1>7. step' \notin Going /\ step' # "start" /\ (step' = "done" => frames' = << >>) /\ step' # "readlink"
    BY <1>2 DEF Going
<1>8. SteadyInv' /\ LineInv' /\ FreshInv' /\ StreamInv' /\ DrainedInv'
    BY <1>3, <1>4, <1>6, <1>7, ShrunkStep
<1>9. ASSUME NEW q PROVE Ahead(q)' <=> AheadIn(q)
  <2>1. \A k \in 1..Len(frames) : AheadOf(Du, frames'[k], q) <=> AheadOf(Du, frames[k], q)
      BY <1>2, LikeSame
  <2>2. AheadIn(q)' <=> AheadIn(q)
      BY <1>2, <1>5, <2>1 DEF AheadIn
  <2> QED
      BY <1>7, <2>2 DEF Ahead, Going
<1> QED
    BY <1>4, <1>8, <1>9

(* The innermost call returns to the one around it.                        *)
LEMMA OuterTells ==
    ASSUME TellInv, WalkInv, WalkInv', frames # << >>, NEW s \in {0, 1}, ReturnTo(Outer, s), step # "done",
           UNCHANGED <<host, edit, walk, here, steady, reported, usage>>,
           s = 0 => /\ Inner.status = 0 /\ (Du \/ Inner.entries = << >>)
                    /\ Drained(Len(frames)) /\ step \notin Going
    PROVE  TellInv'
<1>1. /\ Outer \in Seq(Frame) /\ Len(frames) \in Nat \ {0} /\ Len(Outer) = Len(frames) - 1
      /\ Len(frames) \in 1..Len(frames) /\ 1..Len(Outer) \subseteq 1..Len(frames)
      /\ \A k \in 1..Len(frames) : k \in 1..Len(Outer) \/ k = Len(frames)
      /\ \A k \in 1..Len(Outer) : Outer[k] = frames[k] /\ k < Len(frames)
  <2>1. /\ Outer \in Seq(Frame) /\ Len(frames) \in Nat \ {0} /\ Len(Outer) = Len(frames) - 1
        /\ \A k \in 1..Len(Outer) : Outer[k] = frames[k]
      BY FrameTypes, OuterElements, InnerOuter
  <2> QED
      BY <2>1
<1>2. /\ Len(frames') = Len(Outer)
      /\ \A k \in 1..Len(Outer) : Like(frames'[k], frames[k])
      /\ \/ frames' = << >> /\ step' = "done"
         \/ step' = IF Du THEN "readdir" ELSE "entries"
      /\ Clean' => s = 0 /\ \A k \in 1..Len(Outer) : frames[k].status = 0
    BY <1>1, ReturnedLike
<1>3. Shrunk
    BY <1>1, <1>2 DEF Shrunk
<1>4. Clean' => Clean /\ s = 0
    BY <1>1, <1>2 DEF Clean, Inner
<1>5. Du' = Du
    BY DEF Du
<1>6. ASSUME Clean', NEW k \in 1..Len(frames'), Drained(k)'
      PROVE  frames[k].sure \subseteq frames[k].returned
  <2>1. ~Du
      BY <1>2, <1>5, <1>6 DEF Drained
  <2>2. k \in 1..Len(frames) /\ Drained(k)
      BY <1>1, <1>2, <2>1 DEF Drained
  <2> QED
      BY <1>4, <1>6, <2>2 DEF TellInv, DrainedInv
<1>7. step' \notin Going /\ step' # "start" /\ (step' = "done" => frames' = << >>) /\ step' # "readlink"
    BY <1>2 DEF Going
<1>8. SteadyInv' /\ LineInv' /\ FreshInv' /\ StreamInv' /\ DrainedInv'
    BY <1>3, <1>4, <1>6, <1>7, ShrunkStep DEF host
<1>9. ASSUME Clean', NEW q \in steady PROVE Ahead(q)' <=> Ahead(q)
  <2>1. \A k \in 1..Len(Outer) : AheadOf(Du, frames'[k], q) <=> AheadOf(Du, frames[k], q)
      BY <1>2, LikeSame
  <2>2. ~AheadOf(Du, frames[Len(frames)], q)
    <3>1. frames[Len(frames)].sure \subseteq frames[Len(frames)].returned
        BY <1>1, <1>4, <1>9 DEF TellInv, DrainedInv
    <3> QED
        BY <1>1, <1>4, <1>9, <3>1, NothingLeft DEF Inner
  <2>3. AheadIn(q)' <=> AheadIn(q)
      BY <1>1, <1>2, <1>5, <2>1, <2>2 DEF AheadIn
  <2> QED
      BY <1>4, <1>7, <1>9, <2>3 DEF Ahead, Going
<1>10. ToldInv'
    BY <1>4, <1>9, ToldNothing DEF TellInv
<1>11. TotalInv'
    BY <1>4, TotalSame DEF TellInv
<1> QED
    BY <1>8, <1>10, <1>11 DEF TellInv

(* Totals *)

Summed(f, sizes, m) == f = [n \in 0..m |-> IF n = 0 THEN 0 ELSE f[n - 1] + sizes[n]]

Unfolded(f, sizes, m) == f[0] = 0 /\ \A k \in 1..m : f[k] = f[k - 1] + sizes[k]

LEMMA SummedUnfolds ==
    ASSUME NEW f, NEW sizes, NEW m \in Nat, Summed(f, sizes, m)
    PROVE  Unfolded(f, sizes, m)
<1>1. 0 \in 0..m /\ \A k \in 1..m : k \in 0..m /\ k # 0
    OBVIOUS
<1> QED
    BY <1>1 DEF Summed, Unfolded

LEMMA SummedExists ==
    ASSUME NEW sizes, NEW c \in Nat
    PROVE  \E f : Summed(f, sizes, c)
<1> DEFINE K == {k \in Nat : \E f : Summed(f, sizes, k)}
<1>1. 0 \in K
  <2> DEFINE f == [n \in 0..0 |-> 0]
  <2>1. Summed(f, sizes, 0)
      BY DEF Summed
  <2> HIDE DEF f
  <2> QED
      BY <2>1
<1>2. ASSUME NEW m \in Nat, m \in K
      PROVE  m + 1 \in K
  <2>1. PICK f : Summed(f, sizes, m)
      BY <1>2
  <2>2. f[0] = 0 /\ \A k \in 1..m : f[k] = f[k - 1] + sizes[k]
      BY <2>1, SummedUnfolds DEF Unfolded
  <2> DEFINE g == [n \in 0..(m + 1) |-> IF n <= m THEN f[n] ELSE f[m] + sizes[n]]
             h == [n \in 0..(m + 1) |-> IF n = 0 THEN 0 ELSE g[n - 1] + sizes[n]]
  <2> HIDE DEF K
  <2>3. \A n \in 0..(m + 1) : g[n] = h[n]
    <3> TAKE n \in 0..(m + 1)
    <3>1. CASE n = 0
        BY <2>2, <3>1
    <3>2. CASE n \in 1..m
      <4>1. n - 1 \in 0..(m + 1) /\ n - 1 <= m /\ n # 0 /\ n <= m
          BY <3>2
      <4>2. g[n] = f[n] /\ g[n - 1] = f[n - 1] /\ h[n] = g[n - 1] + sizes[n]
          BY <4>1
      <4> QED BY <2>2, <3>2, <4>2
    <3>3. CASE n = m + 1
      <4>1. m \in 0..(m + 1) /\ n - 1 = m /\ n # 0 /\ ~(n <= m)
          BY <3>3
      <4>2. g[n] = f[m] + sizes[n] /\ g[n - 1] = f[m] /\ h[n] = g[n - 1] + sizes[n]
          BY <4>1
      <4> QED BY <4>2
    <3>4. n = 0 \/ n \in 1..m \/ n = m + 1
        OBVIOUS
    <3> QED
        BY <3>1, <3>2, <3>3, <3>4
  <2>4. g = h
      BY <2>3
  <2>5. Summed(g, sizes, m + 1)
      BY <2>4 DEF Summed
  <2> HIDE DEF g, h
  <2> QED
      BY <2>5 DEF K
<1> HIDE DEF K
<1>3. Nat \subseteq K
    BY <1>1, <1>2, Induction
<1> QED
    BY <1>3 DEF K

(* One size more adds it to the total.                                     *)
LEMMA TotalGrows ==
    ASSUME NEW s \in Seq(Nat), NEW t \in Seq(Nat), Len(t) = Len(s) + 1, \A k \in 1..Len(s) : t[k] = s[k]
    PROVE  TotalOf(s) \in Nat /\ TotalOf(t) = TotalOf(s) + t[Len(t)]
<1> DEFINE m == Len(s)
           f == CHOOSE f : Summed(f, s, m)
           g == CHOOSE g : Summed(g, t, Len(t))
<1>1. m \in Nat /\ Len(t) = m + 1 /\ (\A k \in 1..m : t[k] = s[k]) /\ (\A k \in 1..m : s[k] \in Nat)
    BY LenProperties, ElementOfSeq
<1> HIDE DEF m
<1>2. TotalOf(s) = f[m]
    BY DEF TotalOf, Summed, m
<1>3. TotalOf(t) = g[m + 1]
    BY <1>1 DEF TotalOf, Summed
<1>4. m + 1 \in Nat
    BY <1>1
<1>5. Summed(f, s, m) /\ Summed(g, t, m + 1)
    BY <1>1, <1>4, SummedExists
<1> HIDE DEF f, g
<1>6. /\ f[0] = 0 /\ g[0] = 0
      /\ \A k \in 1..m : f[k] = f[k - 1] + s[k]
      /\ \A k \in 1..(m + 1) : g[k] = g[k - 1] + t[k]
  <2>1. f[0] = 0 /\ \A k \in 1..m : f[k] = f[k - 1] + s[k]
      BY <1>1, <1>5, SummedUnfolds DEF Unfolded
  <2>2. g[0] = 0 /\ \A k \in 1..(m + 1) : g[k] = g[k - 1] + t[k]
    <3> DEFINE e == m + 1
    <3>1. e \in Nat /\ Summed(g, t, e)
        BY <1>4, <1>5
    <3> HIDE DEF e
    <3>2. Unfolded(g, t, e)
        BY <3>1, SummedUnfolds
    <3> QED
        BY <3>2 DEF e, Unfolded
  <2> QED
      BY <2>1, <2>2
<1> DEFINE S == {k \in Nat : k <= m => f[k] \in Nat /\ g[k] = f[k]}
<1>7. 0 \in S
    BY <1>6
<1>8. ASSUME NEW k \in Nat, k \in S PROVE k + 1 \in S
  <2> SUFFICES ASSUME k + 1 <= m PROVE f[k + 1] \in Nat /\ g[k + 1] = f[k + 1]
      OBVIOUS
  <2> DEFINE j == k + 1
  <2>1. j \in 1..m /\ j \in 1..(m + 1) /\ j - 1 = k /\ k <= m
      BY <1>1
  <2>2. f[k] \in Nat /\ g[k] = f[k]
      BY <1>8, <2>1
  <2> HIDE DEF S, j
  <2>3. s[j] \in Nat /\ t[j] = s[j]
      BY <1>1, <2>1
  <2>4. f[j] = f[k] + s[j]
      BY <1>6, <2>1
  <2>5. g[j] = g[k] + t[j]
      BY <1>6, <2>1
  <2>6. f[j] \in Nat /\ g[j] = f[j]
      BY <2>2, <2>3, <2>4, <2>5
  <2> QED
      BY <2>6 DEF j
<1>9. Nat \subseteq S
  <2> HIDE DEF S
  <2> QED BY <1>7, <1>8, Induction
<1>10. f[m] \in Nat /\ g[m] = f[m]
    BY <1>1, <1>9
<1> HIDE DEF S
<1>11. g[m + 1] = g[m] + t[m + 1]
  <2> DEFINE e == m + 1
  <2>1. e \in 1..(m + 1) /\ e - 1 = m
      BY <1>1
  <2> HIDE DEF e
  <2>2. g[e] = g[e - 1] + t[e]
      BY <1>6, <2>1
  <2> QED
      BY <2>1, <2>2 DEF e
<1> QED
    BY <1>1, <1>2, <1>3, <1>10, <1>11

LEMMA TotalEmpty == TotalOf(<< >>) = 0
<1> DEFINE s == << >>
           f == CHOOSE f : Summed(f, s, 0)
<1>1. Len(s) = 0
    OBVIOUS
<1>2. TotalOf(s) = f[0]
    BY <1>1 DEF TotalOf, Summed
<1>3. Summed(f, s, 0)
    BY SummedExists
<1> HIDE DEF f
<1> QED
    BY <1>2, <1>3, SummedUnfolds DEF Unfolded

-----------------------------------------------------------------------------
(* A report *)

LEMMA ReportedOne ==
    ASSUME WalkInv, NEW d \in BOOLEAN, NEW size \in Nat, Report(d, size)
    PROVE  /\ Len(reported) \in Nat /\ Len(reported') = Len(reported) + 1
           /\ DOMAIN reported = 1..Len(reported) /\ DOMAIN reported' = 1..(Len(reported) + 1)
           /\ \A k \in 1..Len(reported) : reported'[k] = reported[k] /\ reported[k][3] \in Nat
           /\ reported'[Len(reported) + 1] = <<here, d, size>>
<1> DEFINE R == Seq(Name) \X BOOLEAN \X Nat
           e == <<here, d, size>>
<1>1. reported \in Seq(R) /\ reported' = Append(reported, e) /\ e \in R
    BY DEF Report, WalkInv, CountInv
<1>2. \A k \in 1..Len(reported) : reported[k] \in R
    BY <1>1, ElementOfSeq
<1>3. \A k \in 1..Len(reported) : reported[k][3] \in Nat
    BY <1>2
<1> HIDE DEF R, e
<1>4. /\ reported' \in Seq(R) /\ Len(reported') = Len(reported) + 1
      /\ \A k \in 1..Len(reported) : reported'[k] = reported[k]
      /\ reported'[Len(reported) + 1] = e
    BY <1>1, AppendProperties
<1>5. Len(reported) \in Nat /\ DOMAIN reported = 1..Len(reported) /\ DOMAIN reported' = 1..Len(reported')
    BY <1>1, <1>4, LenProperties
<1> QED
    BY <1>3, <1>4, <1>5 DEF e

LEMMA TotalsOne ==
    ASSUME WalkInv, NEW d \in BOOLEAN, NEW size \in Nat, Report(d, size)
    PROVE  /\ Cardinality(FileReports) \in Nat
           /\ Cardinality(FileReports') = Cardinality(FileReports) + (IF d THEN 0 ELSE 1)
           /\ TotalOf(Sizes) \in Nat /\ TotalOf(Sizes') = TotalOf(Sizes) + size
<1> DEFINE n == Len(reported)
<1>1. /\ n \in Nat /\ Len(reported') = n + 1
      /\ DOMAIN reported = 1..n /\ DOMAIN reported' = 1..(n + 1)
      /\ \A k \in 1..n : reported'[k] = reported[k] /\ reported[k][3] \in Nat
      /\ reported'[n + 1] = <<here, d, size>>
    BY ReportedOne
<1> HIDE DEF n
<1>2. \A k \in 1..(n + 1) : k \in 1..n \/ k = n + 1
    BY <1>1
<1>3. 1..n \subseteq 1..(n + 1) /\ n + 1 \in 1..(n + 1) /\ n + 1 \notin 1..n
    BY <1>1
<1>4. FileReports \subseteq 1..n /\ IsFiniteSet(FileReports)
  <2>1. FileReports \subseteq 1..n
      BY <1>1 DEF FileReports
  <2>2. IsFiniteSet(1..n)
      BY <1>1, FS_Interval
  <2> QED
      BY <2>1, <2>2, FS_Subset
<1>5. Cardinality(FileReports) \in Nat
    BY <1>4, FS_CardinalityType
<1>6. /\ d => FileReports' = FileReports
      /\ ~d => FileReports' = FileReports \cup {n + 1}
  <2>1. (n + 1) \in FileReports' <=> ~d
      BY <1>1, <1>3 DEF FileReports
  <2>2. \A k \in 1..n : k \in FileReports' <=> k \in FileReports
      BY <1>1, <1>3 DEF FileReports
  <2>3. FileReports' \subseteq 1..(n + 1)
      BY <1>1 DEF FileReports
  <2>4. CASE d
      BY <1>2, <1>4, <2>1, <2>2, <2>3, <2>4
  <2>5. CASE ~d
    <3>1. \A k : k \in FileReports' <=> k \in FileReports \/ k = n + 1
        BY <1>2, <1>3, <1>4, <2>1, <2>2, <2>3, <2>5
    <3> QED
        BY <2>5, <3>1
  <2> QED
      BY <2>4, <2>5
<1>7. Cardinality(FileReports') = Cardinality(FileReports) + (IF d THEN 0 ELSE 1)
  <2>1. n + 1 \notin FileReports
      BY <1>3, <1>4
  <2>2. Cardinality(FileReports \cup {n + 1}) = Cardinality(FileReports) + 1
      BY <1>4, <2>1, FS_AddElement
  <2>3. CASE d
      BY <1>5, <1>6, <2>3
  <2>4. CASE ~d
      BY <1>6, <2>2, <2>4
  <2> QED
      BY <2>3, <2>4
<1>8. /\ Sizes \in Seq(Nat) /\ Sizes' \in Seq(Nat) /\ Len(Sizes) = n /\ Len(Sizes') = n + 1
      /\ \A k \in 1..n : Sizes'[k] = Sizes[k]
      /\ Sizes'[n + 1] = size
  <2>1. Sizes \in [1..n -> Nat]
      BY <1>1 DEF Sizes
  <2>2. Sizes' \in [1..(n + 1) -> Nat]
      BY <1>1, <1>2 DEF Sizes
  <2>3. Sizes \in Seq(Nat) /\ Sizes' \in Seq(Nat)
      BY <1>1, <2>1, <2>2, SeqDef
  <2>4. Len(Sizes) = n /\ Len(Sizes') = n + 1
      BY <1>1, <2>1, <2>2, <2>3, LenProperties
  <2>5. (\A k \in 1..n : Sizes'[k] = Sizes[k]) /\ Sizes'[n + 1] = size
      BY <1>1, <1>3 DEF Sizes
  <2> QED
      BY <2>3, <2>4, <2>5
<1>9. TotalOf(Sizes) \in Nat /\ TotalOf(Sizes') = TotalOf(Sizes) + size
  <2>1. \A s, t \in Seq(Nat) : Len(t) = Len(s) + 1 /\ (\A k \in 1..Len(s) : t[k] = s[k]) =>
            TotalOf(s) \in Nat /\ TotalOf(t) = TotalOf(s) + t[Len(t)]
      BY TotalGrows
  <2> QED
      BY <1>8, <2>1
<1> QED
    BY <1>5, <1>7, <1>9

(* What is told of the path at hand.                                       *)
LEMMA ToldOne ==
    ASSUME WalkInv, ToldInv, NEW d \in BOOLEAN, NEW size \in Nat, Report(d, size),
           UNCHANGED <<host, edit, walk, steady>>,
           Clean' => Clean /\ \A q \in steady : IF q = here THEN Ahead(q) /\ ~Ahead(q)'
                                               ELSE (Ahead(q)' <=> Ahead(q)),
           d <=> Lookup(here) \in Directory, Du /\ ~d => size = SizeOf(Lookup(here))
    PROVE  ToldInv'
<1>1. PICK n \in Nat : /\ DOMAIN reported = 1..n /\ DOMAIN reported' = 1..(n + 1)
                       /\ \A k \in 1..n : reported'[k] = reported[k]
                       /\ reported'[n + 1] = <<here, d, size>>
    BY ReportedOne
<1>2. \A k \in 1..(n + 1) : k \in 1..n \/ k = n + 1
    BY <1>1
<1>3. 1..n \subseteq 1..(n + 1) /\ n + 1 \in 1..(n + 1) /\ n + 1 \notin 1..n
    BY <1>1
<1>4. \A q : Reports(q)' = IF q = here THEN Reports(q) \cup {n + 1} ELSE Reports(q)
  <2> TAKE q
  <2>1. n + 1 \in Reports(q)' <=> q = here
      BY <1>1, <1>3 DEF Reports
  <2>2. \A k \in 1..n : k \in Reports(q)' <=> k \in Reports(q)
      BY <1>1, <1>3 DEF Reports
  <2>3. Reports(q)' \subseteq 1..(n + 1) /\ Reports(q) \subseteq 1..n
      BY <1>1 DEF Reports
  <2> QED
      BY <1>2, <1>3, <2>1, <2>2, <2>3
<1> SUFFICES ASSUME Clean', NEW q \in steady
             PROVE  /\ Ahead(q)' => Reports(q)' = {}
                    /\ ~Ahead(q)' => \E k \in DOMAIN reported' : Reports(q)' = {k} /\ Right(q, k)'
    BY DEF ToldInv
<1>5. CASE q = here
  <2>1. Ahead(q) /\ ~Ahead(q)' /\ Clean
      BY <1>5
  <2>2. Reports(q) = {}
      BY <2>1 DEF ToldInv
  <2>3. Reports(q)' = {n + 1}
      BY <1>4, <1>5, <2>2
  <2>4. Right(q, n + 1)'
    <3>1. Lookup(q)' = Lookup(q) /\ Du' = Du /\ content' = content
        BY LookupNow, LookupThen DEF host, Du
    <3>2. SizeOf(Lookup(q))' = SizeOf(Lookup(q))
        BY <3>1 DEF SizeOf
    <3>3. reported'[n + 1][2] = d /\ reported'[n + 1][3] = size
        BY <1>1
    <3>4. (reported'[n + 1][2] <=> Lookup(q)' \in Directory) /\ Lookup(q) = Lookup(here)
        BY <1>5, <3>1, <3>3, Zenon
    <3>5. Du' /\ ~reported'[n + 1][2] => reported'[n + 1][3] = SizeOf(Lookup(q))'
      <4>1. SizeOf(Lookup(q)) = SizeOf(Lookup(here))
          BY <3>4
      <4> QED
          BY <3>1, <3>2, <3>3, <4>1, Zenon
    <3> QED
        BY <3>4, <3>5 DEF Right
  <2>5. n + 1 \in DOMAIN reported'
      BY <1>1, <1>3
  <2> QED
      BY <2>1, <2>3, <2>4, <2>5, Zenon
<1>6. CASE q # here
  <2>1. Clean /\ (Ahead(q)' <=> Ahead(q)) /\ Reports(q)' = Reports(q)
      BY <1>4, <1>6
  <2>2. ASSUME NEW k \in DOMAIN reported, Right(q, k)
        PROVE  Right(q, k)'
      BY <1>1, <2>2, RightSame
  <2> QED
      BY <1>1, <1>3, <2>1, <2>2 DEF ToldInv
<1> QED
    BY <1>5, <1>6

(* What a report tells, and what a failure *)

LEMMA AddedFits ==
    ASSUME NEW a \in 0..MaxTotal, NEW v \in Nat, Fits(a, v)
    PROVE  Added(a, v) = a + v
<1>1. MaxTotal \in Nat /\ MaxTotal - a >= v
    BY HostWalkAssumption DEF Fits
<1>2. a + v \in 0..MaxTotal
    BY <1>1
<1>3. \A d \in Nat : \A x \in Nat : (x <= d => x % (d + 1) = x)
    OBVIOUS
<1> QED
    BY <1>1, <1>2, <1>3 DEF Added

(* A call at the path at hand that fails.                                  *)
LEMMA FailTells ==
    ASSUME TellInv, WalkInv, WalkInv', Return(1), step \in Going, UNCHANGED <<at, walk, here, steady>>
    PROVE  TellInv'
<1>1. /\ SteadyInv' /\ LineInv' /\ FreshInv' /\ StreamInv' /\ DrainedInv'
      /\ ~Clean'
    BY ReturnTells
<1> QED
    BY <1>1 DEF TellInv, ToldInv, TotalInv

(* Nothing that is left is the path at hand, and below it is nothing if it *)
(* is no directory.                                                        *)
LEMMA HereOnly ==
    ASSUME WalkInv, TellInv, step \in Going
    PROVE  /\ here \in steady => ~AheadIn(here)
           /\ \A q \in steady : Below(here, q) =>
                  here \in steady /\ (q # here => Lookup(here) \in Directory)
<1>1. /\ here \in Seq(Name) /\ Len(walk.path) \in Nat /\ Len(frames) \in Nat
      /\ \A k \in 1..Len(frames) : frames[k] \in Frame
    BY FrameTypes
<1>2. ASSUME here \in steady, AheadIn(here) PROVE FALSE
  <2>1. PICK k \in 1..Len(frames) : \E n \in Todo(Du, frames[k]) : Below(Child(frames[k], n), here)
      BY <1>2 DEF AheadIn, AheadOf
  <2>2. PICK n \in Todo(Du, frames[k]) : Below(Child(frames[k], n), here)
      BY <2>1
  <2>3. n \in Name /\ frames[k] \in Frame
      BY <1>1, TodoNames
  <2>4. Child(frames[k], n) \in Seq(Name) /\ Len(Child(frames[k], n)) = Len(frames[k].path) + 1
      BY <2>3, ChildType
  <2>5. Len(walk.path) <= Len(Child(frames[k], n))
    <3>1. Len(frames[k].path) = Len(walk.path) + k - 1
        BY DEF TellInv, LineInv
    <3> QED BY <1>1, <2>4, <3>1
  <2>6. Child(frames[k], n) \in steady
      BY <1>2, <2>2, <2>4, <2>5, SteadyAbove DEF TellInv
  <2> QED
      BY <2>2, <2>6 DEF TellInv, FreshInv
<1>3. Len(walk.path) <= Len(here)
  <2>1. Len(here) = Len(walk.path) + Len(frames)
      BY DEF TellInv, LineInv
  <2> QED BY <1>1, <2>1
<1>4. \A q \in steady : Below(here, q) => here \in steady /\ (q # here => Lookup(here) \in Directory)
    BY <1>1, <1>3, SteadyAbove DEF TellInv
<1> QED
    BY <1>2, <1>4

(* A report of anything but a directory, and of a directory.               *)
LEMMA LeafAhead ==
    ASSUME WalkInv, TellInv, step = "lstat", Lookup(here) \notin Directory,
           NEW q \in steady, Ahead(q)' <=> AheadIn(q)
    PROVE  IF q = here THEN Ahead(q) /\ ~Ahead(q)' ELSE (Ahead(q)' <=> Ahead(q))
<1>1. Below(here, here)
    BY FrameTypes, BelowSelf
<1>2. q = here => ~AheadIn(q)
    BY HereOnly DEF Going
<1>3. q # here => ~Below(here, q)
    BY HereOnly DEF Going
<1>4. Ahead(q) <=> AheadIn(q) \/ Below(here, q)
    BY DEF Ahead
<1> QED
    BY <1>1, <1>2, <1>3, <1>4

LEMMA DirectoryAhead ==
    ASSUME WalkInv, TellInv, step = "lstat", step' = "opendir", UNCHANGED <<frames, here, walk>>,
           NEW q \in steady
    PROVE  IF q = here THEN Ahead(q) /\ ~Ahead(q)' ELSE (Ahead(q)' <=> Ahead(q))
<1>1. Below(here, here)
    BY FrameTypes, BelowSelf
<1>2. q = here => ~AheadIn(q)
    BY HereOnly DEF Going
<1>3. Ahead(q) <=> AheadIn(q) \/ Below(here, q)
    BY DEF Ahead
<1>4. Ahead(q)' <=> AheadIn(q) \/ (Below(here, q) /\ q # here)
  <2>1. AheadIn(q)' <=> AheadIn(q)
      BY DEF AheadIn, Du
  <2> QED
      BY <2>1 DEF Ahead
<1> QED
    BY <1>1, <1>2, <1>3, <1>4

LEMMA EnterTells ==
    ASSUME TellInv, WalkInv, WalkInv', UNCHANGED <<at, walk, here, steady, frames, result>>,
           step = "lstat", step' \in {"opendir", "readlink"}, step' = "readlink" => ~Du
    PROVE  /\ SteadyInv' /\ LineInv' /\ FreshInv' /\ StreamInv' /\ DrainedInv'
           /\ Clean' <=> Clean
<1>1. Clean' <=> Clean
    BY DEF Clean
<1>2. Shrunk
  <2>1. Len(frames) \in Nat
      BY FrameTypes
  <2> QED
      BY <2>1 DEF Shrunk, Like
<1>3. ASSUME Clean', NEW k \in 1..Len(frames'), Drained(k)'
      PROVE  frames[k].sure \subseteq frames[k].returned
  <2>1. ~Du /\ k \in 1..Len(frames)
      BY <1>3 DEF Drained, Du
  <2>2. Drained(k)
      BY <2>1 DEF Drained, Going
  <2> QED
      BY <1>1, <1>3, <2>1, <2>2 DEF TellInv, DrainedInv
<1>4. step' # "start" /\ step' # "done" /\ step \in Going
    BY DEF Going
<1>5. SteadyInv' /\ LineInv' /\ FreshInv' /\ StreamInv' /\ DrainedInv'
    BY <1>1, <1>2, <1>3, <1>4, ShrunkStep
<1> QED
    BY <1>1, <1>5

-----------------------------------------------------------------------------
(* The steps of the walk, and what they tell *)

LEMMA LstatFailsTells ==
    ASSUME TellInv, WalkInv, WalkInv', LstatFails PROVE TellInv'
BY FailTells DEF LstatFails, Going, host

LEMMA OpenDirFailsTells ==
    ASSUME TellInv, WalkInv, WalkInv', OpenDirFails PROVE TellInv'
BY FailTells DEF OpenDirFails, Going, host

LEMMA ReadLinkTells ==
    ASSUME TellInv, WalkInv, WalkInv', ReadLink, UNCHANGED edit PROVE TellInv'
<1>1. /\ step = "readlink" /\ step \in Going /\ (Return(0) \/ Return(1))
      /\ UNCHANGED <<host, at, walk, here, streams, usage, reported, steady>>
    BY DEF ReadLink, Going, host
<1>2. CASE Return(1)
    BY <1>1, <1>2, FailTells
<1>3. CASE Return(0)
  <2>1. /\ SteadyInv' /\ LineInv' /\ FreshInv' /\ StreamInv' /\ DrainedInv'
        /\ Clean' => Clean
        /\ \A q : Ahead(q)' <=> AheadIn(q)
      BY <1>1, <1>3, ReturnTells
  <2>2. \A q : Ahead(q) <=> AheadIn(q)
      BY <1>1 DEF Ahead
  <2>3. ToldInv'
      BY <1>1, <2>1, <2>2, ToldNothing DEF TellInv
  <2>4. TotalInv'
      BY <1>1, <2>1, TotalSame DEF TellInv
  <2> QED
      BY <2>1, <2>3, <2>4 DEF TellInv
<1> QED
    BY <1>1, <1>2, <1>3

LEMMA CountFileTells ==
    ASSUME HostTypeOK, TellInv, WalkInv, WalkInv', CountFile, UNCHANGED edit PROVE TellInv'
<1> DEFINE size == SizeOf(Lookup(here))
<1>1. /\ step = "lstat" /\ step \in Going /\ Du /\ size \in Nat /\ Lookup(here) \notin Directory
      /\ UNCHANGED <<host, at, walk, here, streams, steady>>
      /\ \/ Return(1)
         \/ /\ Fits(usage.files, 1) /\ Fits(usage.size, size)
            /\ usage' = [[usage EXCEPT !.files = Added(@, 1)] EXCEPT !.size = Added(@, size)]
            /\ Report(FALSE, size) /\ Return(0)
    BY SizeType, Kinds DEF CountFile, Going, host
<1>2. CASE Return(1)
    BY <1>1, <1>2, FailTells
<1>3. CASE /\ Fits(usage.files, 1) /\ Fits(usage.size, size)
           /\ usage' = [[usage EXCEPT !.files = Added(@, 1)] EXCEPT !.size = Added(@, size)]
           /\ Report(FALSE, size) /\ Return(0)
  <2> HIDE DEF size
  <2>1. /\ SteadyInv' /\ LineInv' /\ FreshInv' /\ StreamInv' /\ DrainedInv'
        /\ Clean' => Clean
        /\ \A q : Ahead(q)' <=> AheadIn(q)
      BY <1>1, <1>3, ReturnTells
  <2>2. \A q \in steady : IF q = here THEN Ahead(q) /\ ~Ahead(q)' ELSE (Ahead(q)' <=> Ahead(q))
      BY <1>1, <2>1, LeafAhead
  <2>3. ToldInv'
      BY <1>1, <1>3, <2>1, <2>2, ToldOne DEF TellInv, size
  <2>4. /\ usage.files \in 0..MaxTotal /\ usage.size \in 0..MaxTotal /\ 1 \in Nat
        /\ usage.directories \in 0..MaxTotal
        /\ usage \in [size : 0..MaxTotal, files : 0..MaxTotal, directories : 0..MaxTotal]
      BY DEF WalkInv, CountInv
  <2>5. /\ usage'.files = Added(usage.files, 1) /\ usage'.size = Added(usage.size, size)
        /\ usage'.directories = usage.directories
      BY <1>3, <2>4
  <2>6. Added(usage.files, 1) = usage.files + 1 /\ Added(usage.size, size) = usage.size + size
      BY <1>1, <1>3, <2>4, AddedFits
  <2>7. /\ Cardinality(FileReports) \in Nat
        /\ Cardinality(FileReports') = Cardinality(FileReports) + 1
        /\ TotalOf(Sizes) \in Nat /\ TotalOf(Sizes') = TotalOf(Sizes) + size
      BY <1>1, <1>3, TotalsOne
  <2>8. Len(reported) \in Nat /\ Len(reported') = Len(reported) + 1
      BY <1>1, <1>3, ReportedOne
  <2>9. TotalInv'
    <3> SUFFICES ASSUME Clean'
                 PROVE  /\ usage'.files = Cardinality(FileReports')
                        /\ usage'.directories = Len(reported') - Cardinality(FileReports')
                        /\ usage'.size = TotalOf(Sizes')
        BY DEF TotalInv
    <3>1. /\ usage.files = Cardinality(FileReports)
          /\ usage.directories = Len(reported) - Cardinality(FileReports)
          /\ usage.size = TotalOf(Sizes)
        BY <1>1, <2>1 DEF TellInv, TotalInv
    <3> QED
        BY <2>5, <2>6, <2>7, <2>8, <3>1
  <2> QED
      BY <2>1, <2>3, <2>9 DEF TellInv
<1> QED
    BY <1>1, <1>2, <1>3

LEMMA CountDirectoryTells ==
    ASSUME TellInv, WalkInv, WalkInv', CountDirectory, UNCHANGED edit PROVE TellInv'
<1>1. /\ step = "lstat" /\ step \in Going /\ Du /\ Lookup(here) \in Directory
      /\ UNCHANGED <<host, at, walk, here, streams, steady>>
      /\ \/ Return(1)
         \/ /\ Fits(usage.directories, 1)
            /\ usage' = [usage EXCEPT !.directories = Added(@, 1)]
            /\ Report(TRUE, 0) /\ step' = "opendir" /\ UNCHANGED <<frames, result>>
    BY DEF CountDirectory, Going, host
<1>2. CASE Return(1)
    BY <1>1, <1>2, FailTells
<1>3. CASE /\ Fits(usage.directories, 1)
           /\ usage' = [usage EXCEPT !.directories = Added(@, 1)]
           /\ Report(TRUE, 0) /\ step' = "opendir" /\ UNCHANGED <<frames, result>>
  <2>1. /\ SteadyInv' /\ LineInv' /\ FreshInv' /\ StreamInv' /\ DrainedInv'
        /\ Clean' => Clean
      BY <1>1, <1>3, EnterTells
  <2>2. \A q \in steady : IF q = here THEN Ahead(q) /\ ~Ahead(q)' ELSE (Ahead(q)' <=> Ahead(q))
      BY <1>1, <1>3, DirectoryAhead
  <2>3. ToldInv'
      BY <1>1, <1>3, <2>1, <2>2, ToldOne DEF TellInv
  <2>4. /\ usage.directories \in 0..MaxTotal /\ 1 \in Nat
        /\ usage \in [size : 0..MaxTotal, files : 0..MaxTotal, directories : 0..MaxTotal]
      BY DEF WalkInv, CountInv
  <2>5. /\ usage'.directories = Added(usage.directories, 1)
        /\ usage'.files = usage.files /\ usage'.size = usage.size
      BY <1>3, <2>4
  <2>6. Added(usage.directories, 1) = usage.directories + 1
      BY <1>3, <2>4, AddedFits
  <2>7. /\ Cardinality(FileReports) \in Nat
        /\ Cardinality(FileReports') = Cardinality(FileReports)
        /\ TotalOf(Sizes) \in Nat /\ TotalOf(Sizes') = TotalOf(Sizes)
    <3>1. TRUE \in BOOLEAN /\ 0 \in Nat /\ Report(TRUE, 0)
        BY <1>3
    <3>2. /\ Cardinality(FileReports) \in Nat
          /\ Cardinality(FileReports') = Cardinality(FileReports) + (IF TRUE THEN 0 ELSE 1)
          /\ TotalOf(Sizes) \in Nat /\ TotalOf(Sizes') = TotalOf(Sizes) + 0
        BY <3>1, TotalsOne
    <3> QED
        BY <3>2
  <2>8. Len(reported) \in Nat /\ Len(reported') = Len(reported) + 1
      BY <1>3, ReportedOne
  <2>9. TotalInv'
    <3> SUFFICES ASSUME Clean'
                 PROVE  /\ usage'.files = Cardinality(FileReports')
                        /\ usage'.directories = Len(reported') - Cardinality(FileReports')
                        /\ usage'.size = TotalOf(Sizes')
        BY DEF TotalInv
    <3>1. /\ usage.files = Cardinality(FileReports)
          /\ usage.directories = Len(reported) - Cardinality(FileReports)
          /\ usage.size = TotalOf(Sizes)
        BY <1>1, <2>1 DEF TellInv, TotalInv
    <3> QED
        BY <2>5, <2>6, <2>7, <2>8, <3>1
  <2> QED
      BY <2>1, <2>3, <2>9 DEF TellInv
<1> QED
    BY <1>1, <1>2, <1>3

LEMMA PrintEntryTells ==
    ASSUME TellInv, WalkInv, WalkInv', PrintEntry, UNCHANGED edit PROVE TellInv'
<1> DEFINE d == Lookup(here) \in Directory
<1>1. /\ step = "lstat" /\ step \in Going /\ ~Du /\ d \in BOOLEAN
      /\ UNCHANGED <<host, at, walk, here, streams, usage, steady>>
      /\ Report(d, 0)
      /\ \/ d /\ step' = "opendir" /\ UNCHANGED <<frames, result>>
         \/ ~d /\ step' = "readlink" /\ UNCHANGED <<frames, result>>
         \/ ~d /\ Return(0)
    BY Kinds DEF PrintEntry, Going, host
<1>2. /\ SteadyInv' /\ LineInv' /\ FreshInv' /\ StreamInv' /\ DrainedInv'
      /\ Clean' => Clean
      /\ \A q \in steady : IF q = here THEN Ahead(q) /\ ~Ahead(q)' ELSE (Ahead(q)' <=> Ahead(q))
  <2>1. CASE step' = "opendir" /\ UNCHANGED <<frames, result>>
    <3>1. /\ SteadyInv' /\ LineInv' /\ FreshInv' /\ StreamInv' /\ DrainedInv'
          /\ Clean' => Clean
        BY <1>1, <2>1, EnterTells
    <3>2. \A q \in steady : IF q = here THEN Ahead(q) /\ ~Ahead(q)' ELSE (Ahead(q)' <=> Ahead(q))
        BY <1>1, <2>1, DirectoryAhead
    <3> QED BY <3>1, <3>2
  <2>2. CASE ~d /\ step' = "readlink" /\ UNCHANGED <<frames, result>>
    <3>1. /\ SteadyInv' /\ LineInv' /\ FreshInv' /\ StreamInv' /\ DrainedInv'
          /\ Clean' => Clean
        BY <1>1, <2>2, EnterTells
    <3>2. \A q : Ahead(q)' <=> AheadIn(q)
        BY <1>1, <2>2 DEF Ahead, AheadIn, Du
    <3>3. \A q \in steady : IF q = here THEN Ahead(q) /\ ~Ahead(q)' ELSE (Ahead(q)' <=> Ahead(q))
        BY <1>1, <2>2, <3>2, LeafAhead
    <3> QED BY <3>1, <3>3
  <2>3. CASE ~d /\ Return(0)
    <3>1. /\ SteadyInv' /\ LineInv' /\ FreshInv' /\ StreamInv' /\ DrainedInv'
          /\ Clean' => Clean
          /\ \A q : Ahead(q)' <=> AheadIn(q)
        BY <1>1, <2>3, ReturnTells
    <3>2. \A q \in steady : IF q = here THEN Ahead(q) /\ ~Ahead(q)' ELSE (Ahead(q)' <=> Ahead(q))
        BY <1>1, <2>3, <3>1, LeafAhead
    <3> QED BY <3>1, <3>2
  <2> QED
      BY <1>1, <2>1, <2>2, <2>3
<1>3. ToldInv'
  <2>1. d <=> Lookup(here) \in Directory
      OBVIOUS
  <2> HIDE DEF d
  <2> QED
      BY <1>1, <1>2, <2>1, ToldOne DEF TellInv
<1>4. TotalInv'
    BY <1>1 DEF TotalInv, Du
<1> QED
    BY <1>2, <1>3, <1>4 DEF TellInv

LEMMA BeginTells ==
    ASSUME TellInv, WalkInv, Begin PROVE TellInv'
<1>1. /\ frames = << >> /\ frames' = << >> /\ reported' = << >> /\ here = walk.path /\ here' = walk.path
      /\ step = "start" /\ step' = "lstat" /\ steady' = PathsFrom(walk.path)
      /\ UNCHANGED <<host, at, walk, usage, reported, result>>
    BY DEF Begin, TellInv, LineInv, host
<1>2. Len(frames) = 0 /\ Len(frames') = 0 /\ 1..0 = {} /\ walk.path \in Seq(Name) /\ Len(walk.path) \in Nat
    BY <1>1, FrameTypes
<1>3. Rooted(walk.path, PathsFrom(walk.path)) /\ \A q \in PathsFrom(walk.path) : Lookup(q) # None
    BY <1>2, PathsRooted
<1>4. \A q : Lookup(q)' = Lookup(q)
    BY <1>1, LookupNow, LookupThen
<1>5. SteadyInv'
    BY <1>1, <1>3, <1>4 DEF SteadyInv, Rooted
<1>6. LineInv'
    BY <1>1, <1>2 DEF LineInv
<1>7. FreshInv' /\ StreamInv' /\ DrainedInv'
    BY <1>1, <1>2 DEF FreshInv, StreamInv, DrainedInv
<1>8. ToldInv'
  <2>1. \A q \in steady' : Below(walk.path, q)
      BY <1>1, <1>3 DEF Rooted
  <2>2. \A q \in steady' : Ahead(q)'
      BY <1>1, <2>1 DEF Ahead
  <2>3. \A q : Reports(q)' = {}
      BY <1>1 DEF Reports
  <2> QED
      BY <2>2, <2>3 DEF ToldInv
<1>9. TotalInv'
  <2>1. Clean
      BY <1>1, <1>2 DEF Clean
  <2> QED
      BY <1>1, <2>1, TotalSame DEF TellInv
<1> QED
    BY <1>5, <1>6, <1>7, <1>8, <1>9 DEF TellInv

LEMMA ReaddirEndsTells ==
    ASSUME TellInv, WalkInv, WalkInv', ReaddirEnds, UNCHANGED edit PROVE TellInv'
<1>1. /\ step = "readdir" /\ step' = "closedir" /\ Inner.sure \subseteq Inner.returned
      /\ UNCHANGED <<host, at, walk, here, frames, usage, result, reported, steady>>
    BY DEF ReaddirEnds, host
<1>2. Clean' <=> Clean
    BY <1>1 DEF Clean
<1>3. Shrunk
  <2>1. Len(frames) \in Nat
      BY FrameTypes
  <2> QED
      BY <1>1, <2>1 DEF Shrunk, Like
<1>4. ASSUME Clean', NEW k \in 1..Len(frames'), Drained(k)'
      PROVE  frames[k].sure \subseteq frames[k].returned
  <2>1. CASE k = Len(frames)
      BY <1>1, <2>1 DEF Inner
  <2>2. CASE k # Len(frames)
    <3>1. k < Len(frames) /\ k \in 1..Len(frames) /\ ~Du
        BY <1>1, <1>4, <2>2 DEF Drained, Du
    <3>2. Drained(k)
        BY <3>1 DEF Drained
    <3> QED
        BY <1>2, <1>4, <3>1, <3>2 DEF TellInv, DrainedInv
  <2> QED
      BY <2>1, <2>2
<1>5. SteadyInv' /\ LineInv' /\ FreshInv' /\ StreamInv' /\ DrainedInv'
  <2>1. step' # "start" /\ step' # "done" /\ step' # "readlink" /\ step' \notin Going
      BY <1>1 DEF Going
  <2> QED
      BY <1>1, <1>2, <1>3, <1>4, <2>1, ShrunkStep
<1>6. \A q : Ahead(q)' <=> Ahead(q)
    BY <1>1 DEF Ahead, AheadIn, Du
<1>7. ToldInv'
    BY <1>1, <1>2, <1>6, ToldNothing DEF TellInv
<1>8. TotalInv'
    BY <1>1, <1>2, TotalSame DEF TellInv
<1> QED
    BY <1>5, <1>7, <1>8 DEF TellInv

LEMMA ReaddirFailsTells ==
    ASSUME TellInv, WalkInv, WalkInv', ReaddirFails, UNCHANGED edit PROVE TellInv'
<1> DEFINE f == [Inner EXCEPT !.status = 1]
<1>1. /\ step = "readdir" /\ step' = "closedir" /\ frames' = [frames EXCEPT ![Len(frames)] = f]
      /\ UNCHANGED <<host, at, walk, here, usage, result, reported, steady>>
    BY DEF ReaddirFails, Inner, host
<1>2. /\ frames \in Seq(Frame) /\ frames # << >> /\ Inner \in Frame /\ f \in Frame
      /\ Len(frames) \in Nat \ {0} /\ Len(frames) \in 1..Len(frames)
    BY <1>1, FrameTypes, InnerOuter, NotedFrame DEF WalkInv, FramesInv
<1>3. Like(f, Inner) /\ f.status = 1
    BY <1>2 DEF Like, Frame
<1> HIDE DEF f
<1>4. Len(frames') = Len(frames) /\ \A k \in 1..Len(frames) : frames'[k] = IF k = Len(frames) THEN f ELSE frames[k]
    BY <1>1, <1>2, ExceptSeq
<1>5. ~Clean'
    BY <1>2, <1>3, <1>4 DEF Clean
<1>6. Shrunk
    BY <1>2, <1>3, <1>4 DEF Shrunk, Like, Inner
<1>7. SteadyInv' /\ LineInv' /\ FreshInv' /\ StreamInv' /\ DrainedInv'
  <2>1. step' # "start" /\ step' # "done" /\ step' # "readlink" /\ step' \notin Going
      BY <1>1 DEF Going
  <2> QED
      BY <1>1, <1>5, <1>6, <2>1, ShrunkStep
<1> QED
    BY <1>5, <1>7 DEF TellInv, ToldInv, TotalInv

LEMMA CloseDirTells ==
    ASSUME TellInv, WalkInv, WalkInv', CloseDir, UNCHANGED edit PROVE TellInv'
<1>1. /\ step = "closedir" /\ UNCHANGED <<host, at, walk, here, usage, reported, steady>>
      /\ \E s \in {Inner.status, 1} :
            IF Du \/ s = 1 THEN ReturnTo(Outer, s)
            ELSE step' = "entries" /\ UNCHANGED <<frames, result>>
    BY DEF CloseDir, host
<1>2. frames # << >> /\ Inner.status \in {0, 1} /\ Len(frames) \in Nat
  <2>1. frames # << >> /\ frames \in Seq(Frame)
      BY <1>1 DEF WalkInv, FramesInv
  <2> QED
      BY <2>1, FrameTypes, InnerOuter DEF Frame
<1>3. PICK s \in {0, 1} :
         /\ s = 0 => Inner.status = 0
         /\ IF Du \/ s = 1 THEN ReturnTo(Outer, s)
            ELSE step' = "entries" /\ UNCHANGED <<frames, result>>
    BY <1>1, <1>2
<1>4. CASE ReturnTo(Outer, s) /\ (Du \/ s = 1)
  <2>1. s = 0 => /\ Inner.status = 0 /\ (Du \/ Inner.entries = << >>)
                 /\ Drained(Len(frames)) /\ step \notin Going
      BY <1>1, <1>3, <1>4 DEF Drained, Going
  <2> QED
      BY <1>1, <1>2, <1>4, <2>1, OuterTells
<1>5. CASE ~Du /\ step' = "entries" /\ UNCHANGED <<frames, result>>
  <2>1. Clean' <=> Clean
      BY <1>1, <1>5 DEF Clean
  <2>2. Shrunk
      BY <1>2, <1>5 DEF Shrunk, Like
  <2>3. ASSUME Clean', NEW k \in 1..Len(frames'), Drained(k)'
        PROVE  frames[k].sure \subseteq frames[k].returned
    <3>1. Drained(k) /\ k \in 1..Len(frames)
        BY <1>1, <1>5 DEF Drained
    <3> QED
        BY <2>1, <2>3, <3>1 DEF TellInv, DrainedInv
  <2>4. SteadyInv' /\ LineInv' /\ FreshInv' /\ StreamInv' /\ DrainedInv'
    <3>1. step' # "start" /\ step' # "done" /\ step' # "readlink" /\ step' \notin Going
        BY <1>5 DEF Going
    <3> QED
        BY <1>1, <2>1, <2>2, <2>3, <3>1, ShrunkStep
  <2>5. \A q : Ahead(q)' <=> Ahead(q)
      BY <1>1, <1>5 DEF Ahead, AheadIn, Du
  <2>6. ToldInv'
      BY <1>1, <2>1, <2>5, ToldNothing DEF TellInv
  <2>7. TotalInv'
      BY <1>1, <2>1, TotalSame DEF TellInv
  <2> QED
      BY <2>4, <2>6, <2>7 DEF TellInv
<1> QED
    BY <1>3, <1>4, <1>5

LEMMA EntriesEndTells ==
    ASSUME TellInv, WalkInv, WalkInv', EntriesEnd, UNCHANGED edit PROVE TellInv'
<1>1. /\ step = "entries" /\ Inner.entries = << >> /\ ReturnTo(Outer, Inner.status)
      /\ UNCHANGED <<host, walk, here, usage, reported, steady>>
    BY DEF EntriesEnd
<1>2. frames # << >> /\ ~Du /\ Inner.status \in {0, 1}
  <2>1. frames # << >> /\ ~Du /\ frames \in Seq(Frame)
      BY <1>1 DEF WalkInv, FramesInv
  <2> QED
      BY <2>1, InnerOuter DEF Frame
<1>3. PICK s \in {0, 1} : s = Inner.status
    BY <1>2
<1>4. Drained(Len(frames)) /\ step \notin Going
    BY <1>1, <1>2 DEF Drained, Going
<1> QED
    BY <1>1, <1>2, <1>3, <1>4, OuterTells

LEMMA EntriesBreakTells ==
    ASSUME TellInv, WalkInv, WalkInv', EntriesBreak, UNCHANGED edit PROVE TellInv'
<1>1. /\ frames # << >> /\ step # "done" /\ ReturnTo(Outer, 1)
      /\ UNCHANGED <<host, walk, here, usage, reported, steady>>
    BY DEF EntriesBreak
<1> QED
    BY <1>1, OuterTells

(* The innermost call with other data: both forms in which it is put.      *)
LEMMA InnerPut ==
    ASSUME frames \in Seq(Frame), frames # << >>, NEW g \in Frame,
           frames' = Append(Outer, g) \/ frames' = [frames EXCEPT ![Len(frames)] = g]
    PROVE  /\ Len(frames') = Len(frames)
           /\ \A k \in 1..Len(frames) : frames'[k] = IF k = Len(frames) THEN g ELSE frames[k]
<1>1. /\ Len(frames) \in Nat \ {0} /\ Len(frames) \in 1..Len(frames)
      /\ Outer \in Seq(Frame) /\ Len(Outer) = Len(frames) - 1
      /\ \A k \in 1..Len(Outer) : Outer[k] = frames[k]
    BY InnerOuter, OuterElements
<1>2. CASE frames' = [frames EXCEPT ![Len(frames)] = g]
    BY <1>1, <1>2, ExceptSeq
<1>3. CASE frames' = Append(Outer, g)
  <2> DEFINE m == Len(Outer)
  <2>1. /\ Len(frames') = m + 1 /\ frames'[m + 1] = g
        /\ \A k \in 1..m : frames'[k] = Outer[k]
      BY <1>1, <1>3, AppendProperties
  <2>2. m \in Nat /\ m + 1 = Len(frames) /\ \A k \in 1..Len(frames) : k \in 1..m \/ k = Len(frames)
      BY <1>1
  <2> HIDE DEF m
  <2>3. \A k \in 1..m : k # Len(frames)
      BY <2>2
  <2> QED
      BY <1>1, <2>1, <2>2, <2>3 DEF m
<1> QED
    BY <1>2, <1>3

(* The innermost call takes a name that is left, and goes down to it.      *)
LEMMA Descend ==
    ASSUME TellInv, WalkInv, WalkInv', step \in {"readdir", "entries"}, step' = "lstat", frames # << >>,
           NEW n \in Todo(Du, Inner), NEW g \in Frame,
           Len(frames') = Len(frames),
           \A k \in 1..Len(frames) : frames'[k] = IF k = Len(frames) THEN g ELSE frames[k],
           g.path = Inner.path, g.dir = Inner.dir, g.sure = Inner.sure, g.status = Inner.status,
           Todo(Du, g) \subseteq Todo(Du, Inner), Todo(Du, Inner) \subseteq Todo(Du, g) \cup {n},
           Child(Inner, n) \in steady => n \notin Todo(Du, g),
           \A m \in Name : Child(Inner, m) \in steady /\ Once(Inner, m) => Once(g, m),
           Du \/ (step = "entries" /\ g.returned = Inner.returned),
           here' = Child(Inner, n), UNCHANGED <<host, edit, walk, usage, result, reported, steady>>
    PROVE  TellInv'
<1> DEFINE c == Child(Inner, n)
<1>1. /\ Len(frames) \in Nat \ {0} /\ Len(frames) \in 1..Len(frames) /\ frames[Len(frames)] = Inner
      /\ Inner \in Frame /\ \A k \in 1..Len(frames) : frames[k] \in Frame
      /\ Len(walk.path) \in Nat /\ UNCHANGED at
    BY FrameTypes, InnerOuter DEF Inner, host
<1>2. Du' = Du
    BY DEF Du
<1>3. /\ \A m : Child(g, m) = Child(Inner, m)
      /\ \A k \in 1..Len(frames) : /\ frames'[k].path = frames[k].path
                                   /\ \A m : Child(frames'[k], m) = Child(frames[k], m)
                                   /\ Todo(Du, frames'[k]) \subseteq Todo(Du, frames[k])
    BY <1>1 DEF Child
<1>4. n \in Name
    BY <1>1, TodoNames
<1>5. Inner.path \in Seq(Name) /\ Len(Inner.path) \in Nat /\ c \in Seq(Name) /\ Len(c) = Len(Inner.path) + 1
    BY <1>1, <1>4, ChildType
<1>6. Len(Inner.path) = Len(walk.path) + Len(frames) - 1
    BY <1>1 DEF TellInv, LineInv
<1>7. SteadyInv'
    BY <1>1, SteadySame DEF TellInv
<1> HIDE DEF c
<1>8. here' = c
    BY DEF c
<1>9. LineInv'
  <2>1. Len(here') = Len(walk.path) + Len(frames)
      BY <1>1, <1>5, <1>6, <1>8
  <2> QED
      BY <1>2, <1>3, <2>1 DEF TellInv, LineInv
<1>10. FreshInv'
  <2> SUFFICES ASSUME NEW k \in 1..Len(frames), NEW m \in Todo(Du, frames'[k]), Child(frames'[k], m) \in steady
               PROVE  /\ \A l \in 1..Len(frames) : ~Below(Child(frames'[k], m), frames'[l].path)
                      /\ ~Below(Child(frames'[k], m), c)
      BY <1>2, <1>8 DEF FreshInv
  <2>1. m \in Todo(Du, frames[k]) /\ Child(frames'[k], m) = Child(frames[k], m) /\ frames[k] \in Frame
      BY <1>1, <1>3
  <2>2. \A l \in 1..Len(frames) : ~Below(Child(frames[k], m), frames[l].path)
      BY <2>1 DEF TellInv, FreshInv
  <2>3. ASSUME Below(Child(frames[k], m), c) PROVE FALSE
    <3>1. m \in Name
        BY <2>1, TodoNames
    <3>2. Child(frames[k], m) \in Seq(Name) /\ Len(Child(frames[k], m)) = Len(frames[k].path) + 1
        BY <2>1, <3>1, ChildType
    <3>3. Below(Child(frames[k], m), Inner.path) \/ Child(frames[k], m) = c
        BY <1>4, <1>5, <2>3, <3>2, BelowUnder DEF c, Child
    <3>4. Child(frames[k], m) = c
        BY <1>1, <2>2, <3>3
    <3>5. Len(frames[k].path) = Len(walk.path) + k - 1
        BY DEF TellInv, LineInv
    <3>6. k = Len(frames)
        BY <1>1, <1>5, <1>6, <3>2, <3>4, <3>5
    <3>7. m = n
        BY <1>1, <1>4, <1>5, <3>1, <3>4, <3>6, UnderEqual DEF c, Child
    <3>8. n \in Todo(Du, g) /\ Child(Inner, n) \in steady
        BY <1>1, <2>1, <3>6, <3>7
    <3> QED
        BY <3>8
  <2> QED
      BY <1>3, <2>1, <2>2, <2>3
<1>11. StreamInv'
  <2>1. ASSUME NEW k \in 1..Len(frames), Streamed(at, steady, frames[k])
        PROVE  Streamed(at, steady, frames'[k])
    <3>1. CASE k = Len(frames)
        BY <1>1, <1>3, <2>1, <3>1 DEF Streamed
    <3>2. CASE k # Len(frames)
        BY <2>1, <3>2
    <3> QED BY <3>1, <3>2
  <2> QED
      BY <1>1, <2>1 DEF TellInv, StreamInv
<1>12. Clean' <=> Clean
  <2>1. \A k \in 1..Len(frames) : frames'[k].status = frames[k].status
      BY <1>1
  <2> QED
      BY <2>1 DEF Clean
<1>13. DrainedInv'
  <2> SUFFICES ASSUME Clean', NEW k \in 1..Len(frames), Drained(k)'
               PROVE  frames'[k].sure \subseteq frames'[k].returned
      BY DEF DrainedInv
  <2>1. ~Du /\ step = "entries" /\ g.returned = Inner.returned
      BY <1>2 DEF Drained
  <2>2. Drained(k)
      BY <2>1 DEF Drained
  <2>3. frames[k].sure \subseteq frames[k].returned
      BY <1>12, <2>2 DEF TellInv, DrainedInv
  <2> QED
      BY <1>1, <2>1, <2>3
<1>14. ASSUME NEW q PROVE Ahead(q)' <=> Ahead(q)
  <2>1. AheadOf(Du, Inner, q) <=> AheadOf(Du, g, q) \/ Below(c, q)
      BY <1>3 DEF AheadOf, c
  <2>2. AheadIn(q) <=> AheadIn(q)' \/ Below(c, q)
      BY <1>1, <1>2, <2>1 DEF AheadIn
  <2> QED
      BY <1>8, <2>2 DEF Ahead
<1>15. ToldInv'
    BY <1>12, <1>14, ToldNothing DEF TellInv
<1>16. TotalInv'
    BY <1>12, TotalSame DEF TellInv
<1> QED
    BY <1>7, <1>9, <1>10, <1>11, <1>13, <1>15, <1>16 DEF TellInv

(* A name more, or one less at the beginning, in the list of names.        *)
LEMMA EntriesMore ==
    ASSUME NEW e \in Seq(Name), NEW n \in Name
    PROVE  /\ Append(e, n) \in Seq(Name) /\ Len(e) \in Nat /\ Len(Append(e, n)) = Len(e) + 1
           /\ \A i \in 1..Len(e) : Append(e, n)[i] = e[i]
           /\ Append(e, n)[Len(e) + 1] = n
           /\ \A i \in 1..(Len(e) + 1) : i \in 1..Len(e) \/ i = Len(e) + 1
<1>1. Len(e) \in Nat
    BY LenProperties
<1> QED
    BY <1>1, AppendProperties

LEMMA EntriesLess ==
    ASSUME NEW e \in Seq(Name), e # << >>
    PROVE  /\ Head(e) \in Name /\ Head(e) = e[1] /\ 1 \in 1..Len(e)
           /\ Tail(e) \in Seq(Name) /\ Len(e) \in Nat /\ Len(Tail(e)) = Len(e) - 1
           /\ \A i \in 1..Len(Tail(e)) : i + 1 \in 1..Len(e) /\ Tail(e)[i] = e[i + 1]
           /\ \A i \in 1..Len(e) : i = 1 \/ i - 1 \in 1..Len(Tail(e))
<1>1. Len(e) \in Nat /\ e # << >> /\ Len(e) # 0
    BY LenProperties, EmptySeq
<1>2. /\ Head(e) \in Name /\ Tail(e) \in Seq(Name) /\ Head(e) = e[1]
      /\ Len(Tail(e)) = Len(e) - 1 /\ \A i \in 1..Len(Tail(e)) : Tail(e)[i] = e[i + 1]
    BY HeadTailProperties
<1> DEFINE m == Len(e)
           l == Len(Tail(e))
<1>3. m \in Nat /\ m # 0 /\ l = m - 1
    BY <1>1, <1>2
<1> HIDE DEF m, l
<1>4. /\ 1 \in 1..m /\ \A i \in 1..l : i + 1 \in 1..m
      /\ \A i \in 1..m : i = 1 \/ i - 1 \in 1..l
    BY <1>3
<1> QED
    BY <1>1, <1>2, <1>4 DEF m, l

(* tree puts a name in its list.                                           *)
LEMMA ListName ==
    ASSUME TellInv, WalkInv, WalkInv', step = "readdir", ~Du, frames # << >>,
           NEW n \in Name, n \notin Inner.returned, NEW g \in Frame,
           frames' = Append(Outer, g),
           g.path = Inner.path, g.dir = Inner.dir, g.sure = Inner.sure, g.status = Inner.status,
           g.returned = Inner.returned \cup {n}, g.entries = Append(Inner.entries, n),
           UNCHANGED <<host, edit, walk, step, here, usage, result, reported, steady>>
    PROVE  TellInv'
<1>1. /\ Len(frames) \in Nat \ {0} /\ Len(frames) \in 1..Len(frames) /\ frames[Len(frames)] = Inner
      /\ Inner \in Frame /\ \A k \in 1..Len(frames) : frames[k] \in Frame
      /\ frames \in Seq(Frame) /\ UNCHANGED at
    BY FrameTypes, InnerOuter DEF Inner, host
<1>2. /\ Len(frames') = Len(frames)
      /\ \A k \in 1..Len(frames) : frames'[k] = IF k = Len(frames) THEN g ELSE frames[k]
    BY <1>1, InnerPut
<1>3. Du' = Du
    BY DEF Du
<1> DEFINE e == Inner.entries
<1>4. /\ Len(e) \in Nat /\ Len(g.entries) = Len(e) + 1
      /\ \A i \in 1..Len(e) : g.entries[i] = e[i]
      /\ g.entries[Len(e) + 1] = n
      /\ \A i \in 1..(Len(e) + 1) : i \in 1..Len(e) \/ i = Len(e) + 1
  <2>1. e \in Seq(Name)
      BY <1>1 DEF Frame
  <2> HIDE DEF e
  <2>2. g.entries = Append(e, n)
      BY DEF e
  <2> QED
      BY <2>1, <2>2, EntriesMore
<1>5. Todo(Du, g) = Todo(Du, Inner)
  <2>1. {g.entries[i] : i \in 1..Len(g.entries)} = {e[i] : i \in 1..Len(e)} \cup {n}
    <3> DEFINE m == Len(e)
    <3>1. /\ m \in Nat /\ Len(g.entries) = m + 1 /\ (\A i \in 1..m : g.entries[i] = e[i])
          /\ g.entries[m + 1] = n /\ \A i \in 1..(m + 1) : i \in 1..m \/ i = m + 1
        BY <1>4
    <3> HIDE DEF m
    <3>2. m + 1 \in 1..(m + 1) /\ \A i \in 1..m : i \in 1..(m + 1)
        BY <3>1
    <3>3. {g.entries[i] : i \in 1..(m + 1)} = {e[i] : i \in 1..m} \cup {n}
      <4> HIDE DEF e
      <4> QED BY <3>1, <3>2
    <3> QED
        BY <3>1, <3>3 DEF m
  <2> HIDE DEF e
  <2>2. Todo(Du, g) = (Name \ (Inner.returned \cup {n})) \cup ({e[i] : i \in 1..Len(e)} \cup {n})
      BY <2>1 DEF Todo
  <2>3. Todo(Du, Inner) = (Name \ Inner.returned) \cup {e[i] : i \in 1..Len(e)}
      BY DEF Todo, e
  <2> DEFINE S == {e[i] : i \in 1..Len(e)}
  <2> HIDE DEF S
  <2>4. (Name \ (Inner.returned \cup {n})) \cup (S \cup {n}) = (Name \ Inner.returned) \cup S
      OBVIOUS
  <2> QED
      BY <2>2, <2>3, <2>4 DEF S
<1>6. /\ \A m : Child(g, m) = Child(Inner, m)
      /\ \A k \in 1..Len(frames) : /\ frames'[k].path = frames[k].path
                                   /\ \A m : Child(frames'[k], m) = Child(frames[k], m)
                                   /\ Todo(Du, frames'[k]) = Todo(Du, frames[k])
    BY <1>1, <1>2, <1>5 DEF Child
<1>7. SteadyInv'
    BY <1>1, SteadySame DEF TellInv
<1>8. LineInv'
    BY <1>2, <1>3, <1>6 DEF TellInv, LineInv, Going
<1>9. FreshInv'
  <2> SUFFICES ASSUME NEW k \in 1..Len(frames), NEW m \in Todo(Du, frames'[k]), Child(frames'[k], m) \in steady
               PROVE  \A l \in 1..Len(frames) : ~Below(Child(frames'[k], m), frames'[l].path)
      BY <1>2, <1>3 DEF FreshInv, Going
  <2>1. m \in Todo(Du, frames[k]) /\ Child(frames[k], m) \in steady
      BY <1>6
  <2> QED
      BY <1>6, <2>1 DEF TellInv, FreshInv
<1>10. StreamInv'
  <2>1. ASSUME NEW m \in Name, Once(Inner, m) PROVE Once(g, m)
    <3> SUFFICES ASSUME NEW i \in 1..Len(g.entries), NEW j \in 1..Len(g.entries)
                 PROVE  /\ g.entries[i] = m => m \in g.returned
                        /\ g.entries[i] = m /\ g.entries[j] = m => i = j
        BY DEF Once
    <3> DEFINE c == Len(e)
    <3>1. (i \in 1..c \/ i = c + 1) /\ (j \in 1..c \/ j = c + 1)
        BY <1>4
    <3>2. /\ g.entries[c + 1] = n /\ \A x \in 1..c : g.entries[x] = e[x]
        BY <1>4
    <3>3. \A x, y \in 1..c : (e[x] = m => m \in Inner.returned) /\ (e[x] = m /\ e[y] = m => x = y)
        BY <2>1 DEF Once
    <3> HIDE DEF e, c
    <3> QED
        BY <3>1, <3>2, <3>3
  <2>2. ASSUME NEW k \in 1..Len(frames), Streamed(at, steady, frames[k])
        PROVE  Streamed(at, steady, frames'[k])
    <3>1. CASE k = Len(frames)
        BY <1>1, <1>2, <1>6, <2>1, <2>2, <3>1 DEF Streamed
    <3>2. CASE k # Len(frames)
        BY <1>2, <2>2, <3>2
    <3> QED BY <3>1, <3>2
  <2> QED
      BY <1>1, <1>2, <2>2 DEF TellInv, StreamInv
<1>11. Clean' <=> Clean
  <2>1. \A k \in 1..Len(frames) : frames'[k].status = frames[k].status
      BY <1>1, <1>2
  <2> QED
      BY <1>2, <2>1 DEF Clean
<1>12. DrainedInv'
  <2> SUFFICES ASSUME Clean', NEW k \in 1..Len(frames), Drained(k)'
               PROVE  frames'[k].sure \subseteq frames'[k].returned
      BY <1>2 DEF DrainedInv
  <2>1. k < Len(frames)
      BY <1>2, <1>3 DEF Drained, Going
  <2>2. Drained(k) /\ frames'[k] = frames[k]
      BY <1>1, <1>2, <2>1 DEF Drained
  <2> QED
      BY <1>11, <2>2 DEF TellInv, DrainedInv
<1>13. ASSUME NEW q PROVE Ahead(q)' <=> Ahead(q)
  <2>1. \A k \in 1..Len(frames) : AheadOf(Du, frames'[k], q) <=> AheadOf(Du, frames[k], q)
      BY <1>6 DEF AheadOf
  <2>2. AheadIn(q)' <=> AheadIn(q)
      BY <1>2, <1>3, <2>1 DEF AheadIn
  <2> QED
      BY <2>2 DEF Ahead
<1>14. ToldInv'
    BY <1>11, <1>13, ToldNothing DEF TellInv
<1>15. TotalInv'
    BY <1>11, TotalSame DEF TellInv
<1> QED
    BY <1>7, <1>8, <1>9, <1>10, <1>12, <1>14, <1>15 DEF TellInv

LEMMA ReadNameTells ==
    ASSUME TellInv, WalkInv, WalkInv', ReadName, UNCHANGED edit PROVE TellInv'
<1>1. PICK n \in (Inner.listed \cup Entries(Inner.dir)) \ Inner.returned :
        LET read == [Inner EXCEPT !.returned = @ \cup {n}]
        IN  IF Du
            THEN /\ frames' = Append(Outer, read)
                 /\ here' = Append(Inner.path, n) /\ step' = "lstat"
            ELSE /\ frames' = Append(Outer, [read EXCEPT !.entries = Append(@, n)])
                 /\ UNCHANGED <<here, step>>
    BY DEF ReadName
<1>2. /\ step = "readdir"
      /\ UNCHANGED <<host, walk, usage, result, reported, steady>>
    BY DEF ReadName
<1>3. Inner \in Frame /\ frames # << >> /\ frames \in Seq(Frame)
    BY <1>2, InnerOuter DEF WalkInv, FramesInv
<1>4. n \in Name /\ n \notin Inner.returned
  <2>1. Inner.listed \subseteq Name
      BY <1>3 DEF Frame
  <2> QED
      BY <2>1, EntriesType
<1> DEFINE read == [Inner EXCEPT !.returned = @ \cup {n}]
           more == [read EXCEPT !.entries = Append(@, n)]
<1>5. /\ read \in Frame /\ read.path = Inner.path /\ read.dir = Inner.dir /\ read.sure = Inner.sure
      /\ read.status = Inner.status /\ read.returned = Inner.returned \cup {n} /\ read.entries = Inner.entries
    BY <1>3, <1>4 DEF Frame
<1>6. /\ more \in Frame /\ more.path = Inner.path /\ more.dir = Inner.dir /\ more.sure = Inner.sure
      /\ more.status = Inner.status /\ more.returned = Inner.returned \cup {n}
      /\ more.entries = Append(Inner.entries, n)
  <2> HIDE DEF read
  <2> DEFINE a == Append(read.entries, n)
  <2>1. a \in Seq(Name) /\ a = Append(Inner.entries, n)
      BY <1>4, <1>5, AppendProperties DEF Frame
  <2>2. more = [read EXCEPT !.entries = a]
      OBVIOUS
  <2> HIDE DEF a
  <2> QED
      BY <1>5, <2>1, <2>2 DEF Frame
<1>7. \/ Du /\ frames' = Append(Outer, read) /\ here' = Append(Inner.path, n) /\ step' = "lstat"
      \/ ~Du /\ frames' = Append(Outer, more) /\ UNCHANGED <<here, step>>
    BY <1>1
<1> HIDE DEF read, more
<1>8. CASE Du /\ frames' = Append(Outer, read) /\ here' = Append(Inner.path, n) /\ step' = "lstat"
  <2>1. /\ Len(frames') = Len(frames)
        /\ \A k \in 1..Len(frames) : frames'[k] = IF k = Len(frames) THEN read ELSE frames[k]
      BY <1>3, <1>5, <1>8, InnerPut
  <2>2. /\ n \in Todo(Du, Inner) /\ n \notin Todo(Du, read)
        /\ Todo(Du, read) \subseteq Todo(Du, Inner) /\ Todo(Du, Inner) \subseteq Todo(Du, read) \cup {n}
      BY <1>4, <1>5, <1>8 DEF Todo
  <2>3. \A m \in Name : Once(Inner, m) => Once(read, m)
      BY <1>5 DEF Once
  <2>4. here' = Child(Inner, n)
      BY <1>8 DEF Child, Under
  <2> QED
      BY <1>2, <1>3, <1>5, <1>8, <2>1, <2>2, <2>3, <2>4, Descend
<1>9. CASE ~Du /\ frames' = Append(Outer, more) /\ UNCHANGED <<here, step>>
    BY <1>2, <1>3, <1>4, <1>6, <1>9, ListName
<1> QED
    BY <1>7, <1>8, <1>9

LEMMA NextEntryTells ==
    ASSUME TellInv, WalkInv, WalkInv', NextEntry, UNCHANGED edit PROVE TellInv'
<1> DEFINE g == [Inner EXCEPT !.entries = Tail(@)]
           e == Inner.entries
           t == Tail(e)
           n == Head(e)
<1>1. /\ step = "entries" /\ e # << >>
      /\ here' = Append(Inner.path, n) /\ step' = "lstat"
      /\ frames' = [frames EXCEPT ![Len(frames)] = g]
      /\ UNCHANGED <<host, walk, usage, result, reported, steady>>
    BY DEF NextEntry, Inner
<1>2. frames # << >> /\ frames \in Seq(Frame) /\ Inner \in Frame /\ ~Du
    BY <1>1, InnerOuter DEF WalkInv, FramesInv
<1>3. e \in Seq(Name)
    BY <1>2 DEF Frame
<1>4. /\ n \in Name /\ n = e[1] /\ 1 \in 1..Len(e)
      /\ t \in Seq(Name) /\ Len(t) = Len(e) - 1
      /\ \A i \in 1..Len(t) : i + 1 \in 1..Len(e) /\ t[i] = e[i + 1]
      /\ \A i \in 1..Len(e) : i = 1 \/ i - 1 \in 1..Len(t)
      /\ Len(e) \in Nat
    BY <1>1, <1>3, EntriesLess
<1>5. /\ g \in Frame /\ g.path = Inner.path /\ g.dir = Inner.dir /\ g.sure = Inner.sure
      /\ g.status = Inner.status /\ g.returned = Inner.returned /\ g.entries = t
    BY <1>2, <1>4 DEF Frame
<1> HIDE DEF g, e, t, n
<1>6. /\ Len(frames') = Len(frames)
      /\ \A k \in 1..Len(frames) : frames'[k] = IF k = Len(frames) THEN g ELSE frames[k]
    BY <1>1, <1>2, <1>5, InnerPut
<1> DEFINE m == Len(t)
<1>7. m \in Nat /\ Len(e) = m + 1
  <2>1. Len(t) \in Nat
      BY <1>4, LenProperties
  <2> QED
      BY <1>4, <2>1
<1>8. /\ \A i \in 1..m : i + 1 \in 1..(m + 1) /\ t[i] = e[i + 1]
      /\ \A i \in 1..(m + 1) : i = 1 \/ (i - 1 \in 1..m /\ e[i] = t[i - 1])
  <2>1. \A i \in 1..m : i + 1 \in 1..(m + 1) /\ t[i] = e[i + 1]
      BY <1>4, <1>7
  <2>2. \A i \in 1..(m + 1) : i = 1 \/ i - 1 \in 1..m
      BY <1>4, <1>7
  <2>3. \A i \in 1..(m + 1) : (i - 1) + 1 = i
      BY <1>7
  <2> HIDE DEF m
  <2>4. \A i \in 1..(m + 1) : i = 1 \/ (i - 1 \in 1..m /\ e[i] = t[i - 1])
      BY <2>1, <2>2, <2>3
  <2> QED
      BY <2>1, <2>4
<1> HIDE DEF m
<1>9. /\ Todo(Du, Inner) = (Name \ Inner.returned) \cup {e[i] : i \in 1..(m + 1)}
      /\ Todo(Du, g) = (Name \ Inner.returned) \cup {t[i] : i \in 1..m}
  <2>1. Inner.entries = e /\ Len(e) = m + 1
      BY <1>7 DEF e
  <2>2. Len(t) = m
      BY DEF m
  <2> QED
      BY <1>2, <1>5, <2>1, <2>2 DEF Todo
<1>10. 1 \in 1..(m + 1)
    BY <1>7
<1>11. /\ {t[i] : i \in 1..m} \subseteq {e[i] : i \in 1..(m + 1)}
       /\ {e[i] : i \in 1..(m + 1)} \subseteq {t[i] : i \in 1..m} \cup {n}
       /\ n \in {e[i] : i \in 1..(m + 1)}
    BY <1>4, <1>8, <1>10
<1>12. /\ Todo(Du, g) \subseteq Todo(Du, Inner) /\ Todo(Du, Inner) \subseteq Todo(Du, g) \cup {n}
       /\ n \in Todo(Du, Inner)
    BY <1>9, <1>11
<1>13. ASSUME NEW x \in Name, Once(Inner, x) PROVE Once(g, x)
  <2> SUFFICES ASSUME NEW i \in 1..m, NEW j \in 1..m
               PROVE  /\ t[i] = x => x \in Inner.returned
                      /\ t[i] = x /\ t[j] = x => i = j
      BY <1>5 DEF Once, m
  <2>1. \A a, b \in 1..(m + 1) : (e[a] = x => x \in Inner.returned) /\ (e[a] = x /\ e[b] = x => a = b)
      BY <1>7, <1>13 DEF Once, e
  <2>2. /\ i + 1 \in 1..(m + 1) /\ t[i] = e[i + 1] /\ j + 1 \in 1..(m + 1) /\ t[j] = e[j + 1]
      BY <1>8
  <2>3. (t[i] = x => x \in Inner.returned) /\ (t[i] = x /\ t[j] = x => i + 1 = j + 1)
      BY <2>1, <2>2
  <2> QED
      BY <2>3
<1>14. ASSUME Child(Inner, n) \in steady PROVE n \notin Todo(Du, g)
  <2>1. Once(Inner, n)
    <3>1. Inner = frames[Len(frames)] /\ Len(frames) \in 1..Len(frames)
        BY <1>2, InnerOuter DEF Inner
    <3>2. Streamed(at, steady, Inner)
        BY <3>1 DEF TellInv, StreamInv
    <3> QED
        BY <1>4, <1>14, <3>2 DEF Streamed
  <2>2. \A a, b \in 1..(m + 1) : (e[a] = n => n \in Inner.returned) /\ (e[a] = n /\ e[b] = n => a = b)
      BY <1>7, <2>1 DEF Once, e
  <2>3. n \in Inner.returned
      BY <1>4, <1>10, <2>2
  <2>4. ASSUME NEW i \in 1..m PROVE t[i] # n
    <3>1. i + 1 \in 1..(m + 1) /\ t[i] = e[i + 1] /\ i + 1 # 1
        BY <1>7, <1>8
    <3> QED
        BY <1>4, <1>10, <2>2, <3>1
  <2> QED
      BY <1>9, <2>3, <2>4
<1>15. here' = Child(Inner, n)
    BY <1>1 DEF Child, Under
<1> QED
    BY <1>1, <1>2, <1>5, <1>6, <1>12, <1>13, <1>14, <1>15, Descend

(* A call that begins: its stream has every name, and none was returned.   *)
Fresh(f) == f.path = here /\ f.dir = Lookup(Follow(here)) /\ f.sure = Entries(f.dir)
            /\ f.returned = {} /\ f.entries = << >> /\ f.status = 0

LEMMA FreshAhead ==
    ASSUME WalkInv, NEW f \in Frame, Fresh(f), NEW q \in Seq(Name)
    PROVE  AheadOf(Du, f, q) <=> Below(here, q) /\ q # here
<1>1. here \in Seq(Name) /\ Len(here) \in Nat
    BY FrameTypes, LenProperties
<1>2. Todo(Du, f) = Name
  <2>1. Len(f.entries) = 0
      BY DEF Fresh
  <2>2. {f.entries[i] : i \in 1..Len(f.entries)} = {}
      BY <2>1
  <2>3. f.returned = {}
      BY DEF Fresh
  <2> QED
      BY <2>2, <2>3 DEF Todo
<1>3. AheadOf(Du, f, q) <=> \E n \in Name : Below(Under(here, n), q)
    BY <1>2 DEF AheadOf, Child, Fresh
<1>4. ASSUME NEW n \in Name, Below(Under(here, n), q)
      PROVE  Below(here, q) /\ q # here
  <2>1. /\ Under(here, n) \in Seq(Name) /\ Len(Under(here, n)) = Len(here) + 1
        /\ Below(here, Under(here, n))
      BY <1>1, UnderType, UnderBelow
  <2>2. Below(here, q)
      BY <1>1, <1>4, <2>1, BelowTransitive
  <2>3. Len(Under(here, n)) <= Len(q)
      BY <1>4, <2>1, BelowLength
  <2>4. q # here
      BY <1>1, <2>1, <2>3
  <2> QED
      BY <2>2, <2>4
<1>5. Below(here, q) /\ q # here => \E n \in Name : Below(Under(here, n), q)
    BY <1>1, NextBelow
<1> QED
    BY <1>3, <1>4, <1>5

LEMMA FreshStreamed ==
    ASSUME HostTypeOK, WalkInv, TellInv, step = "opendir", NEW f \in Frame, Fresh(f)
    PROVE  Streamed(at, steady, f)
<1>1. here \in Seq(Name) /\ Len(here) \in Nat /\ Len(walk.path) \in Nat /\ Len(frames) \in Nat
    BY FrameTypes, LenProperties
<1>2. Len(walk.path) <= Len(here)
  <2>1. Len(here) = Len(walk.path) + Len(frames)
      BY DEF TellInv, LineInv, Going
  <2> QED BY <1>1, <2>1
<1> SUFFICES ASSUME NEW n \in Name, Child(f, n) \in steady
             PROVE  LookupIn(at, f.path) = f.dir /\ n \in f.sure /\ Once(f, n)
    BY DEF Streamed
<1>3. Child(f, n) = Under(here, n)
    BY DEF Child, Fresh
<1>4. Below(here, Under(here, n)) /\ here # Under(here, n)
    BY <1>1, UnderBelow
<1>5. Lookup(here) \in Directory
    BY <1>1, <1>2, <1>3, <1>4, SteadyAbove DEF TellInv
<1>6. Follow(here) = here
    BY <1>5, Kinds DEF Follow
<1>7. f.dir = Lookup(here)
    BY <1>6 DEF Fresh
<1>8. Lookup(Under(here, n)) # None
    BY <1>3 DEF TellInv, SteadyInv
<1>9. LookupIn(at, Under(here, n)) # None /\ LookupIn(at, here) = f.dir /\ f.dir \in Directory
    BY <1>5, <1>7, <1>8, LookupNow
<1>10. at[f.dir][n] # None
    BY <1>1, <1>9, LookupUnder
<1>11. n \in f.sure
    BY <1>10 DEF Fresh, Entries
<1>12. Once(f, n)
  <2>1. Len(f.entries) = 0
      BY DEF Fresh
  <2> QED
      BY <2>1 DEF Once
<1>13. f.path = here
    BY DEF Fresh
<1> QED
    BY <1>9, <1>11, <1>12, <1>13

LEMMA OpenDirTells ==
    ASSUME HostTypeOK, TellInv, WalkInv, WalkInv', OpenDir, UNCHANGED edit PROVE TellInv'
<1>1. /\ step = "opendir" /\ step \in Going /\ step' = "readdir"
      /\ UNCHANGED <<host, at, walk, here, usage, result, reported, steady>>
    BY DEF OpenDir, Going, host
<1>2. PICK f \in Frame : Fresh(f) /\ frames' = Append(frames, f)
  <2> DEFINE d == Lookup(Follow(here))
             f == [path |-> here, dir |-> d, listed |-> Entries(d), sure |-> Entries(d),
                   returned |-> {}, entries |-> << >>, status |-> 0]
  <2>1. d \in Directory /\ frames' = Append(frames, f)
      BY DEF OpenDir
  <2>2. here \in Seq(Name)
      BY FrameTypes
  <2>3. f.path = here /\ f.dir = d /\ f.sure = Entries(d) /\ f.returned = {} /\ f.entries = << >> /\ f.status = 0
      OBVIOUS
  <2>4. Fresh(f)
      BY <2>3 DEF Fresh
  <2> HIDE DEF d
  <2>5. f \in Frame
      BY <2>1, <2>2, EntriesType, EmptySeq DEF Frame
  <2> HIDE DEF f
  <2> QED
      BY <2>1, <2>4, <2>5
<1> DEFINE c == Len(frames)
<1>3. /\ frames \in Seq(Frame) /\ c \in Nat /\ Len(frames') = c + 1 /\ frames'[c + 1] = f
      /\ \A k \in 1..c : frames'[k] = frames[k] /\ frames[k] \in Frame
      /\ here \in Seq(Name) /\ Len(here) \in Nat /\ Len(walk.path) \in Nat
    BY <1>2, FrameTypes, AppendProperties, LenProperties
<1>4. f.path = here /\ f.status = 0
    BY <1>2 DEF Fresh
<1>5. Du' = Du
    BY <1>1 DEF Du
<1>6. Len(here) = Len(walk.path) + c /\ \A k \in 1..c : Len(frames[k].path) = Len(walk.path) + k - 1
    BY <1>1 DEF TellInv, LineInv
<1>7. SteadyInv'
    BY <1>1, SteadySame DEF TellInv
<1> HIDE DEF c
<1>8. c + 1 \in 1..(c + 1) /\ \A k \in 1..(c + 1) : k \in 1..c \/ k = c + 1
    BY <1>3
<1>9. \A k \in 1..(c + 1) : Len(frames'[k].path) = Len(walk.path) + k - 1
  <2> TAKE k \in 1..(c + 1)
  <2>1. CASE k \in 1..c
      BY <1>3, <1>6, <2>1
  <2>2. CASE k = c + 1
    <3>1. frames'[k].path = here
        BY <1>3, <1>4, <2>2
    <3>2. Len(here) = Len(walk.path) + k - 1
        BY <1>3, <1>6, <2>2
    <3> QED
        BY <3>1, <3>2
  <2> QED
      BY <1>8, <2>1, <2>2
<1>10. LineInv'
  <2>1. \A k \in 1..Len(frames') : Len(frames'[k].path) = Len(walk'.path) + k - 1
      BY <1>1, <1>3, <1>9
  <2>2. step' \notin {"start", "done", "readlink"} /\ step' \notin Going
      BY <1>1 DEF Going
  <2> QED
      BY <2>1, <2>2 DEF LineInv
<1>11. FreshInv'
  <2> SUFFICES ASSUME NEW k \in 1..(c + 1), NEW n \in Todo(Du, frames'[k]), Child(frames'[k], n) \in steady,
                      NEW l \in 1..(c + 1), Below(Child(frames'[k], n), frames'[l].path)
               PROVE  FALSE
      BY <1>1, <1>3, <1>5 DEF FreshInv, Going
  <2>1. CASE k \in 1..c
    <3>1. /\ \A j \in 1..c : ~Below(Child(frames[k], n), frames[j].path)
          /\ ~Below(Child(frames[k], n), here)
        BY <1>1, <1>3, <2>1 DEF TellInv, FreshInv, c
    <3> QED
        BY <1>3, <1>4, <1>8, <2>1, <3>1
  <2>2. CASE k = c + 1
    <3>1. n \in Name
        BY <1>3, <2>2, TodoNames
    <3>2. Child(f, n) \in Seq(Name) /\ Len(Child(f, n)) = Len(here) + 1
        BY <1>4, <3>1, ChildType
    <3>3. frames'[l] \in Frame
        BY <1>3, <1>8
    <3>4. frames'[l].path \in Seq(Name) /\ Len(frames'[l].path) = Len(walk.path) + l - 1
        BY <1>9, <3>3 DEF Frame
    <3>5. Len(Child(f, n)) <= Len(frames'[l].path)
        BY <1>3, <2>2, <3>2, <3>4, BelowLength
    <3> QED
        BY <1>3, <1>6, <3>2, <3>4, <3>5
  <2> QED
      BY <1>8, <2>1, <2>2
<1>12. StreamInv'
  <2>1. Streamed(at, steady, f)
      BY <1>1, <1>2, FreshStreamed
  <2>2. \A k \in 1..(c + 1) : Streamed(at, steady, frames'[k])
      BY <1>3, <1>8, <2>1 DEF TellInv, StreamInv, c
  <2> QED
      BY <1>1, <1>3, <2>2 DEF StreamInv
<1>13. Clean' <=> Clean
  <2>1. (\A k \in 1..(c + 1) : frames'[k].status = 0) <=> \A k \in 1..c : frames[k].status = 0
      BY <1>3, <1>4, <1>8
  <2> QED
      BY <1>1, <1>3, <2>1 DEF Clean, c
<1>14. DrainedInv'
  <2> SUFFICES ASSUME Clean', NEW k \in 1..(c + 1), Drained(k)'
               PROVE  frames'[k].sure \subseteq frames'[k].returned
      BY <1>3 DEF DrainedInv
  <2>1. ~Du /\ k < c + 1
      BY <1>1, <1>3, <1>5 DEF Drained, Going
  <2>2. k \in 1..c /\ Drained(k)
      BY <1>1, <1>3, <2>1 DEF Drained
  <2>3. frames[k].sure \subseteq frames[k].returned
      BY <1>13, <2>2 DEF TellInv, DrainedInv, c
  <2> QED
      BY <1>3, <2>2, <2>3
<1>15. ASSUME NEW q \in steady PROVE Ahead(q)' <=> Ahead(q)
  <2>1. q \in Seq(Name)
      BY DEF TellInv, SteadyInv, Rooted
  <2>2. AheadOf(Du, f, q) <=> Below(here, q) /\ q # here
      BY <1>2, <2>1, FreshAhead
  <2>3. AheadIn(q)' <=> AheadIn(q) \/ AheadOf(Du, f, q)
    <3>1. AheadIn(q)' <=> \E k \in 1..(c + 1) : AheadOf(Du, frames'[k], q)
        BY <1>3, <1>5 DEF AheadIn
    <3>2. AheadIn(q) <=> \E k \in 1..c : AheadOf(Du, frames[k], q)
        BY DEF AheadIn, c
    <3> QED
        BY <1>3, <1>8, <3>1, <3>2
  <2> QED
      BY <1>1, <2>2, <2>3 DEF Ahead
<1>16. ToldInv'
    BY <1>1, <1>13, <1>15, ToldNothing DEF TellInv
<1>17. TotalInv'
    BY <1>1, <1>13, TotalSame DEF TellInv
<1> QED
    BY <1>7, <1>10, <1>11, <1>12, <1>14, <1>16, <1>17 DEF TellInv

-----------------------------------------------------------------------------
(* What the edits leave of it *)

(* Whoever has opened a file keeps it, and a content changes only by one   *)
(* who has opened it to write.                                             *)
LEMMA EditsByWriters ==
    ASSUME EditInv, EditorNext
    PROVE  /\ command' = command
           /\ \A q \in Process : file[q] # None => file'[q] = file[q]
           /\ \A o \in File : \/ content'[o] = content[o]
                              \/ \E p \in Process : file'[p] = o /\ command[p].op \in {"write", "append"}
<1>1. PICK p \in Process :
        \/ OneCall(p) \/ FirstCallFails(p) \/ OpenNew(p) \/ OpenOld(p)
        \/ WriteSome(p) \/ WriteEnds(p) \/ WriteFails(p)
        \/ ReadSome(p) \/ ReadEnds(p) \/ ReadFails(p)
        \/ Close(p) \/ Die(p)
    BY DEF EditorNext
<1>2. /\ content \in [File -> Seq(Byte)] /\ file \in [Process -> File \cup {None}]
      /\ pc[p] = "start" => file[p] = None
      /\ pc[p] = "write" => command[p].op \in {"write", "append"}
    BY Parts DEF EditInv, Standing
<1>3. CASE OneCall(p)
    BY <1>3 DEF OneCall, Unlink, Rename, AddLink
<1>4. CASE OpenNew(p)
  <2>1. PICK o \in File : file' = [file EXCEPT ![p] = o]
      BY <1>4 DEF OpenNew
  <2>2. pc[p] = "start" /\ command' = command /\ content' = content
      BY <1>4 DEF OpenNew, At
  <2> QED
      BY <1>2, <2>1, <2>2
<1>5. CASE OpenOld(p)
  <2>1. PICK o \in File : /\ file' = [file EXCEPT ![p] = o]
                          /\ content' = IF command[p].op = "write" THEN [content EXCEPT ![o] = << >>] ELSE content
      BY <1>5 DEF OpenOld
  <2>2. pc[p] = "start" /\ command' = command
      BY <1>5 DEF OpenOld
  <2>3. file'[p] = o /\ \A q \in Process : file[q] # None => file'[q] = file[q]
      BY <1>2, <2>1, <2>2
  <2>4. \A x \in File : x # o => content'[x] = content[x]
      BY <1>2, <2>1
  <2>5. command[p].op = "write" \/ content' = content
      BY <2>1
  <2> QED
      BY <2>2, <2>3, <2>4, <2>5
<1>6. CASE WriteSome(p)
  <2>1. /\ pc[p] = "write" /\ command' = command /\ file' = file
        /\ \E b : content' = [content EXCEPT ![file[p]] = b]
      BY <1>6 DEF WriteSome
  <2>2. \A x \in File : x # file[p] => content'[x] = content[x]
      BY <1>2, <2>1
  <2> QED
      BY <1>2, <2>1, <2>2
<1>7. CASE \/ FirstCallFails(p) \/ WriteEnds(p) \/ WriteFails(p) \/ ReadSome(p)
           \/ ReadEnds(p) \/ ReadFails(p) \/ Close(p) \/ Die(p)
    BY <1>7 DEF FirstCallFails, WriteEnds, WriteFails, ReadSome, ReadEnds, ReadFails, Close, Die, host
<1> QED
    BY <1>1, <1>3, <1>4, <1>5, <1>6, <1>7

LEMMA UnwrittenKept ==
    ASSUME EditInv, EditorNext, NEW o \in File, Unwritten(o)'
    PROVE  Unwritten(o) /\ content'[o] = content[o]
<1>1. /\ command' = command
      /\ \A q \in Process : file[q] # None => file'[q] = file[q]
      /\ \/ content'[o] = content[o]
         \/ \E p \in Process : file'[p] = o /\ command[p].op \in {"write", "append"}
    BY EditsByWriters
<1>2. \A q \in Process : file'[q] = o => command[q].op \notin {"write", "append"}
    BY <1>1 DEF Unwritten, Writers, Overwriters
<1>3. o # None
    BY Kinds
<1>4. \A q \in Process : file[q] = o => command[q].op \notin {"write", "append"}
    BY <1>1, <1>2, <1>3
<1> QED
    BY <1>1, <1>2, <1>4 DEF Unwritten, Writers, Overwriters

(* A beginning of a path is above it.                                      *)
LEMMA BeginningOf ==
    ASSUME NEW q \in Seq(Name), NEW n \in 0..Len(q)
    PROVE  /\ SubSeq(q, 1, n) \in Seq(Name) /\ Len(SubSeq(q, 1, n)) = n
           /\ Below(SubSeq(q, 1, n), q)
<1>1. Len(q) \in Nat
    BY LenProperties
<1>2. \A i \in 1..n : q[i] \in Name
  <2>1. \A i \in 1..n : i \in 1..Len(q)
      BY <1>1
  <2> QED
      BY <2>1, ElementOfSeq
<1> DEFINE b == SubSeq(q, 1, n)
<1>3. b \in Seq(Name) /\ Len(b) = n
  <2>1. n \in Nat /\ 1 \in Nat
      BY <1>1
  <2>2. b \in Seq(Name) /\ Len(b) = IF 1 <= n THEN n - 1 + 1 ELSE 0
      BY <1>2, <2>1, SubSeqProperties
  <2>3. (IF 1 <= n THEN n - 1 + 1 ELSE 0) = n
      BY <2>1
  <2> QED
      BY <2>2, <2>3
<1>4. Len(b) <= Len(q) /\ SubSeq(q, 1, Len(b)) = b
    BY <1>1, <1>3
<1> QED
    BY <1>3, <1>4 DEF Below

(* A path stays steady when nothing above it changes what it names.        *)
LEMMA SteadyLeft ==
    ASSUME SteadyInv, Disturb
    PROVE  /\ steady' \subseteq steady
           /\ \A q \in steady' : /\ q \in Seq(Name)
                                 /\ \A a \in Seq(Name) : Below(a, q) => LookupIn(at', a) = LookupIn(at, a)
           /\ \A q \in steady' : \A a \in Seq(Name) :
                  Len(walk.path) <= Len(a) /\ Below(a, q) => a \in steady'
<1>1. steady' = {q \in steady : \A n \in 0..Len(q) : Lookup(SubSeq(q, 1, n)) = Lookup(SubSeq(q, 1, n))'}
    BY DEF Disturb
<1>2. \A q \in steady' : /\ q \in steady
                         /\ \A n \in 0..Len(q) : LookupIn(at, SubSeq(q, 1, n)) = LookupIn(at', SubSeq(q, 1, n))
    BY <1>1, LookupNow, LookupThen
<1>3. ASSUME NEW q \in steady, \A n \in 0..Len(q) : LookupIn(at, SubSeq(q, 1, n)) = LookupIn(at', SubSeq(q, 1, n))
      PROVE  q \in steady'
    BY <1>1, <1>3, LookupNow, LookupThen
<1>4. ASSUME NEW q \in steady'
      PROVE  /\ q \in Seq(Name)
             /\ \A a \in Seq(Name) : Below(a, q) => LookupIn(at', a) = LookupIn(at, a)
  <2>1. q \in Seq(Name)
      BY <1>2 DEF SteadyInv, Rooted
  <2>2. ASSUME NEW a \in Seq(Name), Below(a, q)
        PROVE  LookupIn(at', a) = LookupIn(at, a)
    <3>1. Len(a) \in 0..Len(q) /\ SubSeq(q, 1, Len(a)) = a
      <4>1. Len(a) \in Nat /\ Len(q) \in Nat
          BY <2>1, LenProperties
      <4> QED BY <2>2, <4>1 DEF Below
    <3> QED
        BY <1>2, <3>1
  <2> QED
      BY <2>1, <2>2
<1>5. ASSUME NEW q \in steady', NEW a \in Seq(Name), Len(walk.path) <= Len(a), Below(a, q)
      PROVE  a \in steady'
  <2>1. a \in steady /\ q \in Seq(Name)
      BY <1>2, <1>5 DEF SteadyInv, Rooted
  <2>2. ASSUME NEW n \in 0..Len(a)
        PROVE  LookupIn(at, SubSeq(a, 1, n)) = LookupIn(at', SubSeq(a, 1, n))
    <3> DEFINE b == SubSeq(a, 1, n)
    <3>1. b \in Seq(Name) /\ Below(b, a)
        BY BeginningOf
    <3> HIDE DEF b
    <3>2. Below(b, q)
        BY <1>5, <2>1, <3>1, BelowTransitive
    <3>3. LookupIn(at', b) = LookupIn(at, b)
        BY <1>4, <3>1, <3>2
    <3> QED
        BY <3>3 DEF b
  <2> QED
      BY <1>3, <2>1, <2>2
<1> QED
    BY <1>2, <1>4, <1>5

(* What a change leaves of a call.                                         *)
Changed(d) == {n \in Name : at'[d][n] # at[d][n]}

LEMMA DisturbedCalls ==
    ASSUME WalkInv, Disturb
    PROVE  /\ Len(frames') = Len(frames)
           /\ \A k \in 1..Len(frames) :
                /\ frames'[k] \in Frame
                /\ frames'[k].path = frames[k].path /\ frames'[k].dir = frames[k].dir
                /\ frames'[k].listed = frames[k].listed
                /\ frames'[k].entries = frames[k].entries /\ frames'[k].status = frames[k].status
                /\ frames'[k].sure = frames[k].sure \ Changed(frames[k].dir)
                /\ frames'[k].returned = frames[k].returned \ Changed(frames[k].dir)
<1>1. /\ frames \in Seq(Frame) /\ Len(frames) \in Nat /\ DOMAIN frames = 1..Len(frames)
      /\ \A k \in 1..Len(frames) : frames[k] \in Frame
    BY FrameTypes, LenProperties
<1>2. \A f \in Frame : /\ Disturbed(f) \in Frame
                       /\ Disturbed(f).path = f.path /\ Disturbed(f).dir = f.dir
                       /\ Disturbed(f).listed = f.listed
                       /\ Disturbed(f).entries = f.entries /\ Disturbed(f).status = f.status
                       /\ Disturbed(f).sure = f.sure \ Changed(f.dir)
                       /\ Disturbed(f).returned = f.returned \ Changed(f.dir)
    BY DEF Disturbed, Frame, Changed
<1>3. frames' = [k \in 1..Len(frames) |-> Disturbed(frames[k])]
    BY <1>1 DEF Disturb
<1>4. frames' \in [1..Len(frames) -> Frame]
    BY <1>1, <1>2, <1>3
<1>5. frames' \in Seq(Frame)
    BY <1>1, <1>4, SeqDef
<1>6. Len(frames') = Len(frames)
    BY <1>1, <1>4, <1>5, LenProperties
<1>7. \A k \in 1..Len(frames) : frames'[k] = Disturbed(frames[k])
    BY <1>3
<1> QED
    BY <1>1, <1>2, <1>6, <1>7

(* The name under which a steady path goes on from a call is not changed.  *)
LEMMA NameLeft ==
    ASSUME WalkInv, SteadyInv, Disturb, NEW f \in Frame, Streamed(at, steady, f),
           NEW n \in Name, Child(f, n) \in steady'
    PROVE  /\ n \notin Changed(f.dir) /\ LookupIn(at', f.path) = f.dir
           /\ n \in f.sure /\ Once(f, n)
<1>1. /\ f.path \in Seq(Name) /\ Child(f, n) \in Seq(Name) /\ Below(f.path, Child(f, n))
      /\ Below(Child(f, n), Child(f, n)) /\ f.dir \in Directory
    BY ChildType, BelowSelf DEF Frame
<1>2. Child(f, n) \in steady
    BY SteadyLeft
<1>3. LookupIn(at, f.path) = f.dir /\ n \in f.sure /\ Once(f, n)
    BY <1>2 DEF Streamed
<1>4. /\ LookupIn(at', f.path) = LookupIn(at, f.path)
      /\ LookupIn(at', Child(f, n)) = LookupIn(at, Child(f, n))
    BY <1>1, SteadyLeft
<1>5. LookupIn(at, Child(f, n)) = at[f.dir][n]
  <2>1. LookupIn(at, Under(f.path, n)) = at[f.dir][n]
      BY <1>1, <1>3, LookupUnder
  <2> QED
      BY <2>1 DEF Child
<1>6. LookupIn(at', Child(f, n)) = at'[f.dir][n]
  <2>1. LookupIn(at', Under(f.path, n)) = at'[f.dir][n]
      BY <1>1, <1>3, <1>4, LookupUnder
  <2> QED
      BY <2>1 DEF Child
<1>7. n \notin Changed(f.dir)
    BY <1>4, <1>5, <1>6 DEF Changed
<1> QED
    BY <1>3, <1>4, <1>7

(* What is right of a path stays right while it is steady.                 *)
LEMMA RightLeft ==
    ASSUME EditInv, SteadyInv, WalkInv, EditorNext, Disturb, NEW q \in steady', NEW k, Right(q, k)
    PROVE  Right(q, k)'
<1>0. PICK o : o = LookupIn(at, q)
    OBVIOUS
<1>1. Lookup(q) = o /\ Lookup(q)' = o
  <2>1. q \in Seq(Name) /\ Below(q, q)
      BY SteadyLeft, BelowSelf
  <2>2. LookupIn(at', q) = o
      BY <1>0, <2>1, SteadyLeft
  <2> QED
      BY <1>0, <2>2, LookupNow, LookupThen
<1>2. o \in Object
  <2>1. at \in [Directory -> [Name -> used \cup {None}]] /\ used \subseteq Object /\ q \in Seq(Name) /\ Top \in used
      BY Parts, SteadyLeft DEF EditInv, InUse
  <2>2. Lookup(q) \in used \cup {None}
      BY <2>1, LookupType
  <2>3. q \in steady
      BY SteadyLeft
  <2>4. Lookup(q) # None
      BY <2>3 DEF SteadyInv
  <2> QED
      BY <1>1, <2>1, <2>2, <2>4
<1>3. UNCHANGED <<walk, reported>>
    BY DEF Disturb
<1>4. /\ reported[k][2] <=> o \in Directory
      /\ Du /\ ~reported[k][2] /\ (o \in Link \/ Unwritten(o)) => reported[k][3] = SizeOf(o)
    BY <1>1 DEF Right
<1>5. (o \in File => (Unwritten(o)' => Unwritten(o) /\ content'[o] = content[o]))
    BY UnwrittenKept
<1>6. ASSUME Du, ~reported[k][2], o \in Link \/ Unwritten(o)'
      PROVE  reported[k][3] = SizeOf(o)'
  <2>1. o \in File \/ o \in Link
      BY <1>2, <1>4, <1>6, Kinds
  <2>2. CASE o \in Link
    <3>1. SizeOf(o) = Len(Target[o]) /\ SizeOf(o)' = Len(Target[o])
        BY <2>2, Kinds DEF SizeOf
    <3> QED
        BY <1>4, <1>6, <2>2, <3>1
  <2>3. CASE o \in File
    <3>1. SizeOf(o) = Len(content[o]) /\ SizeOf(o)' = Len(content'[o])
        BY <2>3, Kinds DEF SizeOf
    <3>2. o \notin Link
        BY <2>3, Kinds
    <3> QED
        BY <1>4, <1>5, <1>6, <2>3, <3>1, <3>2
  <2> QED
      BY <2>1, <2>2, <2>3
<1>7. Du' = Du
    BY <1>3 DEF Du
<1>8. /\ reported'[k][2] <=> o \in Directory
      /\ Du' /\ ~reported'[k][2] /\ (o \in Link \/ Unwritten(o)') => reported'[k][3] = SizeOf(o)'
    BY <1>3, <1>4, <1>6, <1>7
<1>9. Unwritten(Lookup(q))' = Unwritten(o)' /\ SizeOf(Lookup(q))' = SizeOf(o)'
  <2>1. \A x : Lookup(q)' = x => /\ Unwritten(Lookup(q))' = Unwritten(x)'
                                 /\ SizeOf(Lookup(q))' = SizeOf(x)'
      BY DEF Unwritten, Writers, Overwriters, SizeOf
  <2> QED
      BY <1>1, <2>1
<1> QED
    BY <1>1, <1>8, <1>9 DEF Right

LEMMA DisturbTells ==
    ASSUME EditInv, TellInv, WalkInv, WalkInv', EditorNext, Disturb PROVE TellInv'
<1>1. /\ SteadyInv
      /\ UNCHANGED <<walk, step, here, usage, result, reported>>
    BY DEF Disturb, TellInv
<1>2. Du' = Du
    BY <1>1 DEF Du
<1>3. /\ Len(frames') = Len(frames) /\ Len(frames) \in Nat /\ Len(walk.path) \in Nat
      /\ \A k \in 1..Len(frames) :
            /\ frames[k] \in Frame /\ frames'[k] \in Frame
            /\ frames'[k].path = frames[k].path /\ frames'[k].dir = frames[k].dir
            /\ frames'[k].entries = frames[k].entries /\ frames'[k].status = frames[k].status
            /\ frames'[k].sure = frames[k].sure \ Changed(frames[k].dir)
            /\ frames'[k].returned = frames[k].returned \ Changed(frames[k].dir)
    BY DisturbedCalls, FrameTypes
<1>4. \A k \in 1..Len(frames) : \A n : Child(frames'[k], n) = Child(frames[k], n)
    BY <1>3 DEF Child
<1>5. /\ steady' \subseteq steady
      /\ \A q \in steady' : /\ q \in Seq(Name)
                            /\ \A a \in Seq(Name) : Below(a, q) => LookupIn(at', a) = LookupIn(at, a)
      /\ \A q \in steady' : \A a \in Seq(Name) :
             Len(walk.path) <= Len(a) /\ Below(a, q) => a \in steady'
    BY <1>1, SteadyLeft
<1>6. ASSUME NEW k \in 1..Len(frames), NEW n \in Name, Child(frames[k], n) \in steady'
      PROVE  /\ n \notin Changed(frames[k].dir) /\ LookupIn(at', frames[k].path) = frames[k].dir
             /\ n \in frames[k].sure /\ Once(frames[k], n)
  <2>1. Streamed(at, steady, frames[k])
      BY DEF TellInv, StreamInv
  <2> QED
      BY <1>1, <1>3, <1>6, <2>1, NameLeft
<1>7. ASSUME NEW k \in 1..Len(frames), NEW n \in Name, Child(frames[k], n) \in steady'
      PROVE  n \in Todo(Du, frames'[k]) <=> n \in Todo(Du, frames[k])
  <2>1. n \notin Changed(frames[k].dir)
      BY <1>6, <1>7
  <2> QED
      BY <1>3, <2>1 DEF Todo
<1>8. SteadyInv'
  <2> SUFFICES ASSUME NEW q \in steady'
               PROVE  /\ q \in Seq(Name) /\ Below(walk.path, q)
                      /\ \A a \in Seq(Name) : Len(walk.path) <= Len(a) /\ Below(a, q) =>
                            a \in steady' /\ (a # q => LookupIn(at', a) \in Directory)
                      /\ LookupIn(at', q) # None
      BY <1>1, LookupThen DEF SteadyInv, Rooted
  <2>1. q \in steady /\ q \in Seq(Name) /\ Below(q, q)
      BY <1>5, BelowSelf
  <2>2. /\ Below(walk.path, q) /\ LookupIn(at, q) # None
        /\ \A a \in Seq(Name) : Len(walk.path) <= Len(a) /\ Below(a, q) /\ a # q => LookupIn(at, a) \in Directory
      BY <1>1, <2>1, LookupNow DEF SteadyInv, Rooted
  <2> QED
      BY <1>5, <2>1, <2>2
<1>9. LineInv'
  <2>1. (frames = << >>) => (frames' = << >>)
      BY <1>3, EmptySeq, FrameTypes DEF WalkInv, FramesInv
  <2>2. steady = {} => steady' = {}
      BY <1>5
  <2> QED
      BY <1>1, <1>2, <1>3, <2>1, <2>2 DEF TellInv, LineInv
<1>10. ASSUME NEW k \in 1..Len(frames), NEW n \in Todo(Du, frames'[k]), Child(frames[k], n) \in steady'
       PROVE  n \in Name /\ n \in Todo(Du, frames[k]) /\ Child(frames[k], n) \in steady
  <2>1. n \in Name
      BY <1>3, TodoNames
  <2> QED
      BY <1>5, <1>7, <1>10, <2>1
<1>11. FreshInv'
  <2> SUFFICES ASSUME NEW k \in 1..Len(frames), NEW n \in Todo(Du, frames'[k]), Child(frames'[k], n) \in steady'
               PROVE  /\ \A l \in 1..Len(frames) : ~Below(Child(frames'[k], n), frames'[l].path)
                      /\ step \in Going => ~Below(Child(frames'[k], n), here)
      BY <1>1, <1>2, <1>3 DEF FreshInv, Going
  <2>1. n \in Todo(Du, frames[k]) /\ Child(frames[k], n) \in steady
      BY <1>4, <1>10
  <2>2. /\ \A l \in 1..Len(frames) : ~Below(Child(frames[k], n), frames[l].path)
        /\ step \in Going => ~Below(Child(frames[k], n), here)
      BY <2>1 DEF TellInv, FreshInv
  <2> QED
      BY <1>3, <1>4, <2>2
<1>12. StreamInv'
  <2> SUFFICES ASSUME NEW k \in 1..Len(frames), NEW n \in Name, Child(frames'[k], n) \in steady'
               PROVE  LookupIn(at', frames'[k].path) = frames'[k].dir /\ n \in frames'[k].sure /\ Once(frames'[k], n)
      BY <1>3 DEF StreamInv, Streamed
  <2>1. /\ n \notin Changed(frames[k].dir) /\ LookupIn(at', frames[k].path) = frames[k].dir
        /\ n \in frames[k].sure /\ Once(frames[k], n)
      BY <1>4, <1>6
  <2>2. Once(frames'[k], n)
      BY <1>3, <2>1 DEF Once
  <2> QED
      BY <1>3, <2>1, <2>2
<1>13. Clean' <=> Clean
    BY <1>1, <1>3 DEF Clean
<1>14. DrainedInv'
  <2> SUFFICES ASSUME Clean', NEW k \in 1..Len(frames), Drained(k)'
               PROVE  frames'[k].sure \subseteq frames'[k].returned
      BY <1>3 DEF DrainedInv
  <2>1. Drained(k)
      BY <1>1, <1>2, <1>3 DEF Drained
  <2>2. frames[k].sure \subseteq frames[k].returned
      BY <1>13, <2>1 DEF TellInv, DrainedInv
  <2> QED
      BY <1>3, <2>2
<1>15. ASSUME NEW q \in steady' PROVE Ahead(q)' <=> Ahead(q)
  <2>1. ASSUME NEW k \in 1..Len(frames), NEW n \in Name, Below(Child(frames[k], n), q)
        PROVE  n \in Todo(Du, frames'[k]) <=> n \in Todo(Du, frames[k])
    <3>1. Child(frames[k], n) \in Seq(Name) /\ Len(Child(frames[k], n)) = Len(frames[k].path) + 1
        BY <1>3, ChildType
    <3>2. Len(walk.path) <= Len(Child(frames[k], n))
      <4>1. Len(frames[k].path) = Len(walk.path) + k - 1
          BY DEF TellInv, LineInv
      <4> QED BY <1>3, <3>1, <4>1
    <3>3. Child(frames[k], n) \in steady'
        BY <1>5, <2>1, <3>1, <3>2
    <3> QED
        BY <1>7, <3>3
  <2>2. \A k \in 1..Len(frames) : Todo(Du, frames'[k]) \subseteq Name /\ Todo(Du, frames[k]) \subseteq Name
      BY <1>3, TodoNames
  <2>3. \A k \in 1..Len(frames) : AheadOf(Du, frames'[k], q) <=> AheadOf(Du, frames[k], q)
      BY <1>4, <2>1, <2>2 DEF AheadOf
  <2>4. AheadIn(q)' <=> AheadIn(q)
      BY <1>2, <1>3, <2>3 DEF AheadIn
  <2> QED
      BY <1>1, <2>4 DEF Ahead
<1>16. ToldInv'
  <2>1. \A q : Reports(q)' = Reports(q)
      BY <1>1 DEF Reports
  <2>2. \A q \in steady' : \A k : Right(q, k) => Right(q, k)'
      BY <1>1, RightLeft
  <2> SUFFICES ASSUME Clean', NEW q \in steady'
               PROVE  /\ Ahead(q)' => Reports(q)' = {}
                      /\ ~Ahead(q)' => \E k \in DOMAIN reported' : Reports(q)' = {k} /\ Right(q, k)'
      BY DEF ToldInv
  <2>3. q \in steady
      BY <1>5
  <2>4. /\ Ahead(q) => Reports(q) = {}
        /\ ~Ahead(q) => \E k \in DOMAIN reported : Reports(q) = {k} /\ Right(q, k)
      BY <1>13, <2>3 DEF TellInv, ToldInv
  <2> QED
      BY <1>1, <1>15, <2>1, <2>2, <2>4
<1>17. TotalInv'
    BY <1>1, <1>13, TotalSame DEF TellInv
<1> QED
    BY <1>8, <1>9, <1>11, <1>12, <1>14, <1>16, <1>17 DEF TellInv

LEMMA TellStutter ==
    ASSUME TellInv, WalkInv, WalkInv', UNCHANGED vars PROVE TellInv'
<1>1. UNCHANGED <<host, at, edit, walk, step, here, frames, usage, result, reported, steady>>
    BY DEF vars, host, walker
<1>2. Clean' <=> Clean
    BY <1>1 DEF Clean
<1>3. SteadyInv'
    BY <1>1, SteadySame DEF TellInv
<1>4. Du' = Du
    BY <1>1 DEF Du
<1>5. LineInv' /\ FreshInv' /\ StreamInv'
    BY <1>1, <1>4 DEF TellInv, LineInv, FreshInv, StreamInv
<1>6. DrainedInv'
    BY <1>1, <1>2, <1>4 DEF TellInv, DrainedInv, Drained
<1>7. \A q : Ahead(q)' <=> Ahead(q)
    BY <1>1, <1>4 DEF Ahead, AheadIn
<1>8. ToldInv'
    BY <1>1, <1>2, <1>7, ToldNothing DEF TellInv
<1>9. TotalInv'
    BY <1>1, <1>2, TotalSame DEF TellInv
<1> QED
    BY <1>3, <1>5, <1>6, <1>8, <1>9 DEF TellInv

LEMMA TellInit == Init => TellInv
<1> SUFFICES ASSUME Init PROVE TellInv
    OBVIOUS
<1>1. /\ step = "start" /\ here = walk.path /\ frames = << >> /\ reported = << >> /\ steady = {}
      /\ usage = [size |-> 0, files |-> 0, directories |-> 0]
    BY DEF Init, HostWalkInit
<1>2. Len(frames) = 0 /\ 1..0 = {} /\ Len(reported) = 0
    BY <1>1, EmptySeq
<1>3. SteadyInv /\ ToldInv
    BY <1>1 DEF SteadyInv, Rooted, ToldInv
<1>4. LineInv /\ FreshInv /\ StreamInv /\ DrainedInv
    BY <1>1, <1>2 DEF LineInv, FreshInv, StreamInv, DrainedInv, Going
<1>5. TotalInv
  <2>1. DOMAIN reported = {}
      BY <1>1
  <2>2. FileReports = {}
      BY <2>1 DEF FileReports
  <2>3. Sizes = << >>
    <3>1. Sizes = [k \in {} |-> reported[k][3]]
        BY <2>1 DEF Sizes
    <3> QED
        BY <3>1
  <2>4. TotalOf(Sizes) = 0 /\ Cardinality(FileReports) = 0
      BY <2>2, <2>3, TotalEmpty, FS_EmptySet
  <2> QED
      BY <1>1, <1>2, <2>4 DEF TotalInv
<1> QED
    BY <1>3, <1>4, <1>5 DEF TellInv

LEMMA TellNext ==
    ASSUME EditInv, WalkInv, WalkInv', TellInv, [Next]_vars PROVE TellInv'
<1>1. HostTypeOK
    BY DEF EditInv
<1>2. CASE EditorNext /\ Disturb
    BY <1>2, DisturbTells
<1>3. CASE HostWalkNext /\ UNCHANGED edit
    BY <1>1, <1>3, BeginTells, LstatFailsTells, CountFileTells, CountDirectoryTells, PrintEntryTells,
       ReadLinkTells, OpenDirTells, OpenDirFailsTells, ReadNameTells, ReaddirEndsTells, ReaddirFailsTells,
       CloseDirTells, NextEntryTells, EntriesEndTells, EntriesBreakTells DEF HostWalkNext
<1>4. CASE UNCHANGED vars
    BY <1>4, TellStutter
<1> QED
    BY <1>2, <1>3, <1>4 DEF Next

LEMMA ReportFollows == WalkInv /\ TellInv => ReportIsTrue
<1> SUFFICES ASSUME WalkInv, TellInv, step = "done", result = 0
             PROVE  /\ \A q \in steady :
                        /\ Cardinality(Reports(q)) = 1
                        /\ \A k \in Reports(q) : Right(q, k)
                    /\ Du => /\ usage.files = Cardinality(FileReports)
                             /\ usage.directories = Len(reported) - Cardinality(FileReports)
                             /\ usage.size = TotalOf(Sizes)
    BY DEF ReportIsTrue, Right
<1>1. frames = << >> /\ Len(frames) = 0
    BY EmptySeq DEF TellInv, LineInv
<1>2. Clean
    BY <1>1 DEF Clean
<1>3. ASSUME NEW q \in steady
      PROVE  Cardinality(Reports(q)) = 1 /\ \A k \in Reports(q) : Right(q, k)
  <2>1. ~Ahead(q)
      BY <1>1 DEF Ahead, AheadIn
  <2>2. PICK k \in DOMAIN reported : Reports(q) = {k} /\ Right(q, k)
      BY <1>2, <2>1 DEF TellInv, ToldInv
  <2>3. Cardinality({k}) = 1
      BY FS_Singleton
  <2> QED
      BY <2>2, <2>3
<1> QED
    BY <1>2, <1>3 DEF TellInv, TotalInv

(* A du or tree that returns 0 has reported every path that named the same *)
(* object all the time, once and for what it is, in every order of its     *)
(* steps and those of the edits; and du's totals are the sums of what it   *)
(* reported (calculate_disk_usage_recursive, print_tree_recursive).        *)
THEOREM ReportsTrue == Spec => []ReportIsTrue
<1> DEFINE Inv == EditInv /\ WalkInv /\ TellInv
<1>1. Init => Inv
    BY BothInvInit, TellInit
<1>2. Inv /\ [Next]_vars => Inv'
    BY BothInvNext, TellNext
<1>3. Inv => ReportIsTrue
    BY ReportFollows
<1> QED
    BY <1>1, <1>2, <1>3, PTL DEF Spec

-----------------------------------------------------------------------------
(* Totals of the same sizes in another order *)

(* The total of a sequence is its last partial sum.                        *)
LEMMA TotalUnfolds ==
    ASSUME NEW s \in Seq(Nat)
    PROVE  \E f : TotalOf(s) = f[Len(s)] /\ Unfolded(f, s, Len(s))
<1> DEFINE f == CHOOSE f : Summed(f, s, Len(s))
<1>1. TotalOf(s) = f[Len(s)]
    BY DEF TotalOf, Summed
<1>2. Len(s) \in Nat
    BY LenProperties
<1>3. Summed(f, s, Len(s))
    BY <1>2, SummedExists
<1> HIDE DEF f
<1> QED
    BY <1>1, <1>2, <1>3, SummedUnfolds

(* A size less takes it from the total.                                    *)
LEMMA TotalWithout ==
    ASSUME NEW t \in Seq(Nat), NEW j \in 1..Len(t)
    PROVE  /\ [t EXCEPT ![j] = 0] \in Seq(Nat)
           /\ Len([t EXCEPT ![j] = 0]) = Len(t)
           /\ TotalOf(t) = TotalOf([t EXCEPT ![j] = 0]) + t[j]
           /\ TotalOf([t EXCEPT ![j] = 0]) \in Nat
<1> DEFINE u == [t EXCEPT ![j] = 0]
           n == Len(t)
<1>1. n \in Nat /\ j \in 1..n /\ u \in Seq(Nat) /\ Len(u) = n
    BY LenProperties, ExceptSeq
<1>2. \A k \in 1..n : t[k] \in Nat /\ u[k] = IF k = j THEN 0 ELSE t[k]
    BY ElementOfSeq, ExceptSeq
<1>3. PICK f : TotalOf(t) = f[n] /\ Unfolded(f, t, n)
    BY TotalUnfolds
<1>4. PICK g : TotalOf(u) = g[n] /\ Unfolded(g, u, n)
    BY <1>1, TotalUnfolds
<1> HIDE DEF u, n
<1> DEFINE S == {k \in Nat : k <= n => g[k] \in Nat /\ f[k] = IF k < j THEN g[k] ELSE g[k] + t[j]}
<1>5. 0 \in S
    BY <1>1, <1>3, <1>4 DEF Unfolded
<1>6. ASSUME NEW k \in Nat, k \in S PROVE k + 1 \in S
  <2> SUFFICES ASSUME k + 1 <= n
               PROVE  g[k + 1] \in Nat /\ f[k + 1] = IF k + 1 < j THEN g[k + 1] ELSE g[k + 1] + t[j]
      OBVIOUS
  <2> DEFINE i == k + 1
  <2>1. i \in 1..n /\ i - 1 = k /\ k <= n /\ (i < j => k < j) /\ (i > j => ~(k < j)) /\ (i = j => k < j)
      BY <1>1
  <2>2. g[k] \in Nat /\ f[k] = IF k < j THEN g[k] ELSE g[k] + t[j]
      BY <1>6, <2>1
  <2> HIDE DEF S, i
  <2>3. f[i] = f[k] + t[i] /\ g[i] = g[k] + u[i]
      BY <1>3, <1>4, <2>1 DEF Unfolded
  <2>4. t[i] \in Nat /\ t[j] \in Nat /\ u[i] = IF i = j THEN 0 ELSE t[i]
      BY <1>1, <1>2, <2>1
  <2>5. i < j \/ i = j \/ i > j
      BY <1>1, <2>1
  <2>6. g[i] \in Nat /\ f[i] = IF i < j THEN g[i] ELSE g[i] + t[j]
    <3>1. CASE i < j
        BY <2>1, <2>2, <2>3, <2>4, <3>1
    <3>2. CASE i = j
        BY <2>1, <2>2, <2>3, <2>4, <3>2
    <3>3. CASE i > j
      <4>1. ~(k < j) /\ i # j /\ ~(i < j)
          BY <1>1, <2>1, <3>3
      <4> QED
          BY <2>2, <2>3, <2>4, <4>1
    <3> QED
        BY <2>5, <3>1, <3>2, <3>3
  <2> QED
      BY <2>6 DEF i
<1>7. Nat \subseteq S
  <2> HIDE DEF S
  <2> QED BY <1>5, <1>6, Induction
<1>8. g[n] \in Nat /\ f[n] = g[n] + t[j]
    BY <1>1, <1>7
<1> QED
    BY <1>1, <1>3, <1>4, <1>8 DEF u, n

LEMMA TotalType ==
    ASSUME NEW s \in Seq(Nat)
    PROVE  TotalOf(s) \in Nat
<1>1. Append(s, 0) \in Seq(Nat) /\ Len(Append(s, 0)) = Len(s) + 1 /\ \A k \in 1..Len(s) : Append(s, 0)[k] = s[k]
    BY AppendProperties
<1> QED
    BY <1>1, TotalGrows

(* What is not zero in s stands, at a place of its own, in t.              *)
Covered(h, s, t) ==
    /\ \A k \in 1..Len(s) : s[k] # 0 => h[k] \in 1..Len(t) /\ t[h[k]] = s[k]
    /\ \A k, l \in 1..Len(s) : s[k] # 0 /\ s[l] # 0 /\ h[k] = h[l] => k = l

(* Then the total of s is no greater.                                      *)
LEMMA TotalAtMost ==
    ASSUME NEW s \in Seq(Nat), NEW t \in Seq(Nat), NEW h, Covered(h, s, t)
    PROVE  TotalOf(s) <= TotalOf(t)
<1> DEFINE Fit(x, y) == Covered(h, x, y) => TotalOf(x) <= TotalOf(y)
           K == {n \in Nat : \A x \in Seq(Nat) : Len(x) = n => \A y \in Seq(Nat) : Fit(x, y)}
<1>1. \A x \in Seq(Nat) : TotalOf(x) \in Nat
    BY TotalType
<1>2. 0 \in K
  <2>1. ASSUME NEW x \in Seq(Nat), Len(x) = 0, NEW y \in Seq(Nat)
        PROVE  TotalOf(x) <= TotalOf(y)
    <3>1. x = << >>
        BY <2>1, EmptySeq
    <3> QED
        BY <1>1, <2>1, <3>1, TotalEmpty
  <2> QED
      BY <2>1
<1>3. ASSUME NEW n \in Nat, n \in K PROVE n + 1 \in K
  <2> SUFFICES ASSUME NEW x \in Seq(Nat), Len(x) = n + 1, NEW y \in Seq(Nat), Covered(h, x, y)
               PROVE  TotalOf(x) <= TotalOf(y)
      OBVIOUS
  <2> DEFINE w == SubSeq(x, 1, Len(x) - 1)
             e == n + 1
             j == h[e]
             z == [y EXCEPT ![j] = 0]
  <2>0. x # << >>
      BY EmptySeq
  <2>1. w \in Seq(Nat) /\ Len(w) = n /\ \A k \in 1..n : w[k] = x[k]
    <3>1. w \in Seq(Nat) /\ Len(w) = Len(x) - 1
        BY <2>0, Shorter
    <3>2. \A k \in 1..Len(x) : x[k] \in Nat
        BY ElementOfSeq
    <3>3. \A k \in 1..(Len(x) - 1 - 1 + 1) : w[k] = x[1 + k - 1]
        BY <2>0, <3>2, SubSeqProperties
    <3> HIDE DEF w
    <3> QED
        BY <3>1, <3>3
  <2>2. e \in 1..e /\ e \in Nat /\ Len(x) = e /\ e = n + 1 /\ \A k \in 1..n : k \in 1..e /\ k # e
      OBVIOUS
  <2>3. TotalOf(x) = TotalOf(w) + x[e] /\ TotalOf(w) \in Nat /\ TotalOf(y) \in Nat /\ x[e] \in Nat
    <3>1. TotalOf(x) = TotalOf(w) + x[Len(x)] /\ TotalOf(w) \in Nat
      <4> HIDE DEF w
      <4> QED BY <2>1, TotalGrows
    <3> QED
        BY <1>1, <2>2, <3>1, ElementOfSeq
  <2> HIDE DEF w, e
  <2>4. CASE x[e] = 0
    <3>1. Covered(h, w, y)
        BY <2>1, <2>2 DEF Covered
    <3>2. TotalOf(w) <= TotalOf(y)
        BY <1>3, <2>1, <3>1
    <3> QED
        BY <2>3, <2>4, <3>2
  <2>5. CASE x[e] # 0
    <3>1. j \in 1..Len(y) /\ y[j] = x[e]
        BY <2>2, <2>5 DEF Covered
    <3>2. /\ z \in Seq(Nat) /\ Len(z) = Len(y) /\ TotalOf(y) = TotalOf(z) + x[e] /\ TotalOf(z) \in Nat
        BY <3>1, TotalWithout
    <3>3. \A i \in 1..Len(y) : i # j => z[i] = y[i]
        BY <3>1, ExceptSeq, ElementOfSeq
    <3>4. \A k \in 1..n : w[k] # 0 => h[k] \in 1..Len(y) /\ y[h[k]] = w[k] /\ h[k] # j
        BY <2>1, <2>2, <2>5 DEF Covered
    <3>5. \A k, l \in 1..n : w[k] # 0 /\ w[l] # 0 /\ h[k] = h[l] => k = l
        BY <2>1, <2>2 DEF Covered
    <3> HIDE DEF z, j
    <3>6. Covered(h, w, z)
        BY <2>1, <3>2, <3>3, <3>4, <3>5 DEF Covered
    <3>7. TotalOf(w) <= TotalOf(z)
        BY <1>3, <2>1, <3>2, <3>6
    <3> QED
        BY <2>3, <3>2, <3>7
  <2> QED
      BY <2>4, <2>5
<1>4. Nat \subseteq K
  <2> HIDE DEF K
  <2> QED BY <1>2, <1>3, Induction
<1>5. Len(s) \in Nat
    BY LenProperties
<1> QED
    BY <1>4, <1>5

-----------------------------------------------------------------------------
(* The paths of a tree that does not change *)

(* One round finds finitely many more.                                     *)
LEMMA DeeperFinite ==
    ASSUME NEW S, IsFiniteSet(S)
    PROVE  IsFiniteSet(Deeper(S))
<1> DEFINE dirs == {q \in S : Lookup(q) \in Directory}
           P == dirs \X Name
           more == {Append(q, m) : q \in dirs, m \in Name}
           f == [x \in P |-> Append(x[1], x[2])]
<1>1. IsFiniteSet(P)
  <2>1. IsFiniteSet(dirs)
      BY FS_Subset
  <2>2. IsFiniteSet(Name)
      BY HostShapeAssumption
  <2> QED
      BY <2>1, <2>2, FS_Product
<1>2. f \in Surjection(P, more)
  <2>1. f \in [P -> more]
      OBVIOUS
  <2>2. \A y \in more : \E x \in P : f[x] = y
    <3> TAKE y \in more
    <3>1. PICK q \in dirs, m \in Name : y = Append(q, m)
        OBVIOUS
    <3>2. <<q, m>> \in P /\ f[<<q, m>>] = y
        BY <3>1
    <3> QED BY <3>2
  <2> HIDE DEF f, more, P
  <2> QED
      BY <2>1, <2>2 DEF Surjection
<1>3. IsFiniteSet(more)
    BY <1>1, <1>2, FS_Surjection
<1> HIDE DEF more
<1>4. IsFiniteSet(S \cup more)
    BY <1>3, FS_Union
<1> QED
    BY <1>4 DEF Deeper, more

(* The rounds by which the paths are found.                                *)
LEMMA Rounds ==
    ASSUME NEW path
    PROVE  LET c == Cardinality(Directory)
           IN  \E f : /\ c \in Nat /\ PathsFrom(path) = Named(f[c])
                      /\ f[0] = {path} /\ \A k \in 1..c : f[k] = Deeper(f[k - 1])
<1> DEFINE c == Cardinality(Directory)
           f == CHOOSE f : Grown(f, path, c)
<1>1. c \in Nat
    BY FS_CardinalityType, HostWalkAssumption
<1>2. PathsFrom(path) = Named(f[c])
    BY DEF PathsFrom, Grown, Deeper, Named
<1>3. Grown(f, path, c)
  <2> HIDE DEF c
  <2>1. \E g : Grown(g, path, c)
      BY <1>1, GrownExists
  <2> QED BY <2>1
<1> HIDE DEF f, c
<1>4. f[0] = {path} /\ \A k \in 1..c : f[k] = Deeper(f[k - 1])
    BY <1>1, <1>3, GrownUnfolds
<1> QED
    BY <1>1, <1>2, <1>4 DEF c

(* There are finitely many paths.                                          *)
LEMMA PathsFinite ==
    ASSUME NEW path
    PROVE  IsFiniteSet(PathsFrom(path))
<1> DEFINE c == Cardinality(Directory)
<1>1. PICK f : /\ c \in Nat /\ PathsFrom(path) = Named(f[c])
               /\ f[0] = {path} /\ \A k \in 1..c : f[k] = Deeper(f[k - 1])
    BY Rounds
<1> HIDE DEF c
<1> DEFINE S == {k \in Nat : k <= c => IsFiniteSet(f[k])}
<1>2. 0 \in S
    BY <1>1, FS_Singleton
<1>3. ASSUME NEW k \in Nat, k \in S PROVE k + 1 \in S
  <2> SUFFICES ASSUME k + 1 <= c PROVE IsFiniteSet(f[k + 1])
      OBVIOUS
  <2> DEFINE i == k + 1
  <2>1. i \in 1..c /\ i - 1 = k /\ k <= c
      BY <1>1
  <2>2. IsFiniteSet(f[k])
      BY <1>3, <2>1
  <2> HIDE DEF S, i
  <2>3. f[i] = Deeper(f[k])
      BY <1>1, <2>1
  <2> QED
      BY <2>2, <2>3, DeeperFinite DEF i
<1>4. Nat \subseteq S
  <2> HIDE DEF S
  <2> QED BY <1>2, <1>3, Induction
<1>5. IsFiniteSet(f[c])
    BY <1>1, <1>4
<1> HIDE DEF S
<1> QED
    BY <1>1, <1>5, FS_Subset DEF Named

(* Each round keeps what was found.                                        *)
LEMMA RoundsGrow ==
    ASSUME NEW c \in Nat, NEW f, \A k \in 1..c : f[k] = Deeper(f[k - 1])
    PROVE  \A k \in 0..c : \A m \in 0..k : f[m] \subseteq f[k]
<1> DEFINE S == {k \in Nat : k <= c => \A m \in 0..k : f[m] \subseteq f[k]}
<1>1. 0 \in S
    OBVIOUS
<1>2. ASSUME NEW k \in Nat, k \in S PROVE k + 1 \in S
  <2> SUFFICES ASSUME k + 1 <= c PROVE \A m \in 0..(k + 1) : f[m] \subseteq f[k + 1]
      OBVIOUS
  <2> DEFINE i == k + 1
  <2>1. i \in 1..c /\ i - 1 = k /\ k <= c /\ \A m \in 0..i : m \in 0..k \/ m = i
      OBVIOUS
  <2>2. \A m \in 0..k : f[m] \subseteq f[k]
      BY <1>2, <2>1
  <2> HIDE DEF S, i
  <2>3. f[k] \subseteq f[i]
      BY <2>1 DEF Deeper
  <2>4. \A m \in 0..i : f[m] \subseteq f[i]
      BY <2>1, <2>2, <2>3
  <2> QED
      BY <2>4 DEF i
<1>3. Nat \subseteq S
  <2> HIDE DEF S
  <2> QED BY <1>1, <1>2, Induction
<1> QED
    BY <1>3

(* The tree at the beginning has no cycle, so every directory is found     *)
(* before the last round, and its names are paths too.                     *)
LEMMA PathsClosed ==
    ASSUME at = Tree, NEW path \in Seq(Name), NEW p \in PathsFrom(path), NEW n \in Name,
           Lookup(p) \in Directory, at[Lookup(p)][n] # None
    PROVE  Under(p, n) \in PathsFrom(path)
<1> DEFINE c == Cardinality(Directory)
<1>1. PICK f : /\ c \in Nat /\ PathsFrom(path) = Named(f[c])
               /\ f[0] = {path} /\ \A k \in 1..c : f[k] = Deeper(f[k - 1])
    BY Rounds
<1>2. PICK level \in [Directory -> 1..c] :
          \A d, e \in Directory, m \in Name : Tree[d][m] = e => level[d] < level[e]
    BY HostShapeAssumption
<1> HIDE DEF c
<1>3. \A k \in 0..c : \A m \in 0..k : f[m] \subseteq f[k]
    BY <1>1, RoundsGrow
<1>4. \A k \in 1..c : \A q \in f[k] :
          q \in f[k - 1] \/ \E a \in f[k - 1], m \in Name : q = Under(a, m) /\ Lookup(a) \in Directory
    BY <1>1 DEF Deeper, Under
<1>5. \A k \in 0..c : f[k] \subseteq Seq(Name)
  <2> DEFINE S == {k \in Nat : k <= c => f[k] \subseteq Seq(Name)}
  <2>1. 0 \in S
      BY <1>1
  <2>2. ASSUME NEW k \in Nat, k \in S PROVE k + 1 \in S
    <3> SUFFICES ASSUME k + 1 <= c PROVE f[k + 1] \subseteq Seq(Name)
        OBVIOUS
    <3> DEFINE i == k + 1
    <3>1. i \in 1..c /\ i - 1 = k /\ k <= c
        BY <1>1
    <3>2. f[k] \subseteq Seq(Name)
        BY <2>2, <3>1
    <3> HIDE DEF S, i
    <3>3. ASSUME NEW q \in f[i] PROVE q \in Seq(Name)
      <4>1. CASE q \in f[k]
          BY <3>2, <4>1
      <4>2. CASE q \notin f[k]
        <5>1. PICK a \in f[k], m \in Name : q = Under(a, m)
            BY <1>4, <3>1, <4>2
        <5>2. a \in Seq(Name)
            BY <3>2
        <5> QED
            BY <5>1, <5>2, UnderType
      <4> QED
          BY <4>1, <4>2
    <3> QED
        BY <3>3 DEF i
  <2>3. Nat \subseteq S
    <3> HIDE DEF S
    <3> QED BY <2>1, <2>2, Induction
  <2> QED
      BY <2>3
<1> DEFINE Early(q) == \E m \in Nat : m + 1 <= level[Lookup(q)] /\ q \in f[m]
           S == {k \in Nat : k <= c => \A q \in f[k] : Lookup(q) \in Directory => Early(q)}
<1>6. 0 \in S
  <2>1. ASSUME NEW q \in f[0], Lookup(q) \in Directory PROVE Early(q)
    <3>1. level[Lookup(q)] \in 1..c
        BY <1>2, <2>1
    <3>2. 0 + 1 <= level[Lookup(q)]
        BY <1>1, <3>1
    <3> QED BY <3>2
  <2> QED BY <2>1
<1>7. ASSUME NEW k \in Nat, k \in S PROVE k + 1 \in S
  <2> SUFFICES ASSUME k + 1 <= c, NEW q \in f[k + 1], Lookup(q) \in Directory PROVE Early(q)
      OBVIOUS
  <2> DEFINE i == k + 1
  <2>1. i \in 1..c /\ i - 1 = k /\ k <= c /\ k \in 0..c /\ q \in f[i]
      BY <1>1
  <2>2. \A a \in f[k] : Lookup(a) \in Directory => Early(a)
      BY <1>7, <2>1
  <2> HIDE DEF S, i
  <2>3. CASE q \in f[k]
      BY <2>2, <2>3
  <2>4. CASE q \notin f[k]
    <3>1. PICK a \in f[k], m \in Name : q = Under(a, m) /\ Lookup(a) \in Directory
        BY <1>4, <2>1, <2>4
    <3>2. PICK j \in Nat : j + 1 <= level[Lookup(a)] /\ a \in f[j]
        BY <2>2, <3>1
    <3>3. Lookup(q) = at[Lookup(a)][m]
      <4>1. a \in Seq(Name)
          BY <1>5, <2>1
      <4>2. LookupIn(at, q) = IF LookupIn(at, a) \in Directory THEN at[LookupIn(at, a)][m] ELSE None
          BY <3>1, <4>1, LookupUnder
      <4> QED
          BY <3>1, <4>2, LookupNow
    <3>4. level[Lookup(a)] < level[Lookup(q)] /\ level[Lookup(a)] \in 1..c /\ level[Lookup(q)] \in 1..c
        BY <1>2, <3>1, <3>3
    <3> DEFINE e == j + 1
    <3>5. e \in 1..c /\ e - 1 = j /\ e \in Nat /\ e + 1 <= level[Lookup(q)]
        BY <1>1, <3>2, <3>4
    <3> HIDE DEF e
    <3>6. f[e] = Deeper(f[j])
        BY <1>1, <3>5
    <3>7. q \in f[e]
        BY <3>1, <3>2, <3>6 DEF Deeper, Under
    <3> QED
        BY <3>5, <3>7
  <2> QED
      BY <2>3, <2>4
<1>8. Nat \subseteq S
  <2> HIDE DEF S
  <2> QED BY <1>6, <1>7, Induction
<1>9. p \in f[c]
    BY <1>1 DEF Named
<1>10. Early(p)
    BY <1>1, <1>8, <1>9
<1> HIDE DEF S
<1>11. PICK j \in Nat : j + 1 <= level[Lookup(p)] /\ p \in f[j]
    BY <1>10
<1> DEFINE e == j + 1
<1>12. e \in 1..c /\ e - 1 = j /\ e \in 0..c /\ c \in 0..c
  <2>1. level[Lookup(p)] \in 1..c
      BY <1>2
  <2> QED
      BY <1>1, <1>11, <2>1
<1> HIDE DEF e
<1>13. Under(p, n) \in f[e]
  <2>1. f[e] = Deeper(f[j])
      BY <1>1, <1>12
  <2> QED
      BY <1>11, <2>1 DEF Deeper, Under
<1>14. Under(p, n) \in f[c]
    BY <1>3, <1>12, <1>13
<1>15. Lookup(Under(p, n)) = at[Lookup(p)][n]
  <2>1. p \in Seq(Name)
      BY PathsAreSequences
  <2>2. LookupIn(at, Under(p, n)) = IF LookupIn(at, p) \in Directory THEN at[LookupIn(at, p)][n] ELSE None
      BY <2>1, LookupUnder
  <2> QED
      BY <2>2, LookupNow
<1> QED
    BY <1>1, <1>14, <1>15 DEF Named

(* A path that names an object is found.                                   *)
LEMMA PathItself ==
    ASSUME NEW path, Lookup(path) # None
    PROVE  path \in PathsFrom(path)
<1> DEFINE c == Cardinality(Directory)
<1>1. PICK f : /\ c \in Nat /\ PathsFrom(path) = Named(f[c])
               /\ f[0] = {path} /\ \A k \in 1..c : f[k] = Deeper(f[k - 1])
    BY Rounds
<1> HIDE DEF c
<1>2. f[0] \subseteq f[c]
  <2>1. c \in 0..c /\ 0 \in 0..c
      BY <1>1
  <2> QED
      BY <1>1, <2>1, RoundsGrow
<1> QED
    BY <1>1, <1>2 DEF Named

-----------------------------------------------------------------------------
(* A tree nobody changes *)

(* What a call does is in the tree.                                        *)
Settled(tree, paths, f) ==
    /\ f.path \in paths /\ f.dir = LookupIn(tree, f.path)
    /\ \A n \in f.listed : tree[f.dir][n] # None
    /\ \A i \in 1..Len(f.entries) : tree[f.dir][f.entries[i]] # None

(* The path at hand names what the walk has seen there.                    *)
HereInv ==
    /\ step \in Going => here \in steady \/ (here = walk.path /\ LookupIn(at, here) = None)
    /\ step = "opendir" => LookupIn(at, here) \in Directory
    /\ step = "readlink" => LookupIn(at, here) \in Link

(* All that is steady are the paths of the tree at the beginning, and only *)
(* these are walked and reported.                                          *)
QuietInv ==
    /\ \A k \in DOMAIN reported : reported[k][2] => reported[k][3] = 0
    /\ Quiet =>
        /\ at = Tree
        /\ step # "start" => steady = PathsFrom(walk.path)
        /\ HereInv
        /\ \A k \in 1..Len(frames) : Settled(at, steady, frames[k])
        /\ \A k \in DOMAIN reported : reported[k][1] \in steady

(* A failure that has been noted has its reason.                           *)
Reason == LookupIn(at, walk.path) = None \/ (Du /\ TooMuch)
ReasonInv == Quiet /\ faults = 0 /\ ~Clean => Reason

LEMMA PathsThen ==
    ASSUME UNCHANGED <<at, walk>>
    PROVE  PathsFrom(walk.path)' = PathsFrom(walk.path)
<1> DEFINE p == walk.path
<1>1. p' = p
    OBVIOUS
<1> QED
    BY <1>1 DEF PathsFrom, Lookup

LEMMA TooMuchNow ==
    ASSUME UNCHANGED <<at, content, walk>>
    PROVE  TooMuch' <=> TooMuch
<1>2. PathsFrom(walk.path)' = PathsFrom(walk.path)
    BY PathsThen
<1>3. \A q : Lookup(q)' = Lookup(q)
    BY LookupNow, LookupThen
<1>4. \A o : SizeOf(o)' = SizeOf(o)
    BY DEF SizeOf
<1> QED
    BY <1>2, <1>3, <1>4 DEF TooMuch

(* A finite set as a sequence.                                             *)
LEMMA Listed ==
    ASSUME NEW S, IsFiniteSet(S)
    PROVE  /\ SetToSeq(S) \in Seq(S) /\ Len(SetToSeq(S)) = Cardinality(S) /\ Cardinality(S) \in Nat
           /\ \A x \in S : \E i \in 1..Cardinality(S) : SetToSeq(S)[i] = x
           /\ \A i, j \in 1..Cardinality(S) : SetToSeq(S)[i] = SetToSeq(S)[j] => i = j
<1> DEFINE n == Cardinality(S)
           s == SetToSeq(S)
<1>1. n \in Nat /\ ExistsBijection(1..n, S)
    BY FS_CardinalityType
<1>2. s \in Injection(1..n, S)
  <2>1. \E f \in [1..n -> S] : IsInjective(f)
      BY <1>1 DEF ExistsBijection, Bijection, Injection
  <2> QED
      BY <2>1 DEF SetToSeq, Injection
<1>3. s \in Surjection(1..n, S)
  <2>1. Cardinality(1..n) = n
      BY <1>1, FS_Interval
  <2> HIDE DEF s
  <2> QED
      BY <1>2, <2>1, FS_Injection
<1> HIDE DEF s
<1>4. s \in [1..n -> S] /\ \A x \in S : \E i \in 1..n : s[i] = x
    BY <1>3 DEF Surjection
<1>5. s \in Seq(S) /\ Len(s) = n
  <2> HIDE DEF n
  <2>1. s \in Seq(S)
      BY <1>1, <1>4, SeqDef
  <2> QED
      BY <1>1, <1>4, <2>1, LenProperties
<1>6. \A i, j \in 1..n : s[i] = s[j] => i = j
    BY <1>2 DEF Injection, IsInjective
<1> QED
    BY <1>1, <1>4, <1>5, <1>6 DEF s

(* More elements than one set has, told apart by g, are more than it has.  *)
LEMMA Injected ==
    ASSUME NEW K, NEW S, IsFiniteSet(K), IsFiniteSet(S), NEW x \in S, NEW g,
           \A k \in K : g[k] \in S /\ g[k] # x,
           \A k, l \in K : g[k] = g[l] => k = l
    PROVE  Cardinality(K) + 1 <= Cardinality(S) /\ Cardinality(K) \in Nat /\ Cardinality(S) \in Nat
<1> DEFINE T == S \ {x}
           f == [k \in K |-> g[k]]
<1>1. IsFiniteSet(T) /\ Cardinality(T) = Cardinality(S) - 1
    BY FS_RemoveElement
<1>2. f \in Injection(K, T)
    BY DEF Injection, IsInjective
<1> HIDE DEF f, T
<1>3. Cardinality(K) <= Cardinality(T)
    BY <1>1, <1>2, FS_Injection
<1>4. Cardinality(K) \in Nat /\ Cardinality(S) \in Nat
    BY FS_CardinalityType
<1> QED
    BY <1>1, <1>3, <1>4

(* Before the walk reports the path at hand it has reported others, each   *)
(* once and rightly.                                                       *)
LEMMA Others ==
    ASSUME TellInv, WalkInv, QuietInv, Quiet, Clean, step = "lstat", here \in steady
    PROVE  /\ \A k \in DOMAIN reported :
                  reported[k][1] \in steady /\ reported[k][1] # here /\ Right(reported[k][1], k)
           /\ \A k, l \in DOMAIN reported : reported[k][1] = reported[l][1] => k = l
<1>1. here \in Seq(Name)
    BY DEF WalkInv, CountInv
<1>2. Ahead(here)
    BY <1>1, BelowSelf DEF Ahead
<1>3. Reports(here) = {}
    BY <1>2 DEF TellInv, ToldInv
<1>4. ASSUME NEW k \in DOMAIN reported
      PROVE  /\ reported[k][1] \in steady /\ reported[k][1] # here
             /\ Reports(reported[k][1]) = {k} /\ Right(reported[k][1], k)
  <2> DEFINE q == reported[k][1]
  <2>1. q \in steady /\ k \in Reports(q)
      BY DEF QuietInv, Reports
  <2>2. ~Ahead(q)
      BY <2>1 DEF TellInv, ToldInv
  <2>3. PICK l \in DOMAIN reported : Reports(q) = {l} /\ Right(q, l)
      BY <2>1, <2>2 DEF TellInv, ToldInv
  <2> QED
      BY <1>3, <2>1, <2>3
<1>5. ASSUME NEW k \in DOMAIN reported, NEW l \in DOMAIN reported, reported[k][1] = reported[l][1]
      PROVE  k = l
  <2>1. Reports(reported[k][1]) = {k} /\ Reports(reported[l][1]) = {l}
      BY <1>4
  <2> QED
      BY <1>5, <2>1
<1> QED
    BY <1>4, <1>5

(* The paths that are no directories, and the others.                      *)
Leaves == {q \in PathsFrom(walk.path) : Lookup(q) \notin Directory}

LEMMA LeavesFinite ==
    /\ IsFiniteSet(PathsFrom(walk.path)) /\ IsFiniteSet(Leaves)
    /\ IsFiniteSet(PathsFrom(walk.path) \ Leaves)
    /\ Cardinality(PathsFrom(walk.path) \ Leaves) = Cardinality(PathsFrom(walk.path)) - Cardinality(Leaves)
<1>1. IsFiniteSet(PathsFrom(walk.path))
    BY PathsFinite
<1>2. Leaves \subseteq PathsFrom(walk.path)
    BY DEF Leaves
<1>3. IsFiniteSet(Leaves)
    BY <1>1, <1>2, FS_Subset
<1>4. PathsFrom(walk.path) \cap Leaves = Leaves
    BY <1>2
<1> QED
    BY <1>1, <1>3, <1>4, FS_Difference

LEMMA TooMuchIs ==
    TooMuch <=> \/ Cardinality(Leaves) > MaxTotal
                \/ Cardinality(PathsFrom(walk.path)) - Cardinality(Leaves) > MaxTotal
                \/ TotalOf([k \in DOMAIN SetToSeq(Leaves) |-> SizeOf(Lookup(SetToSeq(Leaves)[k]))]) > MaxTotal
<1>1. Len(SetToSeq(Leaves)) = Cardinality(Leaves)
    BY LeavesFinite, Listed
<1> QED
    BY <1>1 DEF TooMuch, Leaves

(* A count that does not fit one more is too much.                         *)
LEMMA TooManyFiles ==
    ASSUME TellInv, WalkInv, QuietInv, Quiet, Clean, Du, step = "lstat", here \in steady,
           steady = PathsFrom(walk.path), Lookup(here) \notin Directory, ~Fits(usage.files, 1)
    PROVE  TooMuch
<1> DEFINE g == [k \in DOMAIN reported |-> reported[k][1]]
<1>1. FileReports \subseteq DOMAIN reported
    BY DEF FileReports
<1>2. IsFiniteSet(FileReports)
  <2>1. reported \in Seq(Seq(Name) \X BOOLEAN \X Nat)
      BY DEF WalkInv, CountInv
  <2>2. DOMAIN reported = 1..Len(reported) /\ Len(reported) \in Nat
      BY <2>1, LenProperties
  <2>3. IsFiniteSet(1..Len(reported))
      BY <2>2, FS_Interval
  <2> QED
      BY <1>1, <2>2, <2>3, FS_Subset
<1>3. \A k \in FileReports : g[k] \in Leaves /\ g[k] # here
    BY <1>1, Others DEF Leaves, FileReports, Right
<1>4. \A k, l \in FileReports : g[k] = g[l] => k = l
    BY <1>1, Others
<1>5. here \in Leaves /\ IsFiniteSet(Leaves)
    BY LeavesFinite DEF Leaves
<1> HIDE DEF g
<1>6. Cardinality(FileReports) + 1 <= Cardinality(Leaves) /\ Cardinality(FileReports) \in Nat
      /\ Cardinality(Leaves) \in Nat
    BY <1>2, <1>3, <1>4, <1>5, Injected
<1>7. usage.files = Cardinality(FileReports)
    BY DEF TellInv, TotalInv
<1>8. Cardinality(Leaves) > MaxTotal
    BY <1>6, <1>7, HostWalkAssumption DEF Fits
<1> QED
    BY <1>8, TooMuchIs

LEMMA TooManyDirectories ==
    ASSUME TellInv, WalkInv, QuietInv, Quiet, Clean, Du, step = "lstat", here \in steady,
           steady = PathsFrom(walk.path), Lookup(here) \in Directory, ~Fits(usage.directories, 1)
    PROVE  TooMuch
<1> DEFINE g == [k \in DOMAIN reported |-> reported[k][1]]
           D == DOMAIN reported \ FileReports
           S == PathsFrom(walk.path) \ Leaves
<1>1. FileReports \subseteq DOMAIN reported
    BY DEF FileReports
<1>2. IsFiniteSet(D) /\ Cardinality(D) = Len(reported) - Cardinality(FileReports)
  <2>1. reported \in Seq(Seq(Name) \X BOOLEAN \X Nat)
      BY DEF WalkInv, CountInv
  <2>2. DOMAIN reported = 1..Len(reported) /\ Len(reported) \in Nat
      BY <2>1, LenProperties
  <2>3. IsFiniteSet(1..Len(reported)) /\ Cardinality(1..Len(reported)) = Len(reported)
      BY <2>2, FS_Interval
  <2> DEFINE R == DOMAIN reported
  <2>4. IsFiniteSet(R) /\ Cardinality(R) = Len(reported) /\ R \cap FileReports = FileReports
      BY <1>1, <2>2, <2>3
  <2>5. D = R \ FileReports
      OBVIOUS
  <2> HIDE DEF R, D
  <2>6. /\ IsFiniteSet(R \ FileReports)
        /\ Cardinality(R \ FileReports) = Cardinality(R) - Cardinality(R \cap FileReports)
      BY <2>4, FS_Difference
  <2> QED
      BY <2>4, <2>5, <2>6
<1>3. \A k \in D : g[k] \in S /\ g[k] # here
    BY Others DEF Leaves, FileReports, Right
<1>4. \A k, l \in D : g[k] = g[l] => k = l
    BY Others
<1>5. here \in S /\ IsFiniteSet(S)
    BY LeavesFinite DEF Leaves
<1> HIDE DEF g, D, S
<1>6. Cardinality(D) + 1 <= Cardinality(S) /\ Cardinality(D) \in Nat /\ Cardinality(S) \in Nat
    BY <1>2, <1>3, <1>4, <1>5, Injected
<1>7. usage.directories = Cardinality(D)
    BY <1>2 DEF TellInv, TotalInv
<1>8. Cardinality(S) > MaxTotal
    BY <1>6, <1>7, HostWalkAssumption DEF Fits
<1>9. Cardinality(PathsFrom(walk.path)) - Cardinality(Leaves) > MaxTotal
    BY <1>8, LeavesFinite DEF S
<1> QED
    BY <1>9, TooMuchIs

(* The sizes of all that is no directory.                                  *)
LeafSizes == [k \in DOMAIN SetToSeq(Leaves) |-> SizeOf(Lookup(SetToSeq(Leaves)[k]))]

LEMMA LeafTypes ==
    ASSUME EditInv, WalkInv
    PROVE  LET files == SetToSeq(Leaves)
               n == Cardinality(Leaves)
           IN  /\ n \in Nat /\ Len(files) = n /\ \A i \in 1..n : files[i] \in Leaves
               /\ \A p \in Leaves : \E i \in 1..n : files[i] = p
               /\ \A i, j \in 1..n : files[i] = files[j] => i = j
               /\ \A p \in Leaves : SizeOf(Lookup(p)) \in Nat /\ Lookup(p) \in File \cup Link
               /\ LeafSizes \in Seq(Nat) /\ Len(LeafSizes) = n
               /\ \A i \in 1..n : LeafSizes[i] = SizeOf(Lookup(files[i]))
<1> DEFINE files == SetToSeq(Leaves)
           n == Cardinality(Leaves)
<1>1. \A p \in Leaves : SizeOf(Lookup(p)) \in Nat /\ Lookup(p) \in File \cup Link
  <2> TAKE p \in Leaves
  <2>1. walk.path \in Seq(Name)
      BY FrameTypes
  <2>2. p \in Seq(Name) /\ Lookup(p) # None /\ Lookup(p) \notin Directory
      BY <2>1, PathsRooted, PathsAreSequences DEF Leaves
  <2>3. Lookup(p) \in Object \cup {None} /\ HostTypeOK
      BY <2>2, LookupObject DEF EditInv
  <2>4. Lookup(p) \in File \cup Link
      BY <2>2, <2>3, Kinds
  <2> QED
      BY <2>3, <2>4, SizeType
<1>2. /\ n \in Nat /\ files \in Seq(Leaves) /\ Len(files) = n
      /\ \A p \in Leaves : \E i \in 1..n : files[i] = p
      /\ \A i, j \in 1..n : files[i] = files[j] => i = j
    BY LeavesFinite, Listed
<1> HIDE DEF files, n
<1>3. DOMAIN files = 1..n /\ \A i \in 1..n : files[i] \in Leaves
    BY <1>2, LenProperties, ElementOfSeq
<1>4. LeafSizes = [k \in 1..n |-> SizeOf(Lookup(files[k]))]
    BY <1>3 DEF LeafSizes, files
<1>5. LeafSizes \in [1..n -> Nat]
    BY <1>1, <1>3, <1>4
<1>6. LeafSizes \in Seq(Nat)
    BY <1>2, <1>5, SeqDef
<1>7. Len(LeafSizes) = n
    BY <1>2, <1>5, <1>6, LenProperties
<1> QED
    BY <1>1, <1>2, <1>3, <1>4, <1>6, <1>7 DEF files, n

LEMMA SizesTypes ==
    ASSUME WalkInv
    PROVE  /\ Len(reported) \in Nat /\ DOMAIN reported = 1..Len(reported)
           /\ Sizes \in Seq(Nat) /\ Len(Sizes) = Len(reported)
           /\ \A k \in 1..Len(reported) : Sizes[k] = reported[k][3]
<1> DEFINE m == Len(reported)
<1>1. /\ m \in Nat /\ DOMAIN reported = 1..m
      /\ \A k \in 1..m : reported[k][3] \in Nat
  <2>1. reported \in Seq(Seq(Name) \X BOOLEAN \X Nat)
      BY DEF WalkInv, CountInv
  <2>2. \A k \in 1..m : reported[k] \in Seq(Name) \X BOOLEAN \X Nat
      BY <2>1, ElementOfSeq
  <2> QED
      BY <2>1, <2>2, LenProperties
<1> HIDE DEF m
<1>2. Sizes \in [1..m -> Nat] /\ \A k \in 1..m : Sizes[k] = reported[k][3]
    BY <1>1 DEF Sizes
<1>3. Sizes \in Seq(Nat)
    BY <1>1, <1>2, SeqDef
<1>4. Len(Sizes) = m
    BY <1>1, <1>2, <1>3, LenProperties
<1> QED
    BY <1>1, <1>2, <1>3, <1>4 DEF m

(* What du has reported of a file nobody wrote is its size.                *)
LEMMA RightSize ==
    ASSUME EditInv, Quiet, Du, NEW k, NEW q, Right(q, k), ~reported[k][2], Lookup(q) \in File \cup Link
    PROVE  reported[k][3] = SizeOf(Lookup(q))
<1>1. \A p \in Process : Quiet => pc[p] = "start" \/ command[p].op = "read"
    BY DEF Quiet
<1>2. \A p \in Process : pc[p] = "start" => file[p] = None
    BY DEF EditInv, Standing
<1>3. \A o \in File : Unwritten(o)
    BY <1>1, <1>2, Kinds DEF Unwritten, Writers, Overwriters
<1> QED
    BY <1>3 DEF Right

(* The sizes of the other files and of the one at hand are among those of  *)
(* all files, each once.                                                   *)
LEMMA TooMuchSize ==
    ASSUME EditInv, TellInv, WalkInv, QuietInv, Quiet, Clean, Du, step = "lstat", here \in steady,
           steady = PathsFrom(walk.path), Lookup(here) \notin Directory,
           ~Fits(usage.size, SizeOf(Lookup(here)))
    PROVE  TooMuch
<1> DEFINE m == Len(reported)
           n == Cardinality(Leaves)
           size == SizeOf(Lookup(here))
           s == Append(Sizes, size)
           files == SetToSeq(Leaves)
           q(k) == IF k = m + 1 THEN here ELSE reported[k][1]
           h == [k \in 1..(m + 1) |-> CHOOSE i : i \in 1..n /\ files[i] = q(k)]
<1>1. m \in Nat /\ DOMAIN reported = 1..m /\ Sizes \in Seq(Nat) /\ Len(Sizes) = m
      /\ \A k \in 1..m : Sizes[k] = reported[k][3]
    BY SizesTypes
<1>2. /\ n \in Nat /\ \A p \in Leaves : \E i \in 1..n : files[i] = p
      /\ \A p \in Leaves : SizeOf(Lookup(p)) \in Nat /\ Lookup(p) \in File \cup Link
      /\ LeafSizes \in Seq(Nat) /\ Len(LeafSizes) = n
      /\ \A i \in 1..n : LeafSizes[i] = SizeOf(Lookup(files[i]))
    BY LeafTypes
<1>3. here \in Leaves /\ size \in Nat
    BY <1>2 DEF Leaves
<1> HIDE DEF files, n, m, size
<1>4. /\ s \in Seq(Nat) /\ Len(s) = m + 1 /\ s[m + 1] = size
      /\ \A k \in 1..m : s[k] = reported[k][3]
  <2>1. /\ s \in Seq(Nat) /\ Len(s) = Len(Sizes) + 1 /\ s[Len(Sizes) + 1] = size
        /\ \A k \in 1..Len(Sizes) : s[k] = Sizes[k]
      BY <1>1, <1>3, AppendProperties
  <2> HIDE DEF s
  <2> QED
      BY <1>1, <2>1
<1>5. TotalOf(s) = usage.size + size /\ TotalOf(s) \in Nat
  <2>1. TotalOf(Sizes) \in Nat /\ TotalOf(s) = TotalOf(Sizes) + s[Len(s)]
    <3>1. Len(s) = Len(Sizes) + 1 /\ \A k \in 1..Len(Sizes) : s[k] = Sizes[k]
        BY <1>1, <1>4
    <3> HIDE DEF s
    <3> QED
        BY <1>1, <1>4, <3>1, TotalGrows
  <2>2. s[Len(s)] = size
      BY <1>4
  <2>3. usage.size = TotalOf(Sizes)
      BY DEF TellInv, TotalInv
  <2> QED
      BY <1>3, <2>1, <2>2, <2>3
<1>6. \A k \in 1..(m + 1) : s[k] # 0 =>
          q(k) \in Leaves /\ s[k] = SizeOf(Lookup(q(k)))
  <2> SUFFICES ASSUME NEW k \in 1..(m + 1), s[k] # 0
               PROVE  q(k) \in Leaves /\ s[k] = SizeOf(Lookup(q(k)))
      OBVIOUS
  <2>1. CASE k = m + 1
      BY <1>3, <1>4, <2>1 DEF size
  <2>2. CASE k # m + 1
    <3>1. k \in 1..m /\ k \in DOMAIN reported
        BY <1>1, <2>2
    <3>2. s[k] = reported[k][3] /\ q(k) = reported[k][1]
        BY <1>4, <2>2, <3>1
    <3>3. ~reported[k][2]
        BY <3>1, <3>2 DEF QuietInv
    <3>4. reported[k][1] \in steady /\ Right(reported[k][1], k)
        BY <3>1, Others
    <3>5. reported[k][1] \in Leaves
        BY <3>3, <3>4 DEF Leaves, Right
    <3>6. reported[k][3] = SizeOf(Lookup(reported[k][1]))
        BY <1>2, <3>3, <3>4, <3>5, RightSize
    <3> QED
        BY <3>2, <3>5, <3>6
  <2> QED
      BY <2>1, <2>2
<1>7. \A k, l \in 1..(m + 1) : q(k) = q(l) => k = l
  <2>1. \A k \in 1..(m + 1) : k = m + 1 \/ k \in DOMAIN reported
      BY <1>1
  <2>2. m + 1 \notin DOMAIN reported
      BY <1>1
  <2> QED
      BY <2>1, <2>2, Others
<1> HIDE DEF s, q
<1>8. \A k \in 1..(m + 1) : s[k] # 0 => h[k] \in 1..n /\ files[h[k]] = q(k)
    BY <1>2, <1>6
<1> HIDE DEF h
<1>9. Covered(h, s, LeafSizes)
  <2>1. \A k \in 1..(m + 1) : s[k] # 0 => h[k] \in 1..n /\ LeafSizes[h[k]] = s[k]
      BY <1>2, <1>6, <1>8
  <2>2. \A k, l \in 1..(m + 1) : s[k] # 0 /\ s[l] # 0 /\ h[k] = h[l] => k = l
      BY <1>7, <1>8
  <2> QED
      BY <1>2, <1>4, <2>1, <2>2 DEF Covered
<1>10. TotalOf(s) <= TotalOf(LeafSizes)
    BY <1>2, <1>4, <1>9, TotalAtMost
<1>11. TotalOf(LeafSizes) \in Nat
    BY <1>2, TotalType
<1>12. usage.size \in Nat
    BY DEF WalkInv, CountInv
<1>13. TotalOf(LeafSizes) > MaxTotal
    BY <1>3, <1>5, <1>10, <1>11, <1>12, HostWalkAssumption DEF Fits, size
<1> QED
    BY <1>13, TooMuchIs DEF LeafSizes

-----------------------------------------------------------------------------
(* A step in a tree nobody changes *)

(* A step of the walk leaves the tree, the files and the processes alone.  *)
LEMMA WalkSame ==
    ASSUME HostWalkNext, UNCHANGED edit
    PROVE  /\ at' = at /\ content' = content /\ walk' = walk /\ (Quiet' <=> Quiet)
           /\ (Reason' <=> Reason)
<1>1. at' = at /\ content' = content
    BY WalkLooksOn DEF host
<1>2. walk' = walk
    BY DEF HostWalkNext, Begin, LstatFails, CountFile, CountDirectory, PrintEntry, ReadLink, OpenDir,
       OpenDirFails, ReadName, ReaddirEnds, ReaddirFails, CloseDir, NextEntry, EntriesEnd, EntriesBreak
<1>3. Quiet' <=> Quiet
    BY DEF Quiet, edit
<1>4. TooMuch' <=> TooMuch
    BY <1>1, <1>2, TooMuchNow
<1>5. Du' = Du
    BY <1>2 DEF Du
<1> QED
    BY <1>1, <1>2, <1>3, <1>4, <1>5 DEF Reason

(* The reports of a step are of the path at hand, which is in the tree.    *)
LEMMA QuietStep ==
    ASSUME QuietInv, UNCHANGED <<at, edit, walk, steady>>, step # "start",
           \A k \in DOMAIN reported' :
               \/ k \in DOMAIN reported /\ reported'[k] = reported[k]
               \/ reported'[k][1] = here /\ (reported'[k][2] => reported'[k][3] = 0) /\ (Quiet => here \in steady),
           Quiet => HereInv' /\ \A k \in 1..Len(frames') : Settled(at, steady, frames'[k])
    PROVE  QuietInv'
<1>1. Quiet' <=> Quiet
    BY DEF Quiet, edit
<1>2. PathsFrom(walk.path)' = PathsFrom(walk.path)
    BY PathsThen
<1>3. \A k \in DOMAIN reported' : reported'[k][2] => reported'[k][3] = 0
    BY DEF QuietInv
<1>4. ASSUME Quiet
      PROVE  /\ at = Tree /\ steady = PathsFrom(walk.path)
             /\ \A k \in DOMAIN reported' : reported'[k][1] \in steady
             /\ HereInv' /\ \A k \in 1..Len(frames') : Settled(at, steady, frames'[k])
    BY <1>4 DEF QuietInv
<1> QED
    BY <1>1, <1>2, <1>3, <1>4 DEF QuietInv

(* A call that returns changes no more than a status of its caller.        *)
LEMMA ReturnSettles ==
    ASSUME NEW callers \in Seq(Frame), NEW s \in {0, 1}, ReturnTo(callers, s), NEW tree, NEW paths,
           \A k \in 1..Len(callers) : Settled(tree, paths, callers[k])
    PROVE  \A k \in 1..Len(frames') : Settled(tree, paths, frames'[k])
<1>1. CASE callers = << >>
    BY <1>1 DEF ReturnTo
<1>2. CASE callers # << >>
  <2> DEFINE n == Len(callers)
             g == [callers[n] EXCEPT !.status = IF s = 1 THEN 1 ELSE @]
  <2>1. frames' = [callers EXCEPT ![n] = g]
      BY <1>2 DEF ReturnTo
  <2>2. n \in Nat \ {0} /\ n \in 1..n /\ callers[n] \in Frame
      BY <1>2, Shorter
  <2>3. /\ g \in Frame /\ g.path = callers[n].path /\ g.dir = callers[n].dir
        /\ g.listed = callers[n].listed /\ g.entries = callers[n].entries
    <3>1. CASE s = 1
        BY <2>2, <3>1 DEF Frame
    <3>2. CASE s # 1
        BY <2>2, <3>2 DEF Frame
    <3> QED BY <3>1, <3>2
  <2> HIDE DEF g
  <2>4. Len(frames') = n /\ \A k \in 1..n : frames'[k] = IF k = n THEN g ELSE callers[k]
      BY <2>1, <2>2, <2>3, ExceptSeq
  <2>5. Settled(tree, paths, g)
      BY <2>2, <2>3 DEF Settled
  <2> QED
      BY <2>4, <2>5
<1> QED
    BY <1>1, <1>2

(* A call that returns 0 leaves nothing noted.                             *)
LEMMA ReturnClean ==
    ASSUME NEW callers \in Seq(Frame), ReturnTo(callers, 0),
           \A k \in 1..Len(callers) : callers[k].status = 0
    PROVE  Clean'
<1>1. CASE callers = << >>
  <2>1. result' = 0 /\ frames' = << >>
      BY <1>1 DEF ReturnTo
  <2>2. Len(frames') = 0 /\ 1..0 = {}
      BY <2>1, EmptySeq
  <2> QED
      BY <2>1, <2>2 DEF Clean
<1>2. CASE callers # << >>
  <2> DEFINE n == Len(callers)
             g == [callers[n] EXCEPT !.status = @]
  <2>1. /\ frames' = [callers EXCEPT ![n] = g]
        /\ step' # "done"
      BY <1>2 DEF ReturnTo
  <2>2. n \in Nat \ {0} /\ n \in 1..n /\ callers[n] \in Frame
      BY <1>2, Shorter
  <2>3. g \in Frame /\ g.status = callers[n].status
      BY <2>2 DEF Frame
  <2> HIDE DEF g
  <2>4. Len(frames') = n /\ \A k \in 1..n : frames'[k] = IF k = n THEN g ELSE callers[k]
      BY <2>1, <2>2, <2>3, ExceptSeq
  <2> QED
      BY <2>1, <2>2, <2>3, <2>4 DEF Clean
<1> QED
    BY <1>1, <1>2

(* Both, for a call and for the loop it is called from.                    *)
LEMMA ReturnQuiet ==
    ASSUME QuietInv, WalkInv, NEW callers, NEW s \in {0, 1}, ReturnTo(callers, s),
           callers = frames \/ (frames # << >> /\ callers = Outer)
    PROVE  /\ HereInv'
           /\ Quiet => \A k \in 1..Len(frames') : Settled(at, steady, frames'[k])
           /\ s = 0 /\ Clean => Clean'
<1>1. frames \in Seq(Frame) /\ \A k \in 1..Len(frames) : frames[k] \in Frame
    BY FrameTypes
<1>2. /\ callers \in Seq(Frame)
      /\ \A k \in 1..Len(callers) : k \in 1..Len(frames) /\ callers[k] = frames[k]
  <2>1. CASE callers = frames
      BY <1>1, <2>1
  <2>2. CASE frames # << >> /\ callers = Outer
    <3>1. /\ Outer \in Seq(Frame) /\ Len(Outer) = Len(frames) - 1 /\ Len(frames) \in Nat \ {0}
          /\ \A k \in 1..Len(Outer) : Outer[k] = frames[k]
        BY <1>1, <2>2, InnerOuter, OuterElements
    <3>2. \A k \in 1..Len(Outer) : k \in 1..Len(frames)
        BY <3>1
    <3> QED
        BY <2>2, <3>1, <3>2
  <2> QED
      BY <2>1, <2>2
<1>3. HereInv'
  <2>1. step' \in {"done", "readdir", "entries"}
      BY DEF ReturnTo
  <2> QED
      BY <2>1 DEF HereInv, Going
<1>4. Quiet => \A k \in 1..Len(callers) : Settled(at, steady, callers[k])
    BY <1>2 DEF QuietInv
<1>5. Clean => \A k \in 1..Len(callers) : callers[k].status = 0
    BY <1>2 DEF Clean
<1> QED
    BY <1>2, <1>3, <1>4, <1>5, ReturnSettles, ReturnClean

(* A step notes no failure but for a reason.                               *)
Excused == Quiet /\ Clean /\ UNCHANGED faults => Clean' \/ Reason

LEMMA FaultCounts == CountInv /\ Fault => faults' # faults
<1> SUFFICES ASSUME CountInv, Fault PROVE faults' # faults
    OBVIOUS
<1>1. faults \in 0..MaxFaults /\ MaxFaults \in Nat /\ faults' = faults + 1
    BY HostWalkAssumption DEF CountInv, Fault
<1> QED
    BY <1>1

(* The path at hand is in the tree, or is the command's and is not.        *)
LEMMA HereSteady ==
    ASSUME QuietInv, TellInv, Quiet, step \in Going
    PROVE  /\ at = Tree /\ steady = PathsFrom(walk.path)
           /\ here \in steady <=> Lookup(here) # None
           /\ Lookup(here) = None => Reason
<1>1. /\ at = Tree /\ steady = PathsFrom(walk.path)
      /\ here \in steady \/ (here = walk.path /\ LookupIn(at, here) = None)
    BY DEF QuietInv, HereInv, Going
<1>2. here \in steady => Lookup(here) # None
    BY DEF TellInv, SteadyInv
<1>3. Lookup(here) = LookupIn(at, here)
    BY LookupNow
<1> QED
    BY <1>1, <1>2, <1>3 DEF Reason

LEMMA BeginQuiet ==
    ASSUME TellInv, WalkInv, QuietInv, Begin, UNCHANGED edit PROVE QuietInv' /\ Excused
<1>1. /\ step = "start" /\ step' = "lstat" /\ steady' = PathsFrom(here)
      /\ UNCHANGED <<at, walk, here, frames, reported, result>>
    BY DEF Begin, host
<1>2. here = walk.path /\ reported = << >> /\ frames = << >>
    BY <1>1 DEF TellInv, LineInv
<1>3. Quiet' <=> Quiet
    BY DEF Quiet, edit
<1>4. PathsFrom(walk.path)' = PathsFrom(walk.path)
    BY <1>1, PathsThen
<1>5. Lookup(here) # None => here \in steady'
    BY <1>1, PathItself
<1>6. HereInv'
  <2>1. Lookup(here) = LookupIn(at, here)
      BY LookupNow
  <2> QED
      BY <1>1, <1>2, <1>5, <2>1 DEF HereInv
<1>7. DOMAIN reported' = {} /\ Len(frames') = 0 /\ 1..0 = {}
    BY <1>1, <1>2, EmptySeq
<1>8. QuietInv'
    BY <1>1, <1>2, <1>3, <1>4, <1>6, <1>7 DEF QuietInv
<1>9. Clean'
    BY <1>1, <1>7 DEF Clean
<1> QED
    BY <1>8, <1>9 DEF Excused

LEMMA LstatFailsQuiet ==
    ASSUME TellInv, WalkInv, QuietInv, LstatFails, UNCHANGED edit PROVE QuietInv' /\ Excused
<1>1. /\ step = "lstat" /\ step \in Going /\ ReturnTo(frames, 1) /\ (Lookup(here) = None \/ Fault)
      /\ UNCHANGED <<at, walk, here, reported, steady>>
    BY DEF LstatFails, Return, Going, host
<1>2. QuietInv'
    BY <1>1, ReturnQuiet, QuietStep
<1>3. Excused
    BY <1>1, HereSteady, FaultCounts DEF Excused, WalkInv
<1> QED
    BY <1>2, <1>3

LEMMA ReadLinkQuiet ==
    ASSUME TellInv, WalkInv, QuietInv, ReadLink, UNCHANGED edit PROVE QuietInv' /\ Excused
<1>1. PICK s \in {0, 1} : ReturnTo(frames, s) /\ (s = 1 => Lookup(here) \notin Link \/ Fault)
    BY DEF ReadLink, Return
<1>2. step = "readlink" /\ UNCHANGED <<at, walk, here, reported, steady>>
    BY DEF ReadLink, host
<1>3. QuietInv'
    BY <1>1, <1>2, ReturnQuiet, QuietStep
<1>4. Excused
  <2> SUFFICES ASSUME Quiet, Clean, UNCHANGED faults PROVE Clean'
      BY DEF Excused
  <2>1. Lookup(here) \in Link
      BY <1>2, LookupNow DEF QuietInv, HereInv
  <2>2. s = 0
      BY <1>1, <2>1, FaultCounts DEF WalkInv
  <2> QED
      BY <1>1, <2>2, ReturnQuiet
<1> QED
    BY <1>3, <1>4

LEMMA OpenDirFailsQuiet ==
    ASSUME TellInv, WalkInv, QuietInv, OpenDirFails, UNCHANGED edit PROVE QuietInv' /\ Excused
<1>1. /\ step = "opendir" /\ ReturnTo(frames, 1) /\ (Lookup(Follow(here)) \notin Directory \/ Fault)
      /\ UNCHANGED <<at, walk, here, reported, steady>>
    BY DEF OpenDirFails, Return, host
<1>2. QuietInv'
    BY <1>1, ReturnQuiet, QuietStep
<1>3. Excused
  <2> SUFFICES ASSUME Quiet, Clean, UNCHANGED faults PROVE FALSE
      BY DEF Excused
  <2>1. Lookup(here) \in Directory
      BY <1>1, LookupNow DEF QuietInv, HereInv
  <2>2. Follow(here) = here
      BY <2>1, Kinds DEF Follow
  <2> QED
      BY <1>1, <2>1, <2>2, FaultCounts DEF WalkInv
<1> QED
    BY <1>2, <1>3

LEMMA EntriesBreakQuiet ==
    ASSUME TellInv, WalkInv, QuietInv, EntriesBreak, UNCHANGED edit PROVE QuietInv' /\ Excused
<1>1. /\ frames # << >> /\ step # "start" /\ ReturnTo(Outer, 1) /\ Fault
      /\ UNCHANGED <<at, walk, here, reported, steady>>
    BY DEF EntriesBreak, host
<1>2. QuietInv'
    BY <1>1, ReturnQuiet, QuietStep
<1> QED
    BY <1>1, <1>2, FaultCounts DEF Excused, WalkInv

LEMMA EntriesEndQuiet ==
    ASSUME TellInv, WalkInv, QuietInv, EntriesEnd, UNCHANGED edit PROVE QuietInv' /\ Excused
<1>1. /\ step = "entries" /\ ReturnTo(Outer, Inner.status)
      /\ UNCHANGED <<at, walk, here, reported, steady>>
    BY DEF EntriesEnd, host
<1>2. frames # << >> /\ frames \in Seq(Frame)
    BY <1>1 DEF WalkInv, FramesInv
<1>3. Inner \in Frame /\ Len(frames) \in 1..Len(frames)
    BY <1>2, InnerOuter
<1>4. Inner.status \in {0, 1} /\ (Clean => Inner.status = 0)
    BY <1>3 DEF Clean, Inner, Frame
<1>5. QuietInv'
    BY <1>1, <1>2, <1>4, ReturnQuiet, QuietStep
<1>6. Clean => Clean'
    BY <1>1, <1>2, <1>4, ReturnQuiet
<1> QED
    BY <1>5, <1>6 DEF Excused

(* A step that changes nothing of the calls the walk still needs.          *)
LEMMA CallsQuiet ==
    ASSUME WalkInv, QuietInv, UNCHANGED <<at, edit, walk, reported, steady, result>>,
           step \notin {"start", "done"}, step' # "done", frames # << >>, NEW g \in Frame,
           \/ frames' = frames /\ g = Inner
           \/ frames' = Append(Outer, g)
           \/ frames' = [frames EXCEPT ![Len(frames)] = g],
           Quiet => HereInv',
           Quiet /\ Settled(at, steady, Inner) => Settled(at, steady, g)
    PROVE  /\ QuietInv'
           /\ Inner.status = 0 /\ g.status = 0 /\ Clean => Clean'
<1>1. frames \in Seq(Frame) /\ Len(frames) \in 1..Len(frames) /\ Inner = frames[Len(frames)]
    BY InnerOuter DEF WalkInv, FramesInv, Inner
<1>2. /\ Len(frames') = Len(frames)
      /\ \A k \in 1..Len(frames) : frames'[k] = IF k = Len(frames) THEN g ELSE frames[k]
    BY <1>1, InnerPut
<1>3. Quiet => \A k \in 1..Len(frames') : Settled(at, steady, frames'[k])
    BY <1>1, <1>2 DEF QuietInv
<1>4. QuietInv'
    BY <1>3, QuietStep
<1>5. g.status = 0 /\ Clean => Clean'
    BY <1>2 DEF Clean
<1> QED
    BY <1>4, <1>5

LEMMA ReaddirEndsQuiet ==
    ASSUME TellInv, WalkInv, QuietInv, ReaddirEnds, UNCHANGED edit PROVE QuietInv' /\ Excused
<1>1. /\ step = "readdir" /\ step' = "closedir"
      /\ UNCHANGED <<at, walk, here, frames, result, reported, steady>>
    BY DEF ReaddirEnds, host
<1>2. HereInv' /\ \A k \in 1..Len(frames') : Quiet => Settled(at, steady, frames'[k])
    BY <1>1 DEF HereInv, Going, QuietInv
<1>3. QuietInv'
    BY <1>1, <1>2, QuietStep
<1>4. Clean => Clean'
    BY <1>1 DEF Clean
<1> QED
    BY <1>3, <1>4 DEF Excused

LEMMA ReaddirFailsQuiet ==
    ASSUME TellInv, WalkInv, QuietInv, ReaddirFails, UNCHANGED edit PROVE QuietInv' /\ Excused
<1> DEFINE g == [Inner EXCEPT !.status = 1]
<1>1. /\ step = "readdir" /\ step' = "closedir" /\ Fault
      /\ frames' = [frames EXCEPT ![Len(frames)].status = 1]
      /\ UNCHANGED <<at, walk, here, result, reported, steady>>
    BY DEF ReaddirFails, host
<1>2. frames # << >> /\ frames \in Seq(Frame)
    BY <1>1 DEF WalkInv, FramesInv
<1>3. Inner \in Frame /\ Len(frames) \in 1..Len(frames) /\ Inner = frames[Len(frames)]
    BY <1>2, InnerOuter DEF Inner
<1>4. /\ g \in Frame /\ g.path = Inner.path /\ g.dir = Inner.dir
      /\ g.listed = Inner.listed /\ g.entries = Inner.entries
    BY <1>3, NotedFrame DEF Frame
<1>5. frames' = [frames EXCEPT ![Len(frames)] = g]
    BY <1>1, <1>3
<1> HIDE DEF g
<1>6. HereInv'
    BY <1>1 DEF HereInv, Going
<1>7. Settled(at, steady, Inner) => Settled(at, steady, g)
    BY <1>4 DEF Settled
<1>8. QuietInv'
    BY <1>1, <1>2, <1>4, <1>5, <1>6, <1>7, CallsQuiet
<1> QED
    BY <1>1, <1>8, FaultCounts DEF Excused, WalkInv

LEMMA CloseDirQuiet ==
    ASSUME TellInv, WalkInv, QuietInv, CloseDir, UNCHANGED edit PROVE QuietInv' /\ Excused
<1>1. /\ step = "closedir" /\ UNCHANGED <<at, walk, here, reported, steady>>
    BY DEF CloseDir, host
<1>2. frames # << >> /\ frames \in Seq(Frame)
    BY <1>1 DEF WalkInv, FramesInv
<1>3. Inner \in Frame /\ Len(frames) \in 1..Len(frames)
    BY <1>2, InnerOuter
<1>4. Inner.status \in {0, 1} /\ (Clean => Inner.status = 0)
    BY <1>3 DEF Clean, Inner, Frame
<1>5. PICK s \in {Inner.status, 1} :
        /\ s = Inner.status \/ Fault
        /\ \/ ReturnTo(Outer, s)
           \/ step' = "entries" /\ UNCHANGED <<frames, result>>
    BY DEF CloseDir
<1>6. s \in {0, 1}
    BY <1>4, <1>5
<1>7. CASE ReturnTo(Outer, s)
  <2>1. QuietInv'
      BY <1>1, <1>2, <1>6, <1>7, ReturnQuiet, QuietStep
  <2>2. Clean /\ UNCHANGED faults => Clean'
    <3>1. Clean /\ UNCHANGED faults => s = 0
        BY <1>4, <1>5, FaultCounts DEF WalkInv
    <3> QED
        BY <1>2, <1>6, <1>7, <3>1, ReturnQuiet
  <2> QED
      BY <2>1, <2>2 DEF Excused
<1>8. CASE step' = "entries" /\ UNCHANGED <<frames, result>>
  <2>1. HereInv' /\ \A k \in 1..Len(frames') : Quiet => Settled(at, steady, frames'[k])
      BY <1>8 DEF HereInv, Going, QuietInv
  <2>2. QuietInv'
      BY <1>1, <2>1, QuietStep
  <2>3. Clean => Clean'
      BY <1>8 DEF Clean
  <2> QED
      BY <2>2, <2>3 DEF Excused
<1> QED
    BY <1>5, <1>7, <1>8

(* A new report is of the path at hand.                                    *)
LEMMA ReportedHere ==
    ASSUME WalkInv, NEW d \in BOOLEAN, NEW size \in Nat, Report(d, size), d => size = 0,
           Quiet => here \in steady
    PROVE  \A k \in DOMAIN reported' :
               \/ k \in DOMAIN reported /\ reported'[k] = reported[k]
               \/ reported'[k][1] = here /\ (reported'[k][2] => reported'[k][3] = 0) /\ (Quiet => here \in steady)
<1> DEFINE n == Len(reported)
<1>1. /\ n \in Nat /\ DOMAIN reported = 1..n /\ DOMAIN reported' = 1..(n + 1)
      /\ \A k \in 1..n : reported'[k] = reported[k]
      /\ reported'[n + 1] = <<here, d, size>>
    BY ReportedOne
<1> HIDE DEF n
<1>2. \A k \in 1..(n + 1) : k \in 1..n \/ k = n + 1
    BY <1>1
<1>3. /\ reported'[n + 1][1] = here /\ reported'[n + 1][2] = d /\ reported'[n + 1][3] = size
    BY <1>1
<1> QED
    BY <1>1, <1>2, <1>3

LEMMA CountFileQuiet ==
    ASSUME EditInv, TellInv, WalkInv, QuietInv, CountFile, UNCHANGED edit PROVE QuietInv' /\ Excused
<1> DEFINE size == SizeOf(Lookup(here))
<1>1. /\ step = "lstat" /\ step \in Going /\ Du /\ Lookup(here) \notin Directory /\ Lookup(here) # None
      /\ size \in Nat /\ UNCHANGED <<at, walk, here, steady>>
  <2>1. Lookup(here) \in File \cup Link
      BY DEF CountFile
  <2> QED
      BY <2>1, Kinds, SizeType DEF CountFile, Going, host, EditInv
<1>2. \/ ReturnTo(frames, 1) /\ UNCHANGED reported
         /\ (~Fits(usage.files, 1) \/ ~Fits(usage.size, size) \/ Fault)
      \/ ReturnTo(frames, 0) /\ Report(FALSE, size)
    BY DEF CountFile, Return
<1> HIDE DEF size
<1>3. Quiet => here \in steady /\ steady = PathsFrom(walk.path)
    BY <1>1, HereSteady
<1>4. CASE /\ ReturnTo(frames, 1) /\ UNCHANGED reported
           /\ ~Fits(usage.files, 1) \/ ~Fits(usage.size, size) \/ Fault
  <2>1. QuietInv'
      BY <1>1, <1>4, ReturnQuiet, QuietStep
  <2>2. Excused
    <3> SUFFICES ASSUME Quiet, Clean, UNCHANGED faults PROVE TooMuch
        BY <1>1 DEF Excused, Reason
    <3>1. ~Fits(usage.files, 1) \/ ~Fits(usage.size, size)
        BY <1>4, FaultCounts DEF WalkInv
    <3>2. CASE ~Fits(usage.files, 1)
        BY <1>1, <1>3, <3>2, TooManyFiles
    <3>3. CASE ~Fits(usage.size, size)
        BY <1>1, <1>3, <3>3, TooMuchSize DEF size
    <3> QED
        BY <3>1, <3>2, <3>3
  <2> QED
      BY <2>1, <2>2
<1>5. CASE ReturnTo(frames, 0) /\ Report(FALSE, size)
  <2>2. \A k \in DOMAIN reported' :
            \/ k \in DOMAIN reported /\ reported'[k] = reported[k]
            \/ reported'[k][1] = here /\ (reported'[k][2] => reported'[k][3] = 0) /\ (Quiet => here \in steady)
      BY <1>1, <1>3, <1>5, ReportedHere
  <2>3. QuietInv'
      BY <1>1, <1>5, <2>2, ReturnQuiet, QuietStep
  <2> QED
      BY <1>5, <2>3, ReturnQuiet DEF Excused
<1> QED
    BY <1>2, <1>4, <1>5

LEMMA CountDirectoryQuiet ==
    ASSUME TellInv, WalkInv, QuietInv, CountDirectory, UNCHANGED edit PROVE QuietInv' /\ Excused
<1>1. /\ step = "lstat" /\ step \in Going /\ Du /\ Lookup(here) \in Directory /\ Lookup(here) # None
      /\ UNCHANGED <<at, walk, here, steady>>
    BY Kinds DEF CountDirectory, Going, host
<1>2. \/ ReturnTo(frames, 1) /\ UNCHANGED reported /\ ~Fits(usage.directories, 1)
      \/ step' = "opendir" /\ Report(TRUE, 0) /\ UNCHANGED <<frames, result>>
    BY DEF CountDirectory, Return
<1>3. Quiet => here \in steady /\ steady = PathsFrom(walk.path)
    BY <1>1, HereSteady
<1>4. CASE ReturnTo(frames, 1) /\ UNCHANGED reported /\ ~Fits(usage.directories, 1)
  <2>1. QuietInv'
      BY <1>1, <1>4, ReturnQuiet, QuietStep
  <2>2. Quiet /\ Clean => TooMuch
      BY <1>1, <1>3, <1>4, TooManyDirectories
  <2> QED
      BY <1>1, <2>1, <2>2 DEF Excused, Reason
<1>5. CASE step' = "opendir" /\ Report(TRUE, 0) /\ UNCHANGED <<frames, result>>
  <2>2. \A k \in DOMAIN reported' :
            \/ k \in DOMAIN reported /\ reported'[k] = reported[k]
            \/ reported'[k][1] = here /\ (reported'[k][2] => reported'[k][3] = 0) /\ (Quiet => here \in steady)
      BY <1>1, <1>3, <1>5, ReportedHere
  <2>3. Quiet => HereInv' /\ \A k \in 1..Len(frames') : Settled(at, steady, frames'[k])
      BY <1>1, <1>3, <1>5, LookupNow DEF HereInv, QuietInv
  <2>4. QuietInv'
      BY <1>1, <2>2, <2>3, QuietStep
  <2>5. Clean => Clean'
      BY <1>5 DEF Clean
  <2> QED
      BY <2>4, <2>5 DEF Excused
<1> QED
    BY <1>2, <1>4, <1>5

LEMMA PrintEntryQuiet ==
    ASSUME TellInv, WalkInv, QuietInv, PrintEntry, UNCHANGED edit PROVE QuietInv' /\ Excused
<1> DEFINE d == Lookup(here) \in Directory
<1>1. /\ step = "lstat" /\ step \in Going /\ Lookup(here) # None /\ Report(d, 0)
      /\ UNCHANGED <<at, walk, here, steady>>
    BY DEF PrintEntry, Going, host
<1>2. \/ ReturnTo(frames, 0)
      \/ /\ UNCHANGED <<frames, result>>
         /\ \/ step' = "opendir" /\ Lookup(here) \in Directory
            \/ step' = "readlink" /\ Lookup(here) \in Link
    BY DEF PrintEntry, Return
<1>3. Quiet => here \in steady
    BY <1>1, HereSteady
<1>4. \A k \in DOMAIN reported' :
          \/ k \in DOMAIN reported /\ reported'[k] = reported[k]
          \/ reported'[k][1] = here /\ (reported'[k][2] => reported'[k][3] = 0) /\ (Quiet => here \in steady)
  <2>1. d \in BOOLEAN
      OBVIOUS
  <2> HIDE DEF d
  <2> QED
      BY <1>1, <1>3, <2>1, ReportedHere
<1>5. CASE ReturnTo(frames, 0)
  <2>1. QuietInv'
      BY <1>1, <1>4, <1>5, ReturnQuiet, QuietStep
  <2> QED
      BY <1>5, <2>1, ReturnQuiet DEF Excused
<1>6. CASE /\ UNCHANGED <<frames, result>>
           /\ \/ step' = "opendir" /\ Lookup(here) \in Directory
              \/ step' = "readlink" /\ Lookup(here) \in Link
  <2>1. Quiet => HereInv' /\ \A k \in 1..Len(frames') : Settled(at, steady, frames'[k])
      BY <1>1, <1>3, <1>6, LookupNow DEF HereInv, QuietInv
  <2>2. QuietInv'
      BY <1>1, <1>4, <2>1, QuietStep
  <2>3. Clean => Clean'
      BY <1>6 DEF Clean
  <2> QED
      BY <2>2, <2>3 DEF Excused
<1> QED
    BY <1>2, <1>5, <1>6

(* A name that a directory has leads on to a path of the tree.             *)
LEMMA NamesLead ==
    ASSUME QuietInv, WalkInv, Quiet, step # "start", NEW f \in Frame, Settled(at, steady, f),
           NEW n \in Name, at[f.dir][n] # None
    PROVE  Under(f.path, n) \in steady
<1>1. at = Tree /\ steady = PathsFrom(walk.path) /\ f.path \in PathsFrom(walk.path)
      /\ Lookup(f.path) = f.dir /\ f.dir \in Directory
    BY LookupNow DEF QuietInv, Settled, Frame
<1>2. walk.path \in Seq(Name)
    BY FrameTypes
<1> QED
    BY <1>1, <1>2, PathsClosed

LEMMA OpenDirQuiet ==
    ASSUME TellInv, WalkInv, QuietInv, OpenDir, UNCHANGED edit PROVE QuietInv' /\ Excused
<1> DEFINE d == Lookup(Follow(here))
           g == [path |-> here, dir |-> d, listed |-> Entries(d), sure |-> Entries(d),
                 returned |-> {}, entries |-> << >>, status |-> 0]
<1>1. /\ step = "opendir" /\ step \in Going /\ step' = "readdir" /\ d \in Directory
      /\ frames' = Append(frames, g)
      /\ UNCHANGED <<at, walk, here, reported, steady, result>>
    BY DEF OpenDir, Going, host
<1>2. frames \in Seq(Frame) /\ here \in Seq(Name) /\ Len(frames) \in Nat
    BY FrameTypes
<1>3. g \in Frame
  <2>1. Entries(d) \subseteq Name /\ << >> \in Seq(Name)
      BY EntriesType, EmptySeq
  <2> HIDE DEF d
  <2> QED
      BY <1>1, <1>2, <2>1 DEF Frame
<1>4. Quiet => Settled(at, steady, g)
  <2> SUFFICES ASSUME Quiet PROVE Settled(at, steady, g)
      OBVIOUS
  <2>1. Lookup(here) \in Directory /\ Lookup(here) = LookupIn(at, here) /\ Lookup(here) # None
      BY <1>1, LookupNow, Kinds DEF QuietInv, HereInv
  <2>2. Follow(here) = here
      BY <2>1, Kinds DEF Follow
  <2>3. here \in steady /\ d = LookupIn(at, here)
      BY <1>1, <2>1, <2>2, HereSteady
  <2>4. \A n \in Entries(d) : at[d][n] # None
      BY DEF Entries
  <2>5. /\ g.path = here /\ g.dir = d /\ g.listed = Entries(d) /\ g.entries = << >>
        /\ Len(<< >>) = 0 /\ 1..0 = {}
      BY EmptySeq
  <2> HIDE DEF g, d
  <2> QED
      BY <2>3, <2>4, <2>5 DEF Settled
<1>5. g.status = 0
    OBVIOUS
<1> HIDE DEF g
<1>6. /\ Len(frames') = Len(frames) + 1 /\ frames'[Len(frames) + 1] = g
      /\ \A k \in 1..Len(frames) : frames'[k] = frames[k]
    BY <1>1, <1>2, <1>3, AppendProperties
<1>7. \A k \in 1..(Len(frames) + 1) : k \in 1..Len(frames) \/ k = Len(frames) + 1
    BY <1>2
<1>8. Quiet => \A k \in 1..Len(frames') : Settled(at, steady, frames'[k])
    BY <1>4, <1>6, <1>7 DEF QuietInv
<1>9. HereInv'
    BY <1>1 DEF HereInv, Going
<1>10. QuietInv'
    BY <1>1, <1>8, <1>9, QuietStep
<1>11. Clean => Clean'
    BY <1>1, <1>5, <1>6, <1>7 DEF Clean
<1> QED
    BY <1>10, <1>11 DEF Excused

LEMMA ReadNameQuiet ==
    ASSUME TellInv, WalkInv, QuietInv, ReadName, UNCHANGED edit PROVE QuietInv' /\ Excused
<1>1. PICK n \in (Inner.listed \cup Entries(Inner.dir)) \ Inner.returned :
        LET read == [Inner EXCEPT !.returned = @ \cup {n}]
        IN  IF Du
            THEN /\ frames' = Append(Outer, read)
                 /\ here' = Append(Inner.path, n) /\ step' = "lstat"
            ELSE /\ frames' = Append(Outer, [read EXCEPT !.entries = Append(@, n)])
                 /\ UNCHANGED <<here, step>>
    BY DEF ReadName
<1>2. /\ step = "readdir"
      /\ UNCHANGED <<at, walk, usage, result, reported, steady>>
    BY DEF ReadName, host
<1>3. Inner \in Frame /\ frames # << >> /\ frames \in Seq(Frame) /\ Inner = frames[Len(frames)]
      /\ Len(frames) \in 1..Len(frames)
    BY <1>2, InnerOuter DEF WalkInv, FramesInv, Inner
<1>4. n \in Name /\ Inner.entries \in Seq(Name)
  <2>1. Inner.listed \subseteq Name
      BY <1>3 DEF Frame
  <2> QED
      BY <1>3, <2>1, EntriesType DEF Frame
<1> DEFINE read == [Inner EXCEPT !.returned = @ \cup {n}]
           a == Append(Inner.entries, n)
           more == [read EXCEPT !.entries = a]
<1>5. /\ read \in Frame /\ read.path = Inner.path /\ read.dir = Inner.dir /\ read.listed = Inner.listed
      /\ read.status = Inner.status /\ read.entries = Inner.entries
    BY <1>3, <1>4 DEF Frame
<1>6. /\ a \in Seq(Name) /\ Len(a) = Len(Inner.entries) + 1 /\ Len(Inner.entries) \in Nat
      /\ \A i \in 1..Len(Inner.entries) : a[i] = Inner.entries[i]
      /\ a[Len(Inner.entries) + 1] = n
      /\ \A i \in 1..(Len(Inner.entries) + 1) : i \in 1..Len(Inner.entries) \/ i = Len(Inner.entries) + 1
    BY <1>4, EntriesMore
<1>7. \/ Du /\ frames' = Append(Outer, read) /\ here' = Append(Inner.path, n) /\ step' = "lstat"
      \/ ~Du /\ frames' = Append(Outer, more) /\ UNCHANGED <<here, step>>
    BY <1>1, <1>5
<1> HIDE DEF read, a
<1>8. /\ more \in Frame /\ more.path = Inner.path /\ more.dir = Inner.dir /\ more.listed = Inner.listed
      /\ more.status = Inner.status /\ more.entries = a
    BY <1>5, <1>6 DEF Frame
<1> HIDE DEF more
<1>9. Quiet => Settled(at, steady, Inner) /\ at[Inner.dir][n] # None
  <2>1. Quiet => Settled(at, steady, Inner)
      BY <1>3 DEF QuietInv
  <2> QED
      BY <1>1, <2>1 DEF Settled, Entries
<1>10. Settled(at, steady, Inner) => Settled(at, steady, read)
    BY <1>5 DEF Settled
<1>11. Quiet /\ Settled(at, steady, Inner) => Settled(at, steady, more)
    BY <1>6, <1>8, <1>9 DEF Settled
<1>12. Clean => Inner.status = 0
    BY <1>3 DEF Clean
<1>13. CASE Du /\ frames' = Append(Outer, read) /\ here' = Append(Inner.path, n) /\ step' = "lstat"
  <2>1. Quiet => here' \in steady'
      BY <1>2, <1>3, <1>4, <1>9, <1>13, NamesLead DEF Under
  <2>2. Quiet => HereInv'
      BY <1>13, <2>1 DEF HereInv
  <2> QED
      BY <1>2, <1>3, <1>5, <1>10, <1>12, <1>13, <2>2, CallsQuiet DEF Excused
<1>14. CASE ~Du /\ frames' = Append(Outer, more) /\ UNCHANGED <<here, step>>
  <2>1. HereInv'
      BY <1>2, <1>14 DEF HereInv, Going
  <2> QED
      BY <1>2, <1>3, <1>8, <1>11, <1>12, <1>14, <2>1, CallsQuiet DEF Excused
<1> QED
    BY <1>7, <1>13, <1>14

LEMMA NextEntryQuiet ==
    ASSUME TellInv, WalkInv, QuietInv, NextEntry, UNCHANGED edit PROVE QuietInv' /\ Excused
<1> DEFINE e == Inner.entries
           t == Tail(e)
           g == [Inner EXCEPT !.entries = t]
<1>1. /\ step = "entries" /\ step' = "lstat" /\ e # << >> /\ here' = Append(Inner.path, Head(e))
      /\ frames' = [frames EXCEPT ![Len(frames)].entries = Tail(@)]
      /\ UNCHANGED <<at, walk, result, reported, steady>>
    BY DEF NextEntry, host
<1>2. Inner \in Frame /\ frames # << >> /\ frames \in Seq(Frame) /\ Inner = frames[Len(frames)]
      /\ Len(frames) \in 1..Len(frames)
    BY <1>1, InnerOuter DEF WalkInv, FramesInv, Inner
<1>3. /\ Head(e) \in Name /\ Head(e) = e[1] /\ 1 \in 1..Len(e) /\ t \in Seq(Name)
      /\ \A i \in 1..Len(t) : i + 1 \in 1..Len(e) /\ t[i] = e[i + 1]
  <2>1. e \in Seq(Name)
      BY <1>2 DEF Frame
  <2> QED
      BY <1>1, <2>1, EntriesLess
<1>4. frames' = [frames EXCEPT ![Len(frames)] = g]
    BY <1>1, <1>2
<1> HIDE DEF t
<1>5. /\ g \in Frame /\ g.path = Inner.path /\ g.dir = Inner.dir /\ g.listed = Inner.listed
      /\ g.status = Inner.status /\ g.entries = t
    BY <1>2, <1>3 DEF Frame
<1> HIDE DEF g
<1>6. Settled(at, steady, Inner) => Settled(at, steady, g)
    BY <1>3, <1>5 DEF Settled
<1>7. Quiet => Settled(at, steady, Inner) /\ at[Inner.dir][Head(e)] # None
  <2>1. Quiet => Settled(at, steady, Inner)
      BY <1>2 DEF QuietInv
  <2> QED
      BY <1>3, <2>1 DEF Settled
<1>8. Quiet => here' \in steady'
    BY <1>1, <1>2, <1>3, <1>7, NamesLead DEF Under
<1>9. Quiet => HereInv'
    BY <1>1, <1>8 DEF HereInv
<1>10. Clean => Inner.status = 0
    BY <1>2 DEF Clean
<1> QED
    BY <1>1, <1>2, <1>4, <1>5, <1>6, <1>9, <1>10, CallsQuiet DEF Excused

-----------------------------------------------------------------------------
(* The steps of the processes, and a failure *)

(* A step of a process that leaves the tree quiet has left it alone.       *)
LEMMA QuietThen ==
    ASSUME EditInv, EditorNext, Quiet'
    PROVE  Quiet /\ at' = at /\ content' = content
<1>1. PICK p \in Process :
        \/ OneCall(p) \/ FirstCallFails(p) \/ OpenNew(p) \/ OpenOld(p)
        \/ WriteSome(p) \/ WriteEnds(p) \/ WriteFails(p)
        \/ ReadSome(p) \/ ReadEnds(p) \/ ReadFails(p)
        \/ Close(p) \/ Die(p)
    BY DEF EditorNext
<1>2. /\ pc \in [Process -> {"start", "write", "read", "close", "done", "dead"}]
      /\ pc[p] = "write" => command[p].op \in {"write", "append"}
    BY Parts DEF EditInv, Standing
<1>3. \A q \in Process : pc'[q] = "start" \/ command'[q].op = "read"
    BY DEF Quiet
<1>4. ASSUME command' = command, NEW place, Goes(p, place), place # "start"
      PROVE  Quiet /\ command[p].op = "read"
  <2>1. \A q \in Process : pc'[q] = IF q = p THEN place ELSE pc[q]
      BY <1>2, <1>4 DEF Goes
  <2>2. command[p].op = "read"
      BY <1>3, <1>4, <2>1
  <2> QED
      BY <1>3, <1>4, <2>1, <2>2 DEF Quiet
<1>5. CASE OneCall(p)
  <2>1. command[p].op = "read"
      BY <1>4, <1>5 DEF OneCall
  <2> QED
      BY <1>5, <2>1 DEF OneCall, At
<1>6. CASE OpenNew(p)
  <2>1. command[p].op = "read"
      BY <1>4, <1>6 DEF OpenNew
  <2> QED
      BY <1>6, <2>1 DEF OpenNew, At
<1>7. CASE OpenOld(p)
  <2> DEFINE op == command[p].op
             place == CASE op = "read" -> "read" [] op = "create" -> "close" [] OTHER -> "write"
  <2>1. /\ command' = command /\ at' = at /\ Goes(p, place)
        /\ op # "write" => content' = content
      BY <1>7 DEF OpenOld
  <2>2. place # "start"
      OBVIOUS
  <2> HIDE DEF place
  <2>3. Quiet /\ op = "read"
      BY <1>4, <2>1, <2>2
  <2> QED
      BY <2>1, <2>3
<1>8. CASE WriteSome(p)
  <2>1. pc'[p] = "write" /\ command'[p].op \in {"write", "append"}
      BY <1>2, <1>8 DEF WriteSome
  <2> QED
      BY <1>3, <2>1
<1>9. CASE ReadSome(p)
    BY <1>9 DEF ReadSome, host, Quiet
<1>10. CASE FirstCallFails(p) \/ WriteEnds(p) \/ WriteFails(p) \/ ReadEnds(p) \/ ReadFails(p) \/ Close(p) \/ Die(p)
  <2>1. /\ UNCHANGED <<host, command>>
        /\ Goes(p, "done") \/ Goes(p, "close") \/ Goes(p, "dead")
      BY <1>10 DEF FirstCallFails, WriteEnds, WriteFails, ReadEnds, ReadFails, Close, Die
  <2>2. Quiet
      BY <1>4, <2>1
  <2> QED
      BY <2>1, <2>2 DEF host
<1> QED
    BY <1>1, <1>5, <1>6, <1>7, <1>8, <1>9, <1>10

LEMMA DisturbQuiet ==
    ASSUME EditInv, WalkInv, TellInv, QuietInv, ReasonInv, EditorNext, Disturb
    PROVE  QuietInv' /\ ReasonInv'
<1>1. /\ UNCHANGED <<walk, step, here, result, reported, faults>>
      /\ steady' = {q \in steady : \A n \in 0..Len(q) : Lookup(SubSeq(q, 1, n)) = Lookup(SubSeq(q, 1, n))'}
    BY DEF Disturb
<1>2. /\ Len(frames') = Len(frames)
      /\ \A k \in 1..Len(frames) :
            /\ frames'[k].path = frames[k].path /\ frames'[k].dir = frames[k].dir
            /\ frames'[k].listed = frames[k].listed
            /\ frames'[k].entries = frames[k].entries /\ frames'[k].status = frames[k].status
    BY DisturbedCalls
<1>3. Clean' <=> Clean
    BY <1>1, <1>2 DEF Clean
<1>4. \A k \in DOMAIN reported' : reported'[k][2] => reported'[k][3] = 0
    BY <1>1 DEF QuietInv
<1>5. ASSUME Quiet'
      PROVE  /\ Quiet /\ at' = at /\ content' = content /\ steady' = steady
             /\ PathsFrom(walk.path)' = PathsFrom(walk.path)
             /\ Reason' <=> Reason
  <2>1. Quiet /\ at' = at /\ content' = content
      BY <1>5, QuietThen
  <2>2. \A p : Lookup(p)' = Lookup(p)
      BY <2>1, LookupNow, LookupThen
  <2>3. steady' = steady
      BY <1>1, <2>2
  <2>4. PathsFrom(walk.path)' = PathsFrom(walk.path)
      BY <1>1, <2>1, PathsThen
  <2>5. TooMuch' <=> TooMuch
      BY <1>1, <2>1, TooMuchNow
  <2>6. Du' = Du
      BY <1>1 DEF Du
  <2> QED
      BY <1>1, <2>1, <2>3, <2>4, <2>5, <2>6 DEF Reason
<1>6. QuietInv'
  <2> SUFFICES ASSUME Quiet'
               PROVE  /\ at' = Tree
                      /\ step' # "start" => steady' = PathsFrom(walk.path)'
                      /\ HereInv'
                      /\ \A k \in 1..Len(frames') : Settled(at', steady', frames'[k])
                      /\ \A k \in DOMAIN reported' : reported'[k][1] \in steady'
      BY <1>4 DEF QuietInv
  <2>1. /\ Quiet /\ at' = at /\ steady' = steady
        /\ PathsFrom(walk.path)' = PathsFrom(walk.path)
      BY <1>5
  <2>2. /\ at = Tree /\ (step # "start" => steady = PathsFrom(walk.path)) /\ HereInv
        /\ \A k \in 1..Len(frames) : Settled(at, steady, frames[k])
        /\ \A k \in DOMAIN reported : reported[k][1] \in steady
      BY <2>1 DEF QuietInv
  <2>3. HereInv'
      BY <1>1, <2>1, <2>2 DEF HereInv, Going
  <2>4. \A k \in 1..Len(frames') : Settled(at, steady, frames'[k])
      BY <1>2, <2>2 DEF Settled
  <2> QED
      BY <1>1, <2>1, <2>2, <2>3, <2>4
<1>7. ReasonInv'
    BY <1>1, <1>3, <1>5 DEF ReasonInv
<1> QED
    BY <1>6, <1>7

LEMMA QuietStutter ==
    ASSUME QuietInv, ReasonInv, UNCHANGED vars PROVE QuietInv' /\ ReasonInv'
<1>1. UNCHANGED <<at, content, edit, walk, step, here, frames, result, reported, steady, faults>>
    BY DEF vars, host, walker
<1>2. Quiet' <=> Quiet
    BY <1>1 DEF Quiet, edit
<1>3. PathsFrom(walk.path)' = PathsFrom(walk.path)
    BY <1>1, PathsThen
<1>4. TooMuch' <=> TooMuch
    BY <1>1, TooMuchNow
<1>5. Du' = Du
    BY <1>1 DEF Du
<1>6. Clean' <=> Clean
    BY <1>1 DEF Clean
<1>7. HereInv' <=> HereInv
    BY <1>1 DEF HereInv, Going
<1>8. QuietInv'
    BY <1>1, <1>2, <1>3, <1>7 DEF QuietInv
<1>9. ReasonInv'
    BY <1>1, <1>2, <1>4, <1>5, <1>6 DEF ReasonInv, Reason
<1> QED
    BY <1>8, <1>9

LEMMA QuietInit == Init => QuietInv /\ ReasonInv
<1> SUFFICES ASSUME Init PROVE QuietInv /\ ReasonInv
    OBVIOUS
<1>1. /\ at = Tree /\ step = "start" /\ frames = << >> /\ reported = << >> /\ result = 0
    BY DEF Init, HostInit, HostWalkInit
<1>2. Len(frames) = 0 /\ 1..0 = {} /\ DOMAIN reported = {}
    BY <1>1, EmptySeq
<1>3. HereInv
    BY <1>1 DEF HereInv, Going
<1>4. QuietInv
    BY <1>1, <1>2, <1>3 DEF QuietInv
<1>5. Clean
    BY <1>1, <1>2 DEF Clean
<1> QED
    BY <1>4, <1>5 DEF ReasonInv

LEMMA QuietNext ==
    ASSUME EditInv, WalkInv, WalkInv', TellInv, QuietInv, ReasonInv, [Next]_vars
    PROVE  QuietInv' /\ ReasonInv'
<1>1. CASE EditorNext /\ Disturb
    BY <1>1, DisturbQuiet
<1>2. CASE HostWalkNext /\ UNCHANGED edit
  <2>1. QuietInv' /\ Excused
      BY <1>2, BeginQuiet, LstatFailsQuiet, CountFileQuiet, CountDirectoryQuiet, PrintEntryQuiet,
         ReadLinkQuiet, OpenDirQuiet, OpenDirFailsQuiet, ReadNameQuiet, ReaddirEndsQuiet, ReaddirFailsQuiet,
         CloseDirQuiet, NextEntryQuiet, EntriesEndQuiet, EntriesBreakQuiet DEF HostWalkNext
  <2>2. (Quiet' <=> Quiet) /\ (Reason' <=> Reason)
      BY <1>2, WalkSame
  <2>3. faults' = 0 => faults = 0 /\ UNCHANGED faults
    <3>1. faults' = faults + 1 \/ faults' = faults
        BY <1>2 DEF HostWalkNext, Fault, Begin, LstatFails, CountFile, CountDirectory, PrintEntry, ReadLink,
           OpenDir, OpenDirFails, ReadName, ReaddirEnds, ReaddirFails, CloseDir, NextEntry, EntriesEnd, EntriesBreak
    <3>2. faults \in Nat
        BY HostWalkAssumption DEF WalkInv, CountInv
    <3> QED
        BY <3>1, <3>2
  <2>4. ReasonInv'
      BY <2>1, <2>2, <2>3 DEF ReasonInv, Excused
  <2> QED
      BY <2>1, <2>4
<1>3. CASE UNCHANGED vars
    BY <1>3, QuietStutter
<1> QED
    BY <1>1, <1>2, <1>3 DEF Next

(* A du or tree that returns 1, while nobody changed the tree and no call  *)
(* failed by itself, had a path that names nothing or totals that do not   *)
(* fit, for every tree and every order of its names                        *)
(* (calculate_disk_usage_recursive, add_unsigned_long_long,                *)
(* print_tree_recursive).                                                  *)
THEOREM FailuresHaveReason == Spec => []FailureHasReason
<1> DEFINE Inv == EditInv /\ WalkInv /\ TellInv /\ QuietInv /\ ReasonInv
<1>1. Init => Inv
    BY BothInvInit, TellInit, QuietInit
<1>2. Inv /\ [Next]_vars => Inv'
    BY BothInvNext, TellNext, QuietNext
<1>3. Inv => FailureHasReason
  <2>1. LookupIn(at, walk.path) = Lookup(walk.path)
      BY LookupNow
  <2> QED
      BY <2>1 DEF FailureHasReason, ReasonInv, Reason, Clean
<1> QED
    BY <1>1, <1>2, <1>3, PTL DEF Spec

-----------------------------------------------------------------------------
(* What du returns for a tree nobody changed *)

(* A set whose elements are told apart by g, and with g are those of S, is *)
(* as large as S.                                                          *)
LEMMA Matched ==
    ASSUME NEW K, NEW S, IsFiniteSet(S), NEW g,
           \A k \in K : g[k] \in S,
           \A k, l \in K : g[k] = g[l] => k = l,
           \A x \in S : \E k \in K : g[k] = x
    PROVE  Cardinality(K) = Cardinality(S)
<1> DEFINE f == [x \in S |-> CHOOSE k \in K : g[k] = x]
<1>1. \A x \in S : f[x] \in K /\ g[f[x]] = x
    OBVIOUS
<1>2. \A k \in K : f[g[k]] = k
    BY <1>1
<1>3. f \in [S -> K]
    BY <1>1
<1> HIDE DEF f
<1>4. f \in Injection(S, K)
    BY <1>1, <1>3 DEF Injection, IsInjective
<1>5. f \in Surjection(S, K)
    BY <1>2, <1>3 DEF Surjection
<1>6. f \in Bijection(S, K)
    BY <1>4, <1>5 DEF Bijection
<1>7. ExistsBijection(S, K)
    BY <1>6 DEF ExistsBijection
<1> QED
    BY <1>7, FS_Bijection

(* The counts and the size du returns are those of the tree.               *)
TotalsAreExact ==
    step = "done" /\ result = 0 /\ Du /\ Quiet =>
        /\ usage.files = Cardinality(Leaves)
        /\ usage.directories = Cardinality(PathsFrom(walk.path) \ Leaves)
        /\ usage.size = TotalOf(LeafSizes)

LEMMA ExactFollows ==
    ASSUME EditInv, WalkInv, TellInv, QuietInv
    PROVE  TotalsAreExact
<1> SUFFICES ASSUME step = "done", result = 0, Du, Quiet
             PROVE  /\ usage.files = Cardinality(Leaves)
                    /\ usage.directories = Cardinality(PathsFrom(walk.path) \ Leaves)
                    /\ usage.size = TotalOf(LeafSizes)
    BY DEF TotalsAreExact
<1> DEFINE paths == PathsFrom(walk.path)
           m == Len(reported)
           n == Cardinality(Leaves)
           g == [k \in DOMAIN reported |-> reported[k][1]]
           files == SetToSeq(Leaves)
<1>1. steady = paths /\ \A k \in DOMAIN reported : reported[k][1] \in paths
    BY DEF QuietInv
<1>2. Clean /\ \A q \in paths : ~Ahead(q)
  <2>1. frames = << >> /\ Len(frames) = 0 /\ 1..0 = {}
      BY EmptySeq DEF TellInv, LineInv
  <2> QED
      BY <2>1 DEF Clean, Ahead, AheadIn
<1>3. \A q \in paths : \E k \in DOMAIN reported : Reports(q) = {k} /\ Right(q, k)
    BY <1>1, <1>2 DEF TellInv, ToldInv
<1>4. /\ \A k \in DOMAIN reported : g[k] \in paths /\ Right(g[k], k)
      /\ \A k, l \in DOMAIN reported : g[k] = g[l] => k = l
      /\ \A q \in paths : \E k \in DOMAIN reported : g[k] = q /\ Right(q, k)
  <2>1. ASSUME NEW k \in DOMAIN reported
        PROVE  g[k] \in paths /\ Right(g[k], k) /\ Reports(g[k]) = {k}
    <3>1. g[k] = reported[k][1] /\ g[k] \in paths
        BY <1>1
    <3>2. k \in Reports(g[k])
        BY <3>1 DEF Reports
    <3>3. PICK l \in DOMAIN reported : Reports(g[k]) = {l} /\ Right(g[k], l)
        BY <1>3, <3>1
    <3> HIDE DEF g
    <3> QED
        BY <3>1, <3>2, <3>3
  <2>2. ASSUME NEW q \in paths
        PROVE  \E k \in DOMAIN reported : g[k] = q /\ Right(q, k)
    <3>1. PICK k \in DOMAIN reported : Reports(q) = {k} /\ Right(q, k)
        BY <1>3
    <3>2. k \in Reports(q)
        BY <3>1
    <3>3. reported[k][1] = q
        BY <3>2 DEF Reports
    <3> QED
        BY <3>1, <3>3
  <2> HIDE DEF g
  <2>3. ASSUME NEW k \in DOMAIN reported, NEW l \in DOMAIN reported, g[k] = g[l]
        PROVE  k = l
    <3>1. Reports(g[k]) = {k} /\ Reports(g[l]) = {l}
        BY <2>1
    <3> QED
        BY <2>3, <3>1
  <2> QED
      BY <2>1, <2>2, <2>3
<1>5. /\ FileReports \subseteq DOMAIN reported
      /\ \A k \in DOMAIN reported : k \in FileReports <=> ~reported[k][2]
    BY DEF FileReports
<1>6. \A q \in paths, k \in DOMAIN reported : Right(q, k) => (k \in FileReports <=> q \in Leaves)
    BY <1>5 DEF Right, Leaves
<1>7. /\ m \in Nat /\ DOMAIN reported = 1..m /\ Sizes \in Seq(Nat) /\ Len(Sizes) = m
      /\ \A k \in 1..m : Sizes[k] = reported[k][3]
    BY SizesTypes
<1>8. /\ n \in Nat /\ \A i \in 1..n : files[i] \in Leaves
      /\ \A p \in Leaves : \E i \in 1..n : files[i] = p
      /\ \A i, j \in 1..n : files[i] = files[j] => i = j
      /\ \A p \in Leaves : SizeOf(Lookup(p)) \in Nat /\ Lookup(p) \in File \cup Link
      /\ LeafSizes \in Seq(Nat) /\ Len(LeafSizes) = n
      /\ \A i \in 1..n : LeafSizes[i] = SizeOf(Lookup(files[i]))
    BY LeafTypes
<1>9. Leaves \subseteq paths /\ IsFiniteSet(Leaves) /\ IsFiniteSet(paths \ Leaves)
    BY LeavesFinite DEF Leaves
<1>10. \A k \in FileReports : reported[k][3] = SizeOf(Lookup(g[k]))
    BY <1>4, <1>5, <1>6, <1>8, RightSize
<1> HIDE DEF files, g, paths, m, n
<1>11. Cardinality(FileReports) = Cardinality(Leaves)
  <2>1. \A k \in FileReports : g[k] \in Leaves
      BY <1>4, <1>5, <1>6
  <2>2. \A k, l \in FileReports : g[k] = g[l] => k = l
      BY <1>4, <1>5
  <2>3. \A x \in Leaves : \E k \in FileReports : g[k] = x
      BY <1>4, <1>6, <1>9
  <2> QED
      BY <1>9, <2>1, <2>2, <2>3, Matched
<1>12. Cardinality(DOMAIN reported \ FileReports) = Cardinality(paths \ Leaves)
  <2> DEFINE K == DOMAIN reported \ FileReports
             S == paths \ Leaves
  <2>1. \A k \in K : g[k] \in S
      BY <1>4, <1>6
  <2>2. \A k, l \in K : g[k] = g[l] => k = l
      BY <1>4
  <2>3. \A x \in S : \E k \in K : g[k] = x
      BY <1>4, <1>6
  <2>4. IsFiniteSet(S)
      BY <1>9
  <2> HIDE DEF K, S
  <2>5. Cardinality(K) = Cardinality(S)
      BY <2>1, <2>2, <2>3, <2>4, Matched
  <2> QED
      BY <2>5 DEF K, S
<1>13. Cardinality(DOMAIN reported \ FileReports) = Len(reported) - Cardinality(FileReports)
  <2> DEFINE R == DOMAIN reported
  <2>1. IsFiniteSet(R) /\ Cardinality(R) = m /\ R \cap FileReports = FileReports
    <3>1. IsFiniteSet(1..m) /\ Cardinality(1..m) = m
        BY <1>7, FS_Interval
    <3> QED
        BY <1>5, <1>7, <3>1
  <2> HIDE DEF R
  <2>2. Cardinality(R \ FileReports) = Cardinality(R) - Cardinality(R \cap FileReports)
      BY <2>1, FS_Difference
  <2> QED
      BY <2>1, <2>2 DEF R, m
<1>14. TotalOf(Sizes) <= TotalOf(LeafSizes)
  <2> DEFINE h == [k \in 1..m |-> CHOOSE i : i \in 1..n /\ files[i] = g[k]]
  <2>1. \A k \in 1..m : Sizes[k] # 0 => k \in FileReports /\ g[k] \in Leaves
      BY <1>4, <1>5, <1>6, <1>7 DEF QuietInv
  <2>2. \A k \in 1..m : Sizes[k] # 0 => h[k] \in 1..n /\ files[h[k]] = g[k]
      BY <1>8, <2>1
  <2> HIDE DEF h
  <2>3. ASSUME NEW k \in 1..m, Sizes[k] # 0
        PROVE  h[k] \in 1..n /\ LeafSizes[h[k]] = Sizes[k]
    <3>1. h[k] \in 1..n /\ files[h[k]] = g[k] /\ k \in FileReports
        BY <2>1, <2>2, <2>3
    <3>2. LeafSizes[h[k]] = SizeOf(Lookup(files[h[k]]))
        BY <1>8, <3>1
    <3>3. Sizes[k] = SizeOf(Lookup(g[k]))
        BY <1>7, <1>10, <3>1
    <3> QED
        BY <3>1, <3>2, <3>3
  <2>4. \A k, l \in 1..m : Sizes[k] # 0 /\ Sizes[l] # 0 /\ h[k] = h[l] => k = l
      BY <1>4, <1>7, <2>2
  <2>5. Covered(h, Sizes, LeafSizes)
      BY <1>7, <1>8, <2>3, <2>4 DEF Covered
  <2> QED
      BY <1>7, <1>8, <2>5, TotalAtMost
<1>15. TotalOf(LeafSizes) <= TotalOf(Sizes)
  <2> DEFINE h == [i \in 1..n |-> CHOOSE k : k \in FileReports /\ g[k] = files[i]]
  <2>1. \A i \in 1..n : \E k \in FileReports : g[k] = files[i]
      BY <1>4, <1>6, <1>8, <1>9
  <2>2. \A i \in 1..n : h[i] \in FileReports /\ g[h[i]] = files[i]
      BY <2>1
  <2> HIDE DEF h
  <2>3. ASSUME NEW i \in 1..n
        PROVE  h[i] \in 1..m /\ Sizes[h[i]] = LeafSizes[i]
    <3>1. h[i] \in FileReports /\ h[i] \in 1..m /\ g[h[i]] = files[i]
        BY <1>5, <1>7, <2>2
    <3>2. LeafSizes[i] = SizeOf(Lookup(files[i]))
        BY <1>8
    <3>3. Sizes[h[i]] = SizeOf(Lookup(g[h[i]]))
        BY <1>7, <1>10, <3>1
    <3> QED
        BY <3>1, <3>2, <3>3
  <2>4. \A i, j \in 1..n : h[i] = h[j] => i = j
      BY <1>8, <2>2
  <2>5. Covered(h, LeafSizes, Sizes)
      BY <1>7, <1>8, <2>3, <2>4 DEF Covered
  <2> QED
      BY <1>7, <1>8, <2>5, TotalAtMost
<1>16. TotalOf(Sizes) \in Nat /\ TotalOf(LeafSizes) \in Nat
    BY <1>7, <1>8, TotalType
<1>17. /\ usage.files = Cardinality(FileReports)
       /\ usage.directories = Len(reported) - Cardinality(FileReports)
       /\ usage.size = TotalOf(Sizes)
    BY <1>2 DEF TellInv, TotalInv
<1> QED
    BY <1>11, <1>12, <1>13, <1>14, <1>15, <1>16, <1>17 DEF paths

(* A du that returns 0, while nobody changed the tree, has counted every   *)
(* file and every directory below its path, and the size is the sum of all *)
(* sizes, in whatever order readdir returned the names                     *)
(* (calculate_disk_usage_recursive, add_file_count, add_file_size).        *)
THEOREM TotalsExact == Spec => []TotalsAreExact
<1> DEFINE Inv == EditInv /\ WalkInv /\ TellInv /\ QuietInv /\ ReasonInv
<1>1. Init => Inv
    BY BothInvInit, TellInit, QuietInit
<1>2. Inv /\ [Next]_vars => Inv'
    BY BothInvNext, TellNext, QuietNext
<1>3. Inv => TotalsAreExact
    BY ExactFollows
<1> QED
    BY <1>1, <1>2, <1>3, PTL DEF Spec
=============================================================================

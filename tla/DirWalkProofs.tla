--------------------------- MODULE DirWalkProofs ---------------------------
(***************************************************************************)
(* Proofs about DirWalk for every directory graph, with cycles, shared     *)
(* directories, corrupt records and any depth, and every failure: the      *)
(* stack of listings is sound, no directory is listed twice, the exit      *)
(* status is 0 if and only if nothing went wrong on the way, what is       *)
(* handed over lies in the tree below the start, and a traversal without   *)
(* a fault hands over all of it.                                           *)
(***************************************************************************)
EXTENDS DirWalk, SequenceTheorems, TLAPS

-----------------------------------------------------------------------------
(* Frames *)

(* The position of a listing is inside its directory.                      *)
Placed(f) ==
    LET blocks == image[f.inode].blocks
    IN  /\ f.block \in 1..(Len(blocks) + 1)
        /\ f.entry > 0 => /\ f.block <= Len(blocks)
                          /\ f.entry <= Len(blocks[f.block].entries) + 1

Frames(s) == s \in Seq(Frame) /\ \A n \in 1..Len(s) : Placed(s[n])

(* Some listing has failed, or its caller was told of a failure.           *)
Failing(s) == \E n \in 1..Len(s) : s[n].failed \/ s[n].context

(* s with another innermost frame.                                         *)
Under(s, f) == [s EXCEPT ![Len(s)] = f]

(* The frames of a stack whose innermost frame is replaced.                *)
LEMMA UnderFrames ==
    ASSUME NEW s \in Seq(Frame), s # << >>, NEW f \in Frame
    PROVE  /\ Under(s, f) \in Seq(Frame) /\ Len(Under(s, f)) = Len(s)
           /\ Len(s) \in 1..Len(s) /\ Under(s, f)[Len(s)] = f
           /\ \A n \in 1..Len(s) : n # Len(s) => Under(s, f)[n] = s[n]
<1>1. Len(s) \in Nat \ {0} /\ DOMAIN s = 1..Len(s)
    OBVIOUS
<1>2. Len(s) \in 1..Len(s)
    BY <1>1
<1>3. Under(s, f) \in [1..Len(s) -> Frame]
    BY <1>1 DEF Under
<1>4. Under(s, f) \in Seq(Frame) /\ Len(Under(s, f)) = Len(s)
    BY <1>1, <1>3
<1> QED
    BY <1>1, <1>2, <1>4 DEF Under

(* Telling the caller of a failure marks its frame and no other.           *)
LEMMA NotedFrames ==
    ASSUME NEW s, Frames(s)
    PROVE  /\ Frames(Noted(s)) /\ Len(Noted(s)) = Len(s)
           /\ \A n \in 1..Len(s) : /\ Noted(s)[n].inode = s[n].inode
                                   /\ Noted(s)[n].block = s[n].block
                                   /\ Noted(s)[n].entry = s[n].entry
                                   /\ Searching => Noted(s)[n].context = s[n].context
           /\ Searching => Failing(Noted(s)) = Failing(s)
           /\ ~Searching /\ s # << >> => Failing(Noted(s))
<1>1. CASE Searching \/ s = << >>
    BY <1>1 DEF Noted
<1>2. CASE ~Searching /\ s # << >>
  <2> DEFINE f == [s[Len(s)] EXCEPT !.context = TRUE]
  <2>1. s \in Seq(Frame) /\ Len(s) \in 1..Len(s) /\ s[Len(s)] \in Frame
      BY <1>2 DEF Frames
  <2>2. /\ f \in Frame /\ f.context = TRUE /\ f.inode = s[Len(s)].inode
        /\ f.block = s[Len(s)].block /\ f.entry = s[Len(s)].entry /\ f.failed = s[Len(s)].failed
    <3>1. \A g \in Frame : LET h == [g EXCEPT !.context = TRUE]
                           IN  /\ h \in Frame /\ h.context = TRUE /\ h.inode = g.inode
                               /\ h.block = g.block /\ h.entry = g.entry /\ h.failed = g.failed
        BY DEF Frame
    <3> QED
        BY <2>1, <3>1
  <2>3. Noted(s) = Under(s, f)
      BY <1>2 DEF Noted, Under
  <2> HIDE DEF f
  <2>4. /\ Noted(s) \in Seq(Frame) /\ Len(Noted(s)) = Len(s) /\ Noted(s)[Len(s)] = f
        /\ \A n \in 1..Len(s) : n # Len(s) => Noted(s)[n] = s[n]
    <3>1. s \in Seq(Frame) /\ s # << >> /\ f \in Frame
        BY <1>2, <2>1, <2>2
    <3>2. /\ Under(s, f) \in Seq(Frame) /\ Len(Under(s, f)) = Len(s)
          /\ Under(s, f)[Len(s)] = f
          /\ \A n \in 1..Len(s) : n # Len(s) => Under(s, f)[n] = s[n]
        BY <3>1, UnderFrames
    <3> QED
        BY <2>3, <3>2
  <2>5. \A n \in 1..Len(s) : Placed(Noted(s)[n])
    <3>1. ASSUME NEW n \in 1..Len(s) PROVE Placed(Noted(s)[n])
      <4>1. Placed(s[n])
          BY DEF Frames
      <4> QED
          BY <2>2, <2>4, <4>1 DEF Placed
    <3> QED
        BY <3>1
  <2>6. \A n \in 1..Len(s) : /\ Noted(s)[n].inode = s[n].inode /\ Noted(s)[n].block = s[n].block
                             /\ Noted(s)[n].entry = s[n].entry
      BY <2>2, <2>4
  <2>7. Failing(Noted(s))
      BY <2>1, <2>2, <2>4 DEF Failing
  <2> QED
      BY <1>2, <2>4, <2>5, <2>6, <2>7 DEF Frames
<1> QED
    BY <1>1, <1>2

-----------------------------------------------------------------------------
(* Calls *)

(* No directory is in two frames, or in the list twice, and all of them    *)
(* have been visited.                                                      *)
Once(s, seen) ==
    /\ \A m, n \in 1..Len(s) : s[m].inode = s[n].inode => m = n
    /\ \A n \in 1..Len(s) : s[n].inode \in seen

ListedOf(list, seen) ==
    /\ \A m, n \in 1..Len(list) : list[m] = list[n] => m = n
    /\ \A n \in 1..Len(list) : list[n] \in seen

(* A search tells its one status, a walk the frame of the caller.          *)
Told(s, st) ==
    /\ Searching => \A n \in 1..Len(s) : ~s[n].context
    /\ ~Searching => ~st

(* What went wrong is known to the status or to a frame.                   *)
Counted(s, st, why) == why # {} <=> st \/ Failing(s)

(* An inode of the image. *)
LEMMA NodeType ==
    ASSUME image \in Images, NEW i \in Inode
    PROVE  /\ image[i] \in Node /\ image[i].blocks \in Seq(Block)
           /\ \A b \in DOMAIN image[i].blocks : image[i].blocks[b].entries \in Seq(Entry)
<1>1. image[i] \in Node
    BY WalkAssumption
<1>2. image[i].blocks \in Seq(Block)
    BY <1>1 DEF Node
<1>3. \A b \in Block : b.entries \in Seq(Entry)
    BY DEF Block
<1>4. \A b \in DOMAIN image[i].blocks : image[i].blocks[b] \in Block
    BY <1>2
<1> QED
    BY <1>1, <1>2, <1>3, <1>4

(* Stacks whose frames have the same inodes.                               *)
LEMMA OnceOfInodes ==
    ASSUME NEW s, NEW t, NEW seen, Len(t) = Len(s), Once(s, seen),
           \A n \in 1..Len(s) : t[n].inode = s[n].inode
    PROVE  Once(t, seen)
BY DEF Once

(* A new listing on top of the stack.                                      *)
LEMMA Pushed ==
    ASSUME NEW s, Frames(s), NEW f \in Frame, Placed(f)
    PROVE  /\ Frames(Append(s, f)) /\ Append(s, f) # << >>
           /\ Failing(Append(s, f)) <=> Failing(s) \/ f.failed \/ f.context
           /\ \A seen : Once(s, seen) /\ f.inode \notin seen => Once(Append(s, f), seen \cup {f.inode})
           /\ (\A n \in 1..Len(s) : ~s[n].context) /\ ~f.context =>
                 \A n \in 1..Len(Append(s, f)) : ~Append(s, f)[n].context
<1> DEFINE t == Append(s, f)
<1>1. /\ t \in Seq(Frame) /\ t # << >> /\ Len(t) = Len(s) + 1 /\ t[Len(s) + 1] = f
      /\ \A n \in 1..Len(s) : t[n] = s[n]
      /\ 1..Len(t) = 1..Len(s) \cup {Len(s) + 1}
  <2>1. s \in Seq(Frame) /\ Len(s) \in Nat
      BY DEF Frames
  <2>2. t \in Seq(Frame) /\ Len(t) = Len(s) + 1 /\ t[Len(s) + 1] = f
      BY <2>1
  <2>3. \A n \in 1..Len(s) : t[n] = s[n]
      BY <2>1
  <2> HIDE DEF t
  <2>4. t # << >>
      BY <2>1, <2>2
  <2>5. \A n \in Nat : 1..(n + 1) = 1..n \cup {n + 1}
      OBVIOUS
  <2> QED
      BY <2>1, <2>2, <2>3, <2>4, <2>5
<1> HIDE DEF t
<1>2. Frames(t)
    BY <1>1 DEF Frames
<1>3. Failing(t) <=> Failing(s) \/ f.failed \/ f.context
    BY <1>1 DEF Failing
<1>4. ASSUME NEW seen, Once(s, seen), f.inode \notin seen
      PROVE  Once(t, seen \cup {f.inode})
  <2>1. ASSUME NEW m \in 1..Len(t), NEW n \in 1..Len(t), t[m].inode = t[n].inode
        PROVE  m = n
      BY <1>1, <1>4, <2>1 DEF Once
  <2> QED
      BY <1>1, <1>4, <2>1 DEF Once
<1>5. (\A n \in 1..Len(s) : ~s[n].context) /\ ~f.context => \A n \in 1..Len(t) : ~t[n].context
    BY <1>1
<1> QED
    BY <1>1, <1>2, <1>3, <1>4, <1>5 DEF t

(* A call begins a listing of a directory not visited before, or comes     *)
(* back, and then whatever went wrong is told to its caller.               *)
LEMMA EnterFrames ==
    ASSUME image \in Images, visited \subseteq Inode, listed \in Seq(Inode),
           status \in BOOLEAN, faults \subseteq Fault,
           NEW i \in Inode, NEW s, Frames(s), Once(s, visited), ListedOf(listed, visited),
           Told(s, status), Enter(i, s)
    PROVE  /\ Frames(stack') /\ visited' \subseteq Inode /\ listed' \in Seq(Inode)
           /\ status' \in BOOLEAN /\ faults' \subseteq Fault
           /\ Once(stack', visited') /\ ListedOf(listed', visited') /\ Told(stack', status')
           /\ s # << >> /\ Counted(s, status, faults) =>
                 stack' # << >> /\ Counted(stack', status', faults')
           /\ s = << >> /\ visited = {} /\ faults = {} /\ ~status =>
                 IF stack' = << >> THEN faults' # {} ELSE Counted(stack', status', faults')
<1>1. ASSUME NEW why \in Fault, Refuse(s, why), visited \subseteq visited', visited' \subseteq Inode
      PROVE  /\ Frames(stack') /\ listed' \in Seq(Inode)
             /\ status' \in BOOLEAN /\ faults' \subseteq Fault /\ faults' # {}
             /\ Once(stack', visited') /\ ListedOf(listed', visited') /\ Told(stack', status')
             /\ s # << >> => stack' # << >> /\ Counted(stack', status', faults')
             /\ s = << >> => stack' = << >>
  <2>1. /\ stack' = Noted(s) /\ status' = Searching /\ faults' = faults \cup {why} /\ listed' = listed
      BY <1>1 DEF Refuse
  <2>2. Frames(stack') /\ Len(stack') = Len(s) /\ Told(stack', status')
      BY <2>1, NotedFrames DEF Told
  <2>3. Once(stack', visited)
      BY <2>1, NotedFrames, OnceOfInodes
  <2>4. Once(stack', visited') /\ ListedOf(listed', visited')
      BY <1>1, <2>1, <2>3 DEF Once, ListedOf
  <2>5. (s = << >> => stack' = << >>) /\ (s # << >> => stack' # << >>)
      BY <2>2 DEF Frames
  <2>6. s # << >> => status' \/ Failing(stack')
      BY <2>1, NotedFrames
  <2>7. faults' \subseteq Fault /\ faults' # {} /\ status' \in BOOLEAN
      BY <2>1, <1>1 DEF Searching
  <2> QED
      BY <2>1, <2>2, <2>4, <2>5, <2>6, <2>7 DEF Counted
<1>2. CASE TooDeep(s)
  <2>1. Refuse(s, "depth") /\ visited' = visited
      BY <1>2 DEF Enter
  <2>2. "depth" \in Fault
      BY DEF Fault
  <2> QED
      BY <1>1, <2>1, <2>2
<1>3. CASE ~TooDeep(s) /\ Seen(i)
  <2>1. stack' = s /\ UNCHANGED <<visited, status, faults, listed>> /\ i \in visited
      BY <1>3 DEF Enter, Seen
  <2> QED
      BY <2>1
<1>4. CASE ~TooDeep(s) /\ ~Seen(i)
  <2>1. CASE Refuse(s, "memory") /\ visited' = visited
    <3>1. "memory" \in Fault
        BY DEF Fault
    <3> QED
        BY <1>1, <2>1, <3>1
  <2>2. CASE visited' = visited \cup {i} /\ (Refuse(s, "not_directory") \/ Refuse(s, "inode"))
    <3>1. "not_directory" \in Fault /\ "inode" \in Fault
        BY DEF Fault
    <3> QED
        BY <1>1, <2>2, <3>1
  <2>3. CASE /\ visited' = visited \cup {i}
             /\ stack' = Append(s, [inode |-> i, block |-> 1, entry |-> 0,
                                    failed |-> FALSE, context |-> FALSE])
             /\ listed' = Append(listed, i)
             /\ UNCHANGED <<status, faults>>
    <3> DEFINE f == [inode |-> i, block |-> 1, entry |-> 0, failed |-> FALSE, context |-> FALSE]
    <3>1. f \in Frame /\ f.inode = i /\ ~f.failed /\ ~f.context
        BY DEF Frame
    <3>2. Placed(f)
      <4>1. image[i].blocks \in Seq(Block)
          BY NodeType
      <4> QED
          BY <4>1 DEF Placed
    <3>3. i \notin visited
        BY <1>4 DEF Seen
    <3> HIDE DEF f
    <3>4. /\ Frames(stack') /\ stack' # << >> /\ Once(stack', visited')
          /\ Failing(stack') <=> Failing(s)
        BY <2>3, <3>1, <3>2, <3>3, Pushed DEF f
    <3>5. Told(stack', status')
        BY <2>3, <3>1, <3>2, Pushed DEF f, Told
    <3>6. listed' \in Seq(Inode) /\ ListedOf(listed', visited')
      <4>1. /\ listed' \in Seq(Inode) /\ listed'[Len(listed) + 1] = i
            /\ \A n \in 1..Len(listed) : listed'[n] = listed[n]
            /\ 1..Len(listed') = 1..Len(listed) \cup {Len(listed) + 1}
          BY <2>3
      <4>2. ASSUME NEW m \in 1..Len(listed'), NEW n \in 1..Len(listed'), listed'[m] = listed'[n]
            PROVE  m = n
          BY <3>3, <4>1, <4>2 DEF ListedOf
      <4>3. \A n \in 1..Len(listed') : listed'[n] \in visited'
          BY <2>3, <4>1 DEF ListedOf
      <4> QED
          BY <4>1, <4>2, <4>3 DEF ListedOf
    <3>7. s = << >> => ~Failing(s)
        BY DEF Failing
    <3> QED
        BY <2>3, <3>4, <3>5, <3>6, <3>7 DEF Counted
  <2> QED
      BY <1>4, <2>1, <2>2, <2>3 DEF Enter
<1> QED
    BY <1>2, <1>3, <1>4

-----------------------------------------------------------------------------
(* The innermost listing *)

(* The frame, its directory and the record it is at.                       *)
LEMMA TopType ==
    ASSUME TypeOK, stack # << >>
    PROVE  /\ Frames(stack) /\ Top \in Frame /\ Placed(Top) /\ Top.inode \in Inode
           /\ Blocks \in Seq(Block) /\ Top.block \in 1..(Len(Blocks) + 1)
           /\ Top.entry > 0 => /\ Top.block \in 1..Len(Blocks) /\ Current.entries \in Seq(Entry)
                               /\ Top.entry \in 1..(Len(Current.entries) + 1)
           /\ Top.block <= Len(Blocks) => Current.entries \in Seq(Entry)
           /\ Top.entry \in Nat /\ Top.failed \in BOOLEAN /\ Top.context \in BOOLEAN
           /\ AtRecord => Record \in Entry
<1>1. Frames(stack)
    BY DEF Frames, TypeOK, Placed
<1>2. Len(stack) \in 1..Len(stack) /\ Top \in Frame
    BY DEF TypeOK, Top
<1>3. Placed(Top)
    BY <1>1, <1>2 DEF Frames, Top
<1>4. /\ Top.inode \in Inode /\ Top.block \in Nat /\ Top.entry \in Nat
      /\ Top.failed \in BOOLEAN /\ Top.context \in BOOLEAN
    BY <1>2 DEF Frame
<1>5. /\ Blocks \in Seq(Block)
      /\ \A b \in DOMAIN Blocks : Blocks[b].entries \in Seq(Entry)
    BY <1>4, NodeType DEF TypeOK, Blocks
<1>6. /\ Top.block \in 1..(Len(Blocks) + 1)
      /\ Top.entry > 0 => Top.block <= Len(Blocks) /\ Top.entry <= Len(Current.entries) + 1
    BY <1>3 DEF Placed, Blocks, Current
<1>7. Len(Blocks) \in Nat /\ DOMAIN Blocks = 1..Len(Blocks)
    BY <1>5
<1>8. Top.block <= Len(Blocks) => Top.block \in DOMAIN Blocks /\ Current.entries \in Seq(Entry)
    BY <1>5, <1>6, <1>7 DEF Current
<1>9. Top.entry > 0 => Top.entry \in 1..(Len(Current.entries) + 1)
    BY <1>4, <1>6, <1>8
<1>10. AtRecord => Record \in Entry
  <2>1. ASSUME AtRecord PROVE Top.entry \in 1..Len(Current.entries) /\ Current.entries \in Seq(Entry)
      BY <1>4, <1>6, <1>8, <2>1 DEF AtRecord
  <2> QED
      BY <2>1 DEF Record
<1> QED
    BY <1>1, <1>2, <1>3, <1>4, <1>5, <1>6, <1>7, <1>8, <1>9, <1>10

(* Moving the innermost listing on.                                        *)
LEMMA Replaced ==
    ASSUME TypeOK, stack # << >>, NEW f \in Frame, Placed(f), f.inode = Top.inode,
           f.context = Top.context, Top.failed => f.failed,
           Once(stack, visited), Told(stack, status)
    PROVE  /\ Frames(Under(stack, f)) /\ Under(stack, f) # << >>
           /\ Once(Under(stack, f), visited) /\ Told(Under(stack, f), status)
           /\ Failing(Under(stack, f)) <=> Failing(stack) \/ f.failed
<1> DEFINE s == Under(stack, f)
<1>1. stack \in Seq(Frame) /\ Frames(stack) /\ Top = stack[Len(stack)]
    BY TopType DEF Frames, Top
<1>2. /\ s \in Seq(Frame) /\ Len(s) = Len(stack) /\ Len(stack) \in 1..Len(stack)
      /\ s[Len(stack)] = f
      /\ \A n \in 1..Len(stack) : n # Len(stack) => s[n] = stack[n]
    BY <1>1, UnderFrames
<1> HIDE DEF s
<1>3. Frames(s)
    BY <1>1, <1>2 DEF Frames
<1>4. s # << >>
    BY <1>2
<1>5. \A n \in 1..Len(stack) : s[n].inode = stack[n].inode /\ s[n].context = stack[n].context
    BY <1>1, <1>2
<1>6. Once(s, visited)
    BY <1>2, <1>5, OnceOfInodes
<1>7. Told(s, status)
    BY <1>2, <1>5 DEF Told
<1>8. Failing(s) => Failing(stack) \/ f.failed
    BY <1>1, <1>2 DEF Failing
<1>9. Failing(stack) \/ f.failed => Failing(s)
  <2>1. f.failed => Failing(s)
      BY <1>2 DEF Failing
  <2>2. ASSUME NEW n \in 1..Len(stack), stack[n].failed \/ stack[n].context
        PROVE  Failing(s)
    <3>1. CASE n = Len(stack)
        BY <1>1, <1>2, <2>2, <3>1 DEF Failing
    <3>2. CASE n # Len(stack)
        BY <1>2, <2>2, <3>2 DEF Failing
    <3> QED
        BY <3>1, <3>2
  <2> QED
      BY <2>1, <2>2 DEF Failing
<1> QED
    BY <1>3, <1>4, <1>6, <1>7, <1>8, <1>9 DEF s

(* The position behind a record is in the directory, and a defect is a     *)
(* failure of the listing.                                                 *)
LEMMA AfterType ==
    ASSUME TypeOK, stack # << >>, AtRecord
    PROVE  /\ After(Record) \in Frame /\ Placed(After(Record))
           /\ After(Record).inode = Top.inode /\ After(Record).context = Top.context
           /\ After(Record).failed <=> Top.failed \/ Record.defect # "none"
<1>1. /\ Top \in Frame /\ Top.block \in 1..Len(Blocks) /\ Top.entry \in 1..Len(Current.entries)
      /\ Len(Current.entries) \in Nat /\ Len(Blocks) \in Nat /\ Top.failed \in BOOLEAN
    BY TopType DEF AtRecord
<1>2. CASE Record.defect = "fatal"
  <2> DEFINE b == Top.block + 1
             bad == TRUE
  <2>1. After(Record) = [Top EXCEPT !.block = b, !.entry = 0, !.failed = bad]
      BY <1>2 DEF After, PastBlock
  <2>2. b \in 1..(Len(Blocks) + 1) /\ b \in Nat /\ bad \in BOOLEAN /\ bad
      BY <1>1
  <2> HIDE DEF b, bad
  <2>3. /\ After(Record) \in Frame /\ After(Record).inode = Top.inode
        /\ After(Record).context = Top.context /\ After(Record).block = b
        /\ After(Record).entry = 0 /\ After(Record).failed = bad
    <3>1. \A f \in Frame : LET g == [f EXCEPT !.block = b, !.entry = 0, !.failed = bad]
                           IN  /\ g \in Frame /\ g.inode = f.inode /\ g.context = f.context
                               /\ g.block = b /\ g.entry = 0 /\ g.failed = bad
        BY <2>2 DEF Frame
    <3> QED
        BY <1>1, <2>1, <3>1
  <2>4. Placed(After(Record))
      BY <2>2, <2>3 DEF Placed, Blocks
  <2> QED
      BY <1>2, <2>2, <2>3, <2>4
<1>3. CASE Record.defect # "fatal"
  <2> DEFINE bad == Top.failed \/ Record.defect # "none"
             e == Top.entry + 1
  <2>1. After(Record) = [Top EXCEPT !.entry = e, !.failed = bad]
      BY <1>3 DEF After, Past
  <2>2. bad \in BOOLEAN /\ e \in Nat /\ e <= Len(Current.entries) + 1
      BY <1>1
  <2> HIDE DEF bad, e
  <2>3. /\ After(Record) \in Frame /\ After(Record).inode = Top.inode
        /\ After(Record).context = Top.context /\ After(Record).block = Top.block
        /\ After(Record).entry = e /\ After(Record).failed = bad
      BY <1>1, <2>1, <2>2 DEF Frame
  <2>4. Top.block \in 1..(Len(Blocks) + 1) /\ Top.block <= Len(Blocks)
      BY <1>1
  <2>5. Placed(After(Record))
      BY <2>2, <2>3, <2>4 DEF Placed, Blocks, Current
  <2> QED
      BY <2>3, <2>5 DEF bad
<1> QED
    BY <1>2, <1>3

-----------------------------------------------------------------------------
(* The inductive invariant *)

(* Nothing is there before the call; while it runs every fault is known to *)
(* the status or to a frame, so that the last return reports it.           *)
WalkInv ==
    /\ Once(stack, visited) /\ ListedOf(listed, visited) /\ Told(stack, status)
    /\ pc = "call" => stack = << >> /\ visited = {} /\ faults = {} /\ ~status
    /\ pc = "run" => stack # << >> /\ Counted(stack, status, faults)
    /\ StatusIsHonest

IInv == TypeOK /\ WalkInv

(* It holds at the start.                                                  *)
LEMMA InitInv == Init => IInv
<1> SUFFICES ASSUME Init PROVE IInv
    OBVIOUS
<1>1. needle \in Name \cup Inode
    BY Zenon DEF Init
<1>2. stack \in Seq(Frame) /\ Len(stack) = 0 /\ listed \in Seq(Inode)
    BY DEF Init
<1>3. /\ image \in Images /\ mode \in Mode /\ start \in Inode /\ stack = << >> /\ visited = {}
      /\ status = FALSE /\ found = FALSE /\ pc = "call" /\ result = 0 /\ handed = {} /\ faults = {}
    BY DEF Init
<1>4. TypeOK
  <2>1. \A n \in 1..Len(stack) : FALSE
      BY <1>2
  <2>2. stack \in Seq(Frame) /\ listed \in Seq(Inode) /\ handed \subseteq Inode \X Nat \X Nat
      BY <1>2, <1>3
  <2>3. visited \subseteq Inode /\ faults \subseteq Fault /\ pc \in {"call", "run", "done"}
        /\ status \in BOOLEAN /\ found \in BOOLEAN /\ result \in {0, 1}
      BY <1>3
  <2> QED
      BY <1>1, <1>3, <2>1, <2>2, <2>3 DEF TypeOK
<1>5. WalkInv
    BY DEF Init, WalkInv, Once, ListedOf, Told, StatusIsHonest
<1> QED
    BY <1>4, <1>5 DEF IInv

(* What a step inside the run of a command owes.                           *)
LEMMA Running ==
    ASSUME IInv, pc = "run", UNCHANGED <<input, pc, result>>,
           Frames(stack'), stack' # << >>, visited' \subseteq Inode, listed' \in Seq(Inode),
           status' \in BOOLEAN, found' \in BOOLEAN, faults' \subseteq Fault,
           handed' \subseteq Inode \X Nat \X Nat,
           Once(stack', visited'), ListedOf(listed', visited'), Told(stack', status'),
           Counted(stack', status', faults')
    PROVE  IInv'
<1>1. UNCHANGED <<image, mode, start, needle>>
    BY DEF input
<1>2. TypeOK'
    BY <1>1 DEF IInv, TypeOK, Frames, Placed
<1>3. /\ Once(stack, visited)' /\ ListedOf(listed, visited)' /\ Told(stack, status)'
      /\ Counted(stack, status, faults)'
    BY <1>1 DEF Once, ListedOf, Told, Searching, Counted, Failing
<1> QED
    BY <1>2, <1>3 DEF IInv, WalkInv, StatusIsHonest

(* The innermost listing moves on, a failure being in its frame.           *)
LEMMA Moved ==
    ASSUME IInv, pc = "run", UNCHANGED <<input, visited, status, found, pc, result, listed, handed>>,
           NEW f \in Frame, Placed(f), f.inode = Top.inode, f.context = Top.context,
           Top.failed => f.failed, Set(f), faults' \subseteq Fault,
           \/ faults' = faults /\ (f.failed => Top.failed)
           \/ faults' # {} /\ f.failed
    PROVE  IInv'
<1>1. /\ TypeOK /\ stack # << >> /\ Once(stack, visited) /\ ListedOf(listed, visited)
      /\ Told(stack, status) /\ Counted(stack, status, faults) /\ stack' = Under(stack, f)
    BY DEF IInv, WalkInv, Set, Under
<1>2. /\ Frames(stack') /\ stack' # << >> /\ Once(stack', visited) /\ Told(stack', status)
      /\ Failing(stack') <=> Failing(stack) \/ f.failed
    BY <1>1, Replaced
<1>3. Top.failed => Failing(stack)
  <2>1. Len(stack) \in 1..Len(stack)
      BY <1>1 DEF TypeOK
  <2> QED
      BY <2>1 DEF Failing, Top
<1>4. Counted(stack', status', faults')
    BY <1>1, <1>2, <1>3 DEF Counted
<1> QED
    BY <1>1, <1>2, <1>4, Running DEF TypeOK

-----------------------------------------------------------------------------
(* Steps *)

(* A block is skipped, begun, or noted as unreadable.                      *)
LEMMA OpenBlockStep == IInv /\ OpenBlock => IInv'
<1> SUFFICES ASSUME IInv, OpenBlock PROVE IInv'
    OBVIOUS
<1>1. /\ pc = "run" /\ stack # << >> /\ TypeOK
      /\ Top.entry = 0 /\ Top.block <= Len(Blocks)
      /\ UNCHANGED <<input, visited, status, found, pc, result, listed, handed>>
    BY DEF OpenBlock, IInv, WalkInv
<1>2. /\ Top \in Frame /\ Top.block \in 1..(Len(Blocks) + 1) /\ Top.failed \in BOOLEAN
      /\ Len(Current.entries) \in Nat /\ Len(Blocks) \in Nat /\ faults \subseteq Fault
    BY <1>1, TopType DEF TypeOK
<1> DEFINE b == Top.block + 1
<1>3. b \in 1..(Len(Blocks) + 1) /\ b \in Nat
    BY <1>1, <1>2
<1>4. CASE Set([Top EXCEPT !.block = @ + 1]) /\ UNCHANGED faults
  <2> DEFINE f == [Top EXCEPT !.block = b]
  <2>1. Set(f)
      BY <1>4
  <2> HIDE DEF b
  <2>2. /\ f \in Frame /\ f.inode = Top.inode /\ f.context = Top.context
        /\ f.failed = Top.failed /\ f.block = b /\ f.entry = 0
      BY <1>1, <1>2, <1>3 DEF Frame
  <2> HIDE DEF f
  <2>3. Placed(f)
      BY <1>3, <2>2 DEF Placed, Blocks
  <2> QED
      BY <1>1, <1>2, <1>4, <2>1, <2>2, <2>3, Moved
<1>5. CASE Set([Top EXCEPT !.entry = 1]) /\ UNCHANGED faults
  <2> DEFINE f == [Top EXCEPT !.entry = 1]
  <2>1. Set(f)
      BY <1>5
  <2>2. /\ f \in Frame /\ f.inode = Top.inode /\ f.context = Top.context
        /\ f.failed = Top.failed /\ f.block = Top.block /\ f.entry = 1
      BY <1>1, <1>2 DEF Frame
  <2> HIDE DEF f
  <2>3. 1 <= Len(Current.entries) + 1 /\ Top.block \in 1..(Len(Blocks) + 1) /\ Top.block <= Len(Blocks)
      BY <1>1, <1>2
  <2>4. Placed(f)
      BY <2>2, <2>3 DEF Placed, Blocks, Current
  <2> QED
      BY <1>1, <1>2, <1>5, <2>1, <2>2, <2>4, Moved
<1>6. CASE /\ Set([Top EXCEPT !.block = @ + 1, !.failed = TRUE])
           /\ faults' = faults \cup {"block"}
  <2> DEFINE bad == TRUE
             f == [Top EXCEPT !.block = b, !.failed = bad]
  <2>1. Set(f) /\ bad \in BOOLEAN /\ bad
      BY <1>6
  <2> HIDE DEF b, bad
  <2>2. /\ f \in Frame /\ f.inode = Top.inode /\ f.context = Top.context
        /\ f.failed = bad /\ f.block = b /\ f.entry = 0
      BY <1>1, <1>2, <1>3, <2>1 DEF Frame
  <2> HIDE DEF f
  <2>3. Placed(f)
      BY <1>3, <2>2 DEF Placed, Blocks
  <2>4. faults' \subseteq Fault /\ faults' # {}
      BY <1>2, <1>6 DEF Fault
  <2> QED
      BY <1>1, <2>1, <2>2, <2>3, <2>4, Moved
<1> QED
    BY <1>4, <1>5, <1>6 DEF OpenBlock

(* The listing goes to the next block.                                     *)
LEMMA CloseBlockStep == IInv /\ CloseBlock => IInv'
<1> SUFFICES ASSUME IInv, CloseBlock PROVE IInv'
    OBVIOUS
<1>1. /\ pc = "run" /\ stack # << >> /\ TypeOK /\ Top.entry > 0 /\ Set([Top EXCEPT !.block = @ + 1, !.entry = 0])
      /\ UNCHANGED <<input, visited, status, found, pc, result, listed, handed, faults>>
    BY DEF CloseBlock, IInv, WalkInv
<1>2. /\ Top \in Frame /\ Top.block \in 1..Len(Blocks) /\ Len(Blocks) \in Nat /\ faults \subseteq Fault
    BY <1>1, TopType DEF TypeOK
<1> DEFINE b == Top.block + 1
           f == [Top EXCEPT !.block = b, !.entry = 0]
<1>3. b \in 1..(Len(Blocks) + 1) /\ b \in Nat
    BY <1>2
<1>4. Set(f)
    BY <1>1
<1> HIDE DEF b
<1>5. /\ f \in Frame /\ f.inode = Top.inode /\ f.context = Top.context
      /\ f.failed = Top.failed /\ f.block = b /\ f.entry = 0
    BY <1>2, <1>3 DEF Frame
<1> HIDE DEF f
<1>6. Placed(f)
    BY <1>3, <1>5 DEF Placed, Blocks
<1> QED
    BY <1>1, <1>2, <1>4, <1>5, <1>6, Moved

(* An unused record is passed over.                                        *)
LEMMA SkipRecordStep == IInv /\ SkipRecord => IInv'
<1> SUFFICES ASSUME IInv, SkipRecord PROVE IInv'
    OBVIOUS
<1>1. /\ AtRecord /\ stack # << >> /\ TypeOK /\ Set(After(Record)) /\ Record.defect = "none"
      /\ UNCHANGED <<input, visited, status, found, pc, result, listed, handed, faults>>
    BY DEF SkipRecord, HandedOn, IInv, WalkInv, AtRecord
<1>2. faults \subseteq Fault /\ pc = "run"
    BY <1>1 DEF TypeOK, AtRecord
<1> QED
    BY <1>1, <1>2, AfterType, Moved

(* The record just handed over is one of the directory's.                  *)
LEMMA HandedType ==
    ASSUME TypeOK, stack # << >>, AtRecord, Hand
    PROVE  handed' \subseteq Inode \X Nat \X Nat
<1>1. Top.inode \in Inode /\ Top.block \in Nat /\ Top.entry \in Nat
  <2>1. Top.inode \in Inode /\ Top.block \in 1..(Len(Blocks) + 1) /\ Top.entry \in Nat
      BY TopType
  <2> QED
      BY <2>1
<1>2. handed \subseteq Inode \X Nat \X Nat /\ handed' = handed \cup {<<Top.inode, Top.block, Top.entry>>}
    BY DEF TypeOK, Hand
<1> QED
    BY <1>1, <1>2

(* Behind the record, before anything is told or called.                   *)
LEMMA Stepped ==
    ASSUME IInv, AtRecord
    PROVE  LET s == Under(stack, After(Record))
           IN  /\ Frames(s) /\ s # << >> /\ Once(s, visited) /\ Told(s, status)
               /\ Failing(s) <=> Failing(stack) \/ Record.defect # "none"
<1>1. /\ TypeOK /\ stack # << >> /\ Once(stack, visited) /\ Told(stack, status)
    BY DEF IInv, WalkInv, AtRecord
<1>2. /\ After(Record) \in Frame /\ Placed(After(Record))
      /\ After(Record).inode = Top.inode /\ After(Record).context = Top.context
      /\ After(Record).failed <=> Top.failed \/ Record.defect # "none"
    BY <1>1, AfterType
<1>3. Top.failed => Failing(stack)
  <2>1. Len(stack) \in 1..Len(stack)
      BY <1>1 DEF TypeOK
  <2> QED
      BY <2>1 DEF Failing, Top
<1> HIDE DEF After
<1>4. LET s == Under(stack, After(Record))
      IN  /\ Frames(s) /\ s # << >> /\ Once(s, visited) /\ Told(s, status)
          /\ Failing(s) <=> Failing(stack) \/ After(Record).failed
    BY <1>1, <1>2, Replaced
<1> QED
    BY <1>2, <1>3, <1>4

(* A corrupt record is told to status and caller.                          *)
LEMMA CorruptRecordStep == IInv /\ CorruptRecord => IInv'
<1> SUFFICES ASSUME IInv, CorruptRecord PROVE IInv'
    OBVIOUS
<1> DEFINE s == Under(stack, After(Record))
<1>1. /\ AtRecord /\ pc = "run" /\ TypeOK /\ stack # << >> /\ Hand
      /\ stack' = Noted(s) /\ status' = Searching /\ faults' = faults \cup {"record"}
      /\ found' = (found \/ Matches(Record)) /\ Record.defect # "none"
      /\ UNCHANGED <<input, visited, pc, result, listed>>
      /\ visited \subseteq Inode /\ listed \in Seq(Inode) /\ ListedOf(listed, visited)
    BY DEF CorruptRecord, AtRecord, IInv, WalkInv, Under, TypeOK
<1>2. Frames(s) /\ s # << >> /\ Once(s, visited) /\ Told(s, status) /\ Failing(s)
    BY <1>1, Stepped
<1> HIDE DEF s
<1>3. /\ Frames(stack') /\ Len(stack') = Len(s) /\ Once(stack', visited) /\ Told(stack', status')
      /\ status' \/ Failing(stack')
  <2>1. /\ Frames(Noted(s)) /\ Len(Noted(s)) = Len(s)
        /\ \A n \in 1..Len(s) : /\ Noted(s)[n].inode = s[n].inode
                                /\ Searching => Noted(s)[n].context = s[n].context
        /\ ~Searching => Failing(Noted(s))
      BY <1>2, NotedFrames
  <2>2. Once(Noted(s), visited)
      BY <1>2, <2>1, OnceOfInodes
  <2> QED
      BY <1>1, <1>2, <2>1, <2>2 DEF Told
<1>4. stack' # << >>
    BY <1>2, <1>3 DEF Frames
<1>5. faults' \subseteq Fault /\ faults' # {} /\ status' \in BOOLEAN /\ found' \in BOOLEAN
    BY <1>1 DEF TypeOK, Fault, Searching
<1>6. handed' \subseteq Inode \X Nat \X Nat
    BY <1>1, HandedType
<1>7. Counted(stack', status', faults')
    BY <1>3, <1>5 DEF Counted
<1> QED
    BY <1>1, <1>3, <1>4, <1>5, <1>6, <1>7, Running

(* A sound record is handed over, and its directory entered.               *)
LEMMA SoundRecordStep == IInv /\ SoundRecord => IInv'
<1> SUFFICES ASSUME IInv, SoundRecord PROVE IInv'
    OBVIOUS
<1> DEFINE s == Under(stack, After(Record))
<1>1. /\ AtRecord /\ pc = "run" /\ TypeOK /\ stack # << >> /\ Hand
      /\ found' = (found \/ Matches(Record)) /\ HandedOn(Record) /\ Record.defect = "none"
      /\ IF Descends(Record) THEN Enter(Record.inode, s)
         ELSE stack' = s /\ UNCHANGED <<visited, status, faults, listed>>
      /\ UNCHANGED <<input, pc, result>>
    BY DEF SoundRecord, AtRecord, IInv, WalkInv, Under
<1>2. /\ visited \subseteq Inode /\ listed \in Seq(Inode) /\ ListedOf(listed, visited)
      /\ status \in BOOLEAN /\ faults \subseteq Fault /\ image \in Images
      /\ Counted(stack, status, faults)
    BY <1>1 DEF IInv, WalkInv, TypeOK
<1>3. /\ Frames(s) /\ s # << >> /\ Once(s, visited) /\ Told(s, status)
      /\ Failing(s) <=> Failing(stack)
    BY <1>1, Stepped
<1> HIDE DEF s
<1>4. Counted(s, status, faults)
    BY <1>2, <1>3 DEF Counted
<1>5. found' \in BOOLEAN /\ handed' \subseteq Inode \X Nat \X Nat
    BY <1>1, HandedType DEF TypeOK
<1>6. CASE Descends(Record)
  <2>1. Record.inode \in Inode
    <3>1. Record \in Entry
        BY <1>1, TopType
    <3>2. Record.inode # 0
        BY <1>1 DEF HandedOn
    <3> QED
        BY <3>1, <3>2 DEF Entry
  <2>2. /\ Frames(stack') /\ visited' \subseteq Inode /\ listed' \in Seq(Inode)
        /\ status' \in BOOLEAN /\ faults' \subseteq Fault
        /\ Once(stack', visited') /\ ListedOf(listed', visited') /\ Told(stack', status')
        /\ stack' # << >> /\ Counted(stack', status', faults')
    <3> DEFINE i == Record.inode
    <3>1. Enter(i, s) /\ i \in Inode
        BY <1>1, <1>6, <2>1
    <3> HIDE DEF i
    <3> QED
        BY <1>2, <1>3, <1>4, <3>1, EnterFrames
  <2> QED
      BY <1>1, <1>5, <2>2, Running
<1>7. CASE ~Descends(Record)
  <2>1. stack' = s /\ UNCHANGED <<visited, status, faults, listed>>
      BY <1>1, <1>7
  <2> QED
      BY <1>1, <1>2, <1>3, <1>4, <1>5, <2>1, Running
<1> QED
    BY <1>6, <1>7

(* The stack without its innermost frame.                                  *)
LEMMA Popped ==
    ASSUME TypeOK, stack # << >>, Once(stack, visited), Told(stack, status)
    PROVE  LET rest == SubSeq(stack, 1, Len(stack) - 1)
           IN  /\ Frames(rest) /\ Once(rest, visited) /\ Told(rest, status)
               /\ Failing(stack) <=> Failing(rest) \/ Top.failed \/ Top.context
               /\ Searching => ~Top.context
               /\ 1..Len(stack) = 1..Len(rest) \cup {Len(stack)}
               /\ \A n \in 1..Len(rest) : rest[n] = stack[n]
<1> DEFINE rest == SubSeq(stack, 1, Len(stack) - 1)
<1>1. /\ rest \in Seq(Frame) /\ Len(rest) = Len(stack) - 1
      /\ \A n \in 1..(Len(stack) - 1) : rest[n] = stack[n]
  <2>1. stack \in Seq(Frame) /\ Len(stack) \in Nat \ {0} /\ DOMAIN stack = 1..Len(stack)
      BY DEF TypeOK
  <2>2. \A k \in Nat \ {0} :
          /\ 1 \in 1..(k + 1) /\ k - 1 \in (1 - 1)..k
          /\ (IF 1 <= k - 1 THEN (k - 1) - 1 + 1 ELSE 0) = k - 1
      OBVIOUS
  <2>3. \A n \in 1..(Len(stack) - 1) : stack[n] \in Frame /\ n + 1 - 1 = n
      BY <2>1
  <2> QED
      BY <2>1, <2>2, <2>3, SubSeqProperties
<1>2. 1..Len(stack) = 1..Len(rest) \cup {Len(stack)} /\ Len(rest) \in Nat
  <2>1. Len(stack) \in Nat \ {0}
      BY DEF TypeOK
  <2>2. \A k \in Nat \ {0} : 1..k = 1..(k - 1) \cup {k} /\ k - 1 \in Nat
      OBVIOUS
  <2> HIDE DEF rest
  <2> QED
      BY <1>1, <2>1, <2>2
<1> HIDE DEF rest
<1>3. \A n \in 1..Len(rest) : n \in 1..Len(stack) /\ rest[n] = stack[n]
    BY <1>1, <1>2
<1>4. Frames(rest)
  <2>1. Frames(stack)
      BY TopType
  <2> QED
      BY <1>1, <1>3, <2>1 DEF Frames
<1>5. Once(rest, visited) /\ Told(rest, status)
    BY <1>3 DEF Once, Told
<1>6. Failing(stack) <=> Failing(rest) \/ Top.failed \/ Top.context
    BY <1>2, <1>3 DEF Failing, Top
<1>7. Searching => ~Top.context
    BY <1>2 DEF Told, Top
<1> QED
    BY <1>2, <1>3, <1>4, <1>5, <1>6, <1>7 DEF rest

(* A return tells its caller whatever failed below it; the outermost makes *)
(* it the status of the command.                                           *)
LEMMA Returned ==
    ASSUME IInv, pc = "run", NEW bad \in BOOLEAN, ReturnWith(bad), faults' \subseteq Fault,
           \/ faults' = faults /\ (bad <=> Top.failed)
           \/ faults' # {} /\ bad
    PROVE  IInv'
<1> DEFINE rest == SubSeq(stack, 1, Len(stack) - 1)
           outer == IF Searching THEN status \/ bad ELSE Top.context \/ bad
<1>1. /\ TypeOK /\ stack # << >> /\ Once(stack, visited) /\ ListedOf(listed, visited)
      /\ Told(stack, status) /\ Counted(stack, status, faults)
    BY DEF IInv, WalkInv
<1>2. /\ stack' = IF outer THEN Noted(rest) ELSE rest
      /\ status' = (status \/ (Searching /\ bad))
      /\ IF rest = << >> THEN pc' = "done" /\ result' = Outcome(outer) ELSE UNCHANGED <<pc, result>>
      /\ UNCHANGED <<input, visited, found, listed, handed>>
    BY DEF ReturnWith
<1>3. /\ Frames(rest) /\ Once(rest, visited) /\ Told(rest, status)
      /\ Failing(stack) <=> Failing(rest) \/ Top.failed \/ Top.context
      /\ Searching => ~Top.context
    BY <1>1, Popped
<1>4. status \in BOOLEAN /\ status' \in BOOLEAN /\ outer \in BOOLEAN
    BY <1>1, <1>2 DEF TypeOK
<1> HIDE DEF rest
<1>5. /\ Frames(Noted(rest)) /\ Len(Noted(rest)) = Len(rest)
      /\ \A n \in 1..Len(rest) : /\ Noted(rest)[n].inode = rest[n].inode
                                 /\ Searching => Noted(rest)[n].context = rest[n].context
      /\ Searching => Failing(Noted(rest)) = Failing(rest)
      /\ ~Searching /\ rest # << >> => Failing(Noted(rest))
    BY <1>3, NotedFrames
<1>6. Once(Noted(rest), visited)
    BY <1>3, <1>5, OnceOfInodes
<1>7. Frames(stack') /\ Len(stack') = Len(rest) /\ Once(stack', visited) /\ Told(stack', status')
  <2>1. Told(Noted(rest), status') /\ Told(rest, status')
      BY <1>2, <1>3, <1>5 DEF Told
  <2> QED
      BY <1>2, <1>3, <1>5, <1>6, <2>1
<1>8. /\ ~Searching => ~status
      /\ faults' # {} <=> IF Searching THEN status' \/ Failing(rest) ELSE outer \/ Failing(rest)
  <2>1. ~Searching => ~status
      BY <1>1 DEF Told
  <2>2. faults # {} <=> status \/ Failing(rest) \/ Top.failed \/ Top.context
      BY <1>1, <1>3 DEF Counted
  <2> QED
      BY <1>2, <1>3, <2>1, <2>2
<1>9. UNCHANGED <<image, mode, start, needle>>
    BY <1>2 DEF input
<1>10. CASE rest # << >>
  <2>1. stack' # << >>
      BY <1>3, <1>7, <1>10 DEF Frames
  <2>2. Counted(stack', status', faults')
    <3>1. CASE Searching
        BY <1>2, <1>5, <1>8, <3>1 DEF Counted
    <3>2. CASE ~Searching
        BY <1>2, <1>5, <1>8, <1>10, <3>2 DEF Counted
    <3> QED
        BY <3>1, <3>2
  <2>3. UNCHANGED <<pc, result>>
      BY <1>2, <1>10
  <2> HIDE DEF outer
  <2> QED
      BY <1>1, <1>2, <1>4, <1>7, <2>1, <2>2, <2>3, Running DEF TypeOK
<1>11. CASE rest = << >>
  <2>1. ~Failing(rest)
      BY <1>11 DEF Failing
  <2>2. faults' # {} <=> outer
      BY <1>2, <1>8, <2>1
  <2>3. pc' = "done" /\ result' = Outcome(outer)
      BY <1>2, <1>11
  <2> HIDE DEF outer
  <2>4. TypeOK'
    <3>1. result' \in {0, 1}
        BY <2>3 DEF Outcome
    <3> QED
        BY <1>1, <1>2, <1>4, <1>7, <1>9, <2>3, <3>1 DEF TypeOK, Frames, Placed
  <2>5. StatusIsHonest'
      BY <1>2, <1>9, <2>2, <2>3 DEF Outcome, StatusIsHonest
  <2>6. Once(stack, visited)' /\ ListedOf(listed, visited)' /\ Told(stack, status)'
      BY <1>1, <1>2, <1>7, <1>9 DEF Once, ListedOf, Told, Searching
  <2> QED
      BY <2>3, <2>4, <2>5, <2>6 DEF IInv, WalkInv
<1> QED
    BY <1>10, <1>11

(* A listing returns, complete or not.                                     *)
LEMMA ReturnStep == IInv /\ (Return \/ TreeFails) => IInv'
<1> SUFFICES ASSUME IInv, Return \/ TreeFails PROVE IInv'
    OBVIOUS
<1>1. TypeOK /\ stack # << >> /\ pc = "run" /\ faults \subseteq Fault
    BY DEF IInv, WalkInv, TypeOK, Return, TreeFails
<1>2. CASE Return
  <2>1. Top.failed \in BOOLEAN
      BY <1>1, TopType
  <2>2. ReturnWith(Top.failed) /\ faults' = faults
      BY <1>2 DEF Return
  <2>3. PICK bad \in BOOLEAN : (bad <=> Top.failed) /\ ReturnWith(bad)
      BY <2>1, <2>2, Zenon
  <2> QED
      BY <1>1, <2>2, <2>3, Returned
<1>3. CASE TreeFails
  <2>1. PICK bad \in BOOLEAN : bad /\ ReturnWith(bad)
      BY <1>3, Zenon DEF TreeFails
  <2>2. faults' \subseteq Fault /\ faults' # {}
      BY <1>1, <1>3 DEF TreeFails, Fault
  <2> QED
      BY <1>1, <2>1, <2>2, Returned
<1> QED
    BY <1>2, <1>3

(* The command enters its start.                                           *)
LEMMA CallStep == IInv /\ Call => IInv'
<1> SUFFICES ASSUME IInv, Call PROVE IInv'
    OBVIOUS
<1>1. /\ Enter(start, << >>) /\ UNCHANGED <<image, mode, start, needle, found, handed>>
      /\ IF stack' = << >> THEN pc' = "done" /\ result' = Outcome(TRUE)
         ELSE pc' = "run" /\ UNCHANGED result
    BY DEF Call, input
<1>2. /\ TypeOK /\ stack = << >> /\ visited = {} /\ faults = {} /\ ~status
      /\ ListedOf(listed, visited)
    BY DEF IInv, WalkInv, Call
<1>3. /\ image \in Images /\ visited \subseteq Inode /\ listed \in Seq(Inode) /\ status \in BOOLEAN
      /\ faults \subseteq Fault /\ start \in Inode
    BY <1>2 DEF TypeOK
<1>4. Frames(<< >>) /\ Once(<< >>, visited) /\ Told(<< >>, status)
    BY <1>2 DEF Frames, Once, Told
<1> DEFINE s == << >>
<1>5. /\ Frames(stack') /\ visited' \subseteq Inode /\ listed' \in Seq(Inode)
      /\ status' \in BOOLEAN /\ faults' \subseteq Fault
      /\ Once(stack', visited') /\ ListedOf(listed', visited') /\ Told(stack', status')
      /\ IF stack' = << >> THEN faults' # {} ELSE Counted(stack', status', faults')
    BY <1>1, <1>2, <1>3, <1>4, EnterFrames
<1>6. result' \in {0, 1} /\ pc' \in {"run", "done"}
    BY <1>1, <1>2 DEF Outcome, TypeOK
<1>7. TypeOK'
    BY <1>1, <1>2, <1>5, <1>6 DEF TypeOK, Frames, Placed
<1>8. StatusIsHonest'
    BY <1>1, <1>5 DEF StatusIsHonest, Outcome
<1>9. /\ Once(stack, visited)' /\ ListedOf(listed, visited)' /\ Told(stack, status)'
      /\ pc' = "run" => stack' # << >> /\ Counted(stack, status, faults)'
    BY <1>1, <1>5 DEF Once, ListedOf, Told, Searching, Counted, Failing
<1> QED
    BY <1>6, <1>7, <1>8, <1>9 DEF IInv, WalkInv

(* The invariant holds in every reachable state.                           *)
LEMMA Invariant == Spec => []IInv
<1>1. IInv /\ [Next]_vars => IInv'
  <2> SUFFICES ASSUME IInv, [Next]_vars PROVE IInv'
      OBVIOUS
  <2>1. CASE UNCHANGED vars
    <3>1. UNCHANGED <<image, mode, start, needle, stack, visited, status, found, pc, result, listed, handed, faults>>
        BY <2>1 DEF vars, input
    <3> QED
        BY <3>1 DEF IInv, TypeOK, WalkInv, Once, ListedOf, Told, Searching, Counted, Failing, StatusIsHonest
  <2> QED
      BY <2>1, CallStep, OpenBlockStep, SkipRecordStep, CorruptRecordStep, SoundRecordStep,
         CloseBlockStep, ReturnStep DEF Next
<1> QED
    BY InitInv, <1>1, PTL DEF Spec

(* The position of every active listing is inside its directory.           *)
THEOREM TypeCorrect == Spec => []TypeOK
<1>1. IInv => TypeOK
    BY DEF IInv
<1> QED
    BY Invariant, <1>1, PTL

(* No directory is listed twice, nor inside itself, on any graph.          *)
THEOREM DirectoriesListedOnce == Spec => []ListedOnce
<1>1. IInv => ListedOnce
    BY DEF IInv, WalkInv, Once, ListedOf, ListedOnce
<1> QED
    BY Invariant, <1>1, PTL

(* The status is that of the worst thing that happened in any frame.       *)
THEOREM HonestStatus == Spec => []StatusIsHonest
<1>1. IInv => StatusIsHonest
    BY DEF IInv, WalkInv
<1> QED
    BY Invariant, <1>1, PTL

-----------------------------------------------------------------------------
(* The tree *)

(* Every record of a directory is an entry, and names an inode when it is  *)
(* a subdirectory.                                                         *)
LEMMA RecordType ==
    ASSUME image \in Images, NEW i \in Inode, NEW r \in Records(i)
    PROVE  /\ r[1] = i /\ r[2] \in 1..Len(image[i].blocks)
           /\ r[3] \in 1..Len(image[i].blocks[r[2]].entries)
           /\ ~image[i].blocks[r[2]].beyond
           /\ At(r) \in Entry
           /\ At(r).inode # 0 \/ At(r).defect # "none"
           /\ \A m \in 1..(r[3] - 1) : image[i].blocks[r[2]].entries[m].defect # "fatal"
           /\ Subdirectory(At(r)) => At(r).inode \in Inode
           /\ r = <<i, r[2], r[3]>>
<1>1. PICK b \in 1..Len(image[i].blocks) :
         LET block == image[i].blocks[b]
         IN  \E n \in 1..Len(block.entries) :
               /\ r = <<i, b, n>> /\ ~block.beyond
               /\ block.entries[n].inode # 0 \/ block.entries[n].defect # "none"
               /\ \A m \in 1..(n - 1) : block.entries[m].defect # "fatal"
    BY DEF Records
<1>2. PICK n \in 1..Len(image[i].blocks[b].entries) :
         /\ r = <<i, b, n>> /\ ~image[i].blocks[b].beyond
         /\ image[i].blocks[b].entries[n].inode # 0 \/ image[i].blocks[b].entries[n].defect # "none"
         /\ \A m \in 1..(n - 1) : image[i].blocks[b].entries[m].defect # "fatal"
    BY <1>1
<1>3. r[1] = i /\ r[2] = b /\ r[3] = n
    BY <1>2
<1>4. At(r) = image[i].blocks[b].entries[n]
    BY <1>3 DEF At
<1>5. At(r) \in Entry
  <2>1. image[i].blocks \in Seq(Block) /\ \A c \in DOMAIN image[i].blocks : image[i].blocks[c].entries \in Seq(Entry)
      BY NodeType
  <2>2. image[i].blocks[b].entries \in Seq(Entry)
      BY <2>1
  <2> QED
      BY <1>4, <2>2
<1>6. Subdirectory(At(r)) => At(r).inode \in Inode
    BY <1>2, <1>4, <1>5 DEF Subdirectory, Entry
<1> QED
    BY <1>2, <1>3, <1>4, <1>5, <1>6

(* And a position with these marks is a record.                            *)
LEMMA RecordAt ==
    ASSUME NEW i, NEW b \in 1..Len(image[i].blocks), ~image[i].blocks[b].beyond,
           NEW n \in 1..Len(image[i].blocks[b].entries), HandedOn(image[i].blocks[b].entries[n]),
           \A m \in 1..(n - 1) : image[i].blocks[b].entries[m].defect # "fatal"
    PROVE  <<i, b, n>> \in Records(i) /\ At(<<i, b, n>>) = image[i].blocks[b].entries[n]
BY SMTT(30) DEF Records, At, HandedOn

(* The start is in the tree if it is a directory.                          *)
LEMMA BelowStart == ASSUME start \in Inode, image[start].dir PROVE start \in Below
BY DEF Below, Closed

(* The tree has the subdirectories of its directories.                     *)
LEMMA BelowChild ==
    ASSUME image \in Images, NEW i \in Below, NEW r \in Records(i), Subdirectory(At(r)),
           image[At(r).inode].dir
    PROVE  At(r).inode \in Below
<1>1. i \in Inode /\ image[i].dir /\ \A S \in SUBSET Inode : Closed(S) => i \in S
    BY DEF Below
<1>2. At(r).inode \in Children(i)
    BY DEF Children
<1>3. \A S \in SUBSET Inode : Closed(S) => At(r).inode \in S
    BY <1>1, <1>2 DEF Closed
<1>4. At(r).inode \in Inode
    BY <1>1, RecordType
<1> QED
    BY <1>3, <1>4 DEF Below

(* It is contained in every set that has the start and is closed.          *)
LEMMA BelowWithin ==
    ASSUME NEW S \in SUBSET Inode, start \in S,
           \A i \in S : \A r \in Records(i) : Subdirectory(At(r)) => At(r).inode \in S
    PROVE  Below \subseteq S
<1>1. \A i \in S : Children(i) \subseteq S
    BY DEF Children
<1> QED
    BY <1>1 DEF Below, Closed

-----------------------------------------------------------------------------
(* The invariant *)

(* A listing is in a block it may read, and has not met a record that ends *)
(* the block.                                                              *)
InBlock(f) ==
    f.entry > 0 =>
        LET block == image[f.inode].blocks[f.block]
        IN  ~block.beyond /\ \A m \in 1..(f.entry - 1) : block.entries[m].defect # "fatal"

(* What is listed and handed over belongs to the tree, and what a search   *)
(* has found is among the records handed over.                             *)
Reach(s, h, list, hit) ==
    /\ \A n \in 1..Len(s) : s[n].inode \in Below /\ InBlock(s[n])
    /\ \A n \in 1..Len(list) : list[n] \in Below
    /\ \A w \in h : w[1] \in Below /\ w \in Records(w[1])
    /\ hit <=> \E w \in h : Matches(At(w))

(* A record that has been handed over, and visited if it is a directory.   *)
Handled(r, h, seen) == r \in h /\ (Subdirectory(At(r)) => At(r).inode \in seen)

Before(r, f) == r[2] < f.block \/ (r[2] = f.block /\ r[3] < f.entry)

Looked(f, h, seen) == \A r \in Records(f.inode) : Before(r, f) => Handled(r, h, seen)

Complete(i, h, seen) == \A r \in Records(i) : Handled(r, h, seen)

(* As long as nothing fails, what was visited is listed, and every listing *)
(* that has returned was complete; known are the inodes visited, and while *)
(* a call is made the one called.                                          *)
Followed(s, seen, known, h, list) ==
    /\ seen = {list[n] : n \in 1..Len(list)}
    /\ \A n \in 1..Len(s) : Looked(s[n], h, known)
    /\ \A i \in seen : (\E n \in 1..Len(s) : s[n].inode = i) \/ Complete(i, h, known)

GraphInv ==
    /\ Reach(stack, handed, listed, found)
    /\ faults = {} => Followed(stack, visited, visited, handed, listed)
    /\ pc # "call" /\ faults = {} => start \in visited
    /\ pc = "done" => stack = << >>

-----------------------------------------------------------------------------
(* What the invariant is made of, kept by the parts of a step *)

(* The innermost listing moves to another place in its directory.          *)
LEMMA MovedReach ==
    ASSUME TypeOK, stack # << >>, NEW f \in Frame, f.inode = Top.inode, InBlock(f),
           NEW h, NEW hit, Reach(stack, h, listed, hit)
    PROVE  Reach(Under(stack, f), h, listed, hit)
<1> DEFINE s == Under(stack, f)
<1>1. /\ Len(s) = Len(stack) /\ Len(stack) \in 1..Len(stack) /\ s[Len(stack)] = f
      /\ \A n \in 1..Len(stack) : n # Len(stack) => s[n] = stack[n]
    BY UnderFrames DEF TypeOK
<1>2. Top.inode \in Below
    BY <1>1 DEF Reach, Top
<1> HIDE DEF s
<1> QED
    BY <1>1, <1>2 DEF Reach, s

(* The same, behind a record that has been handed over and followed.       *)
LEMMA MovedFollowed ==
    ASSUME TypeOK, stack # << >>, NEW f \in Frame, f.inode = Top.inode,
           Followed(stack, visited, visited, handed, listed),
           NEW h, handed \subseteq h, NEW w, visited \subseteq w, Looked(f, h, w)
    PROVE  Followed(Under(stack, f), visited, w, h, listed)
<1> DEFINE s == Under(stack, f)
<1>1. /\ Len(s) = Len(stack) /\ Len(stack) \in 1..Len(stack) /\ s[Len(stack)] = f
      /\ \A n \in 1..Len(stack) : n # Len(stack) => s[n] = stack[n]
    BY UnderFrames DEF TypeOK
<1> HIDE DEF s
<1>2. \A r : Handled(r, handed, visited) => Handled(r, h, w)
    BY DEF Handled
<1>3. \A n \in 1..Len(stack) : Looked(stack[n], h, w)
    BY <1>2 DEF Followed, Looked
<1>4. \A n \in 1..Len(s) : Looked(s[n], h, w)
    BY <1>1, <1>3
<1>5. \A n \in 1..Len(stack) : s[n].inode = stack[n].inode
    BY <1>1 DEF Top
<1>6. ASSUME NEW i \in visited
      PROVE  (\E n \in 1..Len(s) : s[n].inode = i) \/ Complete(i, h, w)
  <2>1. (\E n \in 1..Len(stack) : stack[n].inode = i) \/ Complete(i, handed, visited)
      BY DEF Followed
  <2>2. Complete(i, handed, visited) => Complete(i, h, w)
      BY <1>2 DEF Complete
  <2> QED
      BY <1>1, <1>5, <2>1, <2>2
<1> QED
    BY <1>4, <1>6 DEF Followed, s

(* Telling the caller of a failure changes no position.                    *)
LEMMA NotedKeeps ==
    ASSUME NEW s, Frames(s), NEW h, NEW hit, NEW list, NEW seen
    PROVE  /\ Reach(s, h, list, hit) => Reach(Noted(s), h, list, hit)
           /\ Followed(s, seen, seen, h, list) => Followed(Noted(s), seen, seen, h, list)
<1> DEFINE t == Noted(s)
<1>1. /\ Len(t) = Len(s)
      /\ \A n \in 1..Len(s) : /\ t[n].inode = s[n].inode /\ t[n].block = s[n].block
                               /\ t[n].entry = s[n].entry
    BY NotedFrames
<1> HIDE DEF t
<1>2. \A n \in 1..Len(s) : InBlock(s[n]) => InBlock(t[n])
    BY <1>1 DEF InBlock
<1>3. \A n \in 1..Len(s) : Looked(s[n], h, seen) => Looked(t[n], h, seen)
    BY <1>1 DEF Looked, Before
<1>4. Reach(s, h, list, hit) => Reach(t, h, list, hit)
    BY <1>1, <1>2 DEF Reach
<1>5. Followed(s, seen, seen, h, list) => Followed(t, seen, seen, h, list)
  <2> SUFFICES ASSUME Followed(s, seen, seen, h, list) PROVE Followed(t, seen, seen, h, list)
      OBVIOUS
  <2>1. \A n \in 1..Len(t) : Looked(t[n], h, seen)
      BY <1>1, <1>3 DEF Followed
  <2>2. \A i \in seen : (\E n \in 1..Len(t) : t[n].inode = i) \/ Complete(i, h, seen)
      BY <1>1 DEF Followed
  <2> QED
      BY <2>1, <2>2 DEF Followed
<1> QED
    BY <1>4, <1>5 DEF t

(* A call on an inode that is in the tree if it is a directory.            *)
LEMMA EnterReach ==
    ASSUME image \in Images, listed \in Seq(Inode), NEW i \in Inode, image[i].dir => i \in Below,
           NEW s, Frames(s), NEW h, NEW hit, Reach(s, h, listed, hit), Enter(i, s)
    PROVE  Reach(stack', h, listed', hit)
<1>1. CASE stack' = Noted(s) /\ listed' = listed
    BY <1>1, NotedKeeps
<1>2. CASE stack' = s /\ listed' = listed
    BY <1>2
<1>3. CASE /\ image[i].dir
           /\ stack' = Append(s, [inode |-> i, block |-> 1, entry |-> 0,
                                  failed |-> FALSE, context |-> FALSE])
           /\ listed' = Append(listed, i)
  <2> DEFINE f == [inode |-> i, block |-> 1, entry |-> 0, failed |-> FALSE, context |-> FALSE]
  <2>1. f.inode = i /\ InBlock(f) /\ f \in Frame
      BY DEF InBlock, Frame
  <2> HIDE DEF f
  <2>2. s \in Seq(Frame) /\ stack' = Append(s, f)
      BY <1>3 DEF f, Frames
  <2>3. /\ stack'[Len(s) + 1] = f /\ 1..Len(stack') = 1..Len(s) \cup {Len(s) + 1}
        /\ \A n \in 1..Len(s) : stack'[n] = s[n]
      BY <2>1, <2>2
  <2>4. /\ listed'[Len(listed) + 1] = i /\ 1..Len(listed') = 1..Len(listed) \cup {Len(listed) + 1}
        /\ \A n \in 1..Len(listed) : listed'[n] = listed[n]
      BY <1>3
  <2>5. \A n \in 1..Len(stack') : stack'[n].inode \in Below /\ InBlock(stack'[n])
      BY <1>3, <2>1, <2>3 DEF Reach
  <2>6. \A n \in 1..Len(listed') : listed'[n] \in Below
      BY <1>3, <2>4 DEF Reach
  <2> QED
      BY <2>5, <2>6 DEF Reach
<1> QED
    BY <1>1, <1>2, <1>3 DEF Enter, Refuse

(* A call in which nothing fails visits the inode, and either lists it now *)
(* or has done so before.                                                  *)
LEMMA EnterFollowed ==
    ASSUME image \in Images, listed \in Seq(Inode), NEW i \in Inode,
           NEW s, Frames(s), Enter(i, s), faults' = {}
    PROVE  /\ faults = {} /\ visited' = visited \cup {i}
           /\ \A h : Followed(s, visited, visited \cup {i}, h, listed)
                     => Followed(stack', visited', visited', h, listed')
<1>1. \A why : ~Refuse(s, why)
    BY DEF Refuse
<1>2. CASE Seen(i) /\ stack' = s /\ UNCHANGED <<visited, status, faults, listed>>
  <2>1. visited \cup {i} = visited
      BY <1>2 DEF Seen
  <2> QED
      BY <1>2, <2>1
<1>3. CASE /\ visited' = visited \cup {i}
           /\ stack' = Append(s, [inode |-> i, block |-> 1, entry |-> 0,
                                  failed |-> FALSE, context |-> FALSE])
           /\ listed' = Append(listed, i)
           /\ UNCHANGED <<status, faults>>
  <2> DEFINE f == [inode |-> i, block |-> 1, entry |-> 0, failed |-> FALSE, context |-> FALSE]
  <2>1. f.inode = i /\ f.block = 1 /\ f.entry = 0 /\ f \in Frame
      BY DEF Frame
  <2> HIDE DEF f
  <2>2. s \in Seq(Frame) /\ stack' = Append(s, f)
      BY <1>3 DEF f, Frames
  <2>3. /\ stack'[Len(s) + 1] = f /\ 1..Len(stack') = 1..Len(s) \cup {Len(s) + 1}
        /\ \A n \in 1..Len(s) : stack'[n] = s[n]
      BY <2>1, <2>2
  <2>4. /\ listed'[Len(listed) + 1] = i /\ 1..Len(listed') = 1..Len(listed) \cup {Len(listed) + 1}
        /\ \A n \in 1..Len(listed) : listed'[n] = listed[n]
      BY <1>3
  <2>5. ASSUME NEW h, Followed(s, visited, visited \cup {i}, h, listed)
        PROVE  Followed(stack', visited', visited', h, listed')
    <3>1. Looked(f, h, visited')
      <4>1. \A r \in Records(i) : r[2] \in Nat /\ r[2] >= 1 /\ r[3] \in Nat /\ r[3] >= 1
          BY RecordType
      <4> QED
          BY <2>1, <4>1 DEF Looked, Before
    <3>2. \A n \in 1..Len(stack') : Looked(stack'[n], h, visited')
        BY <1>3, <2>3, <2>5, <3>1 DEF Followed
    <3>3. \A j \in visited' : (\E n \in 1..Len(stack') : stack'[n].inode = j) \/ Complete(j, h, visited')
        BY <1>3, <2>1, <2>3, <2>5 DEF Followed
    <3>4. visited' = {listed'[n] : n \in 1..Len(listed')}
        BY <1>3, <2>4, <2>5 DEF Followed
    <3> QED
        BY <3>2, <3>3, <3>4 DEF Followed
  <2> QED
      BY <1>3, <2>5
<1> QED
    BY <1>1, <1>2, <1>3 DEF Enter

-----------------------------------------------------------------------------
(* Steps *)

(* The record the innermost listing is at is one of its directory's.       *)
LEMMA AtTop ==
    ASSUME TypeOK, stack # << >>, AtRecord, InBlock(Top), HandedOn(Record)
    PROVE  LET r == <<Top.inode, Top.block, Top.entry>>
           IN  r \in Records(Top.inode) /\ At(r) = Record
<1>1. /\ Top.block \in 1..Len(Blocks) /\ Top.entry \in 1..Len(Current.entries)
      /\ ~Current.beyond /\ \A m \in 1..(Top.entry - 1) : Current.entries[m].defect # "fatal"
  <2>1. Top.entry > 0 /\ Top.entry <= Len(Current.entries)
      BY DEF AtRecord
  <2>2. Top.block \in 1..Len(Blocks) /\ Top.entry \in Nat /\ Current.entries \in Seq(Entry)
      BY <2>1, TopType
  <2>3. ~Current.beyond /\ \A m \in 1..(Top.entry - 1) : Current.entries[m].defect # "fatal"
      BY <2>1 DEF InBlock, Current, Blocks
  <2>4. Top.entry \in 1..Len(Current.entries)
      BY <2>1, <2>2
  <2> QED
      BY <2>2, <2>3, <2>4
<1> QED
    BY <1>1, RecordAt DEF Record, Current, Blocks

(* Behind a record that is not fatal, what lies before is what lay before  *)
(* and the record itself.                                                  *)
LEMMA AfterLooked ==
    ASSUME TypeOK, stack # << >>, AtRecord, Record.defect = "none",
           NEW h, handed \subseteq h, NEW w, visited \subseteq w, Looked(Top, handed, visited),
           HandedOn(Record) => Handled(<<Top.inode, Top.block, Top.entry>>, h, w)
    PROVE  Looked(After(Record), h, w)
<1> DEFINE e == Top.entry + 1
<1>1. /\ Top \in Frame /\ Top.inode \in Inode /\ Top.block \in Nat /\ Top.entry \in Nat /\ image \in Images
      /\ Top.failed \in BOOLEAN
  <2>1. Top \in Frame /\ Top.inode \in Inode /\ Top.block \in 1..(Len(Blocks) + 1) /\ Top.entry \in Nat
        /\ Top.failed \in BOOLEAN
      BY TopType
  <2> QED
      BY <2>1 DEF TypeOK
<1>2. /\ After(Record).inode = Top.inode /\ After(Record).block = Top.block
      /\ After(Record).entry = e
    BY <1>1 DEF After, Past, Frame
<1>3. ASSUME NEW r \in Records(Top.inode), Before(r, After(Record))
      PROVE  Handled(r, h, w)
  <2>1. /\ r[1] = Top.inode /\ r[2] \in Nat /\ r[3] \in Nat /\ r = <<Top.inode, r[2], r[3]>>
        /\ At(r).inode # 0 \/ At(r).defect # "none"
      BY <1>1, RecordType
  <2>2. CASE Before(r, Top)
      BY <2>2 DEF Looked, Handled
  <2>3. CASE ~Before(r, Top)
    <3>1. r[2] = Top.block /\ r[3] = Top.entry
        BY <1>1, <1>2, <1>3, <2>1, <2>3 DEF Before
    <3>2. At(r) = Record
        BY <2>1, <3>1 DEF At, Record, Current, Blocks
    <3>3. HandedOn(Record)
        BY <2>1, <3>2 DEF HandedOn
    <3> QED
        BY <2>1, <3>1, <3>3
  <2> QED
      BY <2>2, <2>3
<1> QED
    BY <1>2, <1>3 DEF Looked

(* Behind any record the listing is still in its block, or out of it.      *)
LEMMA AfterInBlock ==
    ASSUME TypeOK, stack # << >>, AtRecord, InBlock(Top)
    PROVE  InBlock(After(Record))
<1>1. /\ Top \in Frame /\ Top.block \in Nat /\ Top.entry \in Nat /\ Top.failed \in BOOLEAN /\ Top.entry > 0
  <2>1. Top \in Frame /\ Top.block \in 1..(Len(Blocks) + 1) /\ Top.entry \in Nat /\ Top.failed \in BOOLEAN
      BY TopType
  <2> QED
      BY <2>1 DEF AtRecord
<1>2. CASE Record.defect = "fatal"
  <2>1. After(Record).entry = 0
      BY <1>1, <1>2 DEF After, PastBlock, Frame
  <2> QED
      BY <2>1 DEF InBlock
<1>3. CASE Record.defect # "fatal"
  <2> DEFINE e == Top.entry + 1
             bad == Top.failed \/ Record.defect # "none"
  <2>1. bad \in BOOLEAN /\ e \in Nat
      BY <1>1
  <2>2. After(Record) = [Top EXCEPT !.entry = e, !.failed = bad]
      BY <1>3 DEF After, Past
  <2> HIDE DEF bad
  <2>3. /\ After(Record).inode = Top.inode /\ After(Record).block = Top.block
        /\ After(Record).entry = e
      BY <1>1, <2>1, <2>2 DEF Frame
  <2>4. \A m \in 1..(e - 1) : m = Top.entry \/ m \in 1..(Top.entry - 1)
      BY <1>1
  <2>5. /\ ~image[Top.inode].blocks[Top.block].beyond
        /\ \A m \in 1..(Top.entry - 1) : image[Top.inode].blocks[Top.block].entries[m].defect # "fatal"
      BY <1>1 DEF InBlock
  <2>6. image[Top.inode].blocks[Top.block].entries[Top.entry].defect # "fatal"
      BY <1>3 DEF Record, Current, Blocks
  <2> HIDE DEF e
  <2> QED
      BY <2>3, <2>4, <2>5, <2>6 DEF InBlock
<1> QED
    BY <1>2, <1>3

(* What the invariant says in a state that is running.                     *)
LEMMA Here ==
    ASSUME IInv, GraphInv, pc = "run"
    PROVE  /\ TypeOK /\ stack # << >> /\ image \in Images /\ listed \in Seq(Inode)
           /\ visited \subseteq Inode /\ Top \in Frame /\ Top.inode \in Below /\ InBlock(Top)
           /\ Top = stack[Len(stack)] /\ Frames(stack)
           /\ Reach(stack, handed, listed, found)
           /\ faults = {} => /\ Followed(stack, visited, visited, handed, listed)
                             /\ Looked(Top, handed, visited) /\ start \in visited
<1>1. TypeOK /\ stack # << >>
    BY DEF IInv, WalkInv
<1>2. Frames(stack) /\ Top \in Frame
    BY <1>1, TopType
<1>3. Len(stack) \in 1..Len(stack)
    BY <1>1 DEF TypeOK
<1> QED
    BY <1>1, <1>2, <1>3 DEF GraphInv, Reach, Followed, Top, TypeOK

(* The tree does not change.                                               *)
LEMMA Kept ==
    ASSUME UNCHANGED <<image, mode, start, needle>>, Reach(stack', handed', listed', found'),
           faults' = {} => Followed(stack', visited', visited', handed', listed'),
           pc' # "call" /\ faults' = {} => start \in visited',
           pc' = "done" => stack' = << >>
    PROVE  GraphInv'
<1>1. \A i : Records(i)' = Records(i)
    BY DEF Records
<1>2. \A r : At(r)' = At(r)
    BY DEF At
<1>3. \A i : Children(i)' = Children(i)
    BY <1>1, <1>2 DEF Children, Subdirectory
<1>4. Below' = Below
    BY <1>3 DEF Below, Closed
<1>5. Reach(stack, handed, listed, found)'
    BY <1>1, <1>2, <1>4 DEF Reach, InBlock, Matches, HandedOn
<1>6. Followed(stack', visited', visited', handed', listed') => Followed(stack, visited, visited, handed, listed)'
    BY <1>1, <1>2 DEF Followed, Looked, Before, Handled, Complete, Subdirectory
<1> QED
    BY <1>5, <1>6 DEF GraphInv

(* The listing moves on without handing anything over.                     *)
LEMMA QuietStep ==
    ASSUME IInv, GraphInv, pc = "run", NEW f \in Frame, f.inode = Top.inode, InBlock(f), Set(f),
           UNCHANGED <<input, visited, found, pc, listed, handed>>,
           faults' = {} => faults = {} /\ Looked(f, handed, visited)
    PROVE  GraphInv'
<1>1. /\ UNCHANGED <<image, mode, start, needle, visited, found, pc, listed, handed>>
      /\ stack' = Under(stack, f)
    BY DEF input, Set, Under
<1>2. Reach(stack', handed, listed, found)
  <2>1. TypeOK /\ stack # << >> /\ Reach(stack, handed, listed, found)
      BY Here
  <2> QED
      BY <1>1, <2>1, MovedReach
<1>3. ASSUME faults' = {} PROVE Followed(stack', visited, visited, handed, listed) /\ start \in visited
  <2>1. /\ TypeOK /\ stack # << >> /\ Followed(stack, visited, visited, handed, listed)
        /\ start \in visited /\ Looked(f, handed, visited)
      BY <1>3, Here
  <2>2. Followed(Under(stack, f), visited, visited, handed, listed)
      BY <2>1, MovedFollowed
  <2> QED
      BY <1>1, <2>1, <2>2
<1> QED
    BY <1>1, <1>2, <1>3, Kept

(* A block outside the directory has no record, and one just begun has     *)
(* none behind.                                                            *)
LEMMA OpenBlockGraph == IInv /\ GraphInv /\ OpenBlock => GraphInv'
<1> SUFFICES ASSUME IInv, GraphInv, OpenBlock PROVE GraphInv'
    OBVIOUS
<1>1. /\ pc = "run" /\ Top.entry = 0 /\ Top.block <= Len(Blocks)
      /\ UNCHANGED <<input, visited, found, pc, listed, handed>>
    BY DEF OpenBlock
<1>2. /\ TypeOK /\ stack # << >> /\ image \in Images /\ Top \in Frame /\ Top.inode \in Inode
      /\ faults = {} => Looked(Top, handed, visited)
    BY <1>1, Here DEF Below
<1>3. /\ Top.block \in Nat /\ Top.failed \in BOOLEAN /\ Top.block \in 1..(Len(Blocks) + 1)
    BY <1>2, TopType
<1>4. \A r \in Records(Top.inode) : /\ r[2] \in Nat /\ r[3] \in Nat /\ r[3] >= 1
                                    /\ ~image[Top.inode].blocks[r[2]].beyond
    BY <1>2, RecordType
<1> DEFINE b == Top.block + 1
<1>5. b \in Nat
    BY <1>3
<1>6. CASE Current.beyond /\ Set([Top EXCEPT !.block = b]) /\ faults' = faults
  <2> DEFINE f == [Top EXCEPT !.block = b]
  <2>1. Set(f)
      BY <1>6
  <2> HIDE DEF b
  <2>2. f \in Frame /\ f.inode = Top.inode /\ f.block = b /\ f.entry = 0
      BY <1>1, <1>2, <1>5 DEF Frame
  <2> HIDE DEF f
  <2>3. \A r \in Records(Top.inode) : Before(r, f) => Before(r, Top)
      BY SMTT(30), <1>1, <1>3, <1>4, <1>6, <2>2 DEF Before, Current, Blocks, b
  <2>4. Looked(Top, handed, visited) => Looked(f, handed, visited)
      BY <2>2, <2>3 DEF Looked
  <2>5. InBlock(f)
      BY <2>2 DEF InBlock
  <2> QED
      BY <1>1, <1>2, <1>6, <2>1, <2>2, <2>4, <2>5, QuietStep
<1>7. CASE ~Current.beyond /\ Set([Top EXCEPT !.entry = 1]) /\ faults' = faults
  <2> DEFINE f == [Top EXCEPT !.entry = 1]
  <2>1. Set(f)
      BY <1>7
  <2>2. f \in Frame /\ f.inode = Top.inode /\ f.block = Top.block /\ f.entry = 1
      BY <1>1, <1>2 DEF Frame
  <2> HIDE DEF f
  <2>3. \A r \in Records(Top.inode) : Before(r, f) => Before(r, Top)
      BY <1>1, <1>3, <1>4, <2>2 DEF Before
  <2>4. Looked(Top, handed, visited) => Looked(f, handed, visited)
      BY <2>2, <2>3 DEF Looked
  <2>5. InBlock(f)
    <3>1. 1..(f.entry - 1) = {}
        BY <2>2
    <3> QED
        BY <1>7, <2>2, <3>1 DEF InBlock, Current, Blocks
  <2> QED
      BY <1>1, <1>2, <1>7, <2>1, <2>2, <2>4, <2>5, QuietStep
<1>8. CASE Set([Top EXCEPT !.block = b, !.failed = TRUE]) /\ faults' = faults \cup {"block"}
  <2> DEFINE bad == TRUE
             f == [Top EXCEPT !.block = b, !.failed = bad]
  <2>1. Set(f) /\ bad \in BOOLEAN
      BY <1>8
  <2> HIDE DEF b, bad
  <2>2. f \in Frame /\ f.inode = Top.inode /\ f.entry = 0
      BY <1>1, <1>2, <1>5, <2>1 DEF Frame
  <2> HIDE DEF f
  <2>3. InBlock(f) /\ faults' # {}
      BY <1>8, <2>2 DEF InBlock
  <2> QED
      BY <1>1, <2>1, <2>2, <2>3, QuietStep
<1> QED
    BY <1>6, <1>7, <1>8 DEF OpenBlock

(* No record is left in a block that is closed.                            *)
LEMMA CloseBlockGraph == IInv /\ GraphInv /\ CloseBlock => GraphInv'
<1> SUFFICES ASSUME IInv, GraphInv, CloseBlock PROVE GraphInv'
    OBVIOUS
<1>1. /\ pc = "run" /\ Top.entry > 0 /\ Top.entry > Len(Current.entries)
      /\ Set([Top EXCEPT !.block = @ + 1, !.entry = 0]) /\ faults' = faults
      /\ UNCHANGED <<input, visited, found, pc, listed, handed>>
    BY DEF CloseBlock
<1>2. /\ TypeOK /\ stack # << >> /\ image \in Images /\ Top \in Frame /\ Top.inode \in Inode
      /\ faults = {} => Looked(Top, handed, visited)
    BY <1>1, Here DEF Below
<1>3. Top.block \in Nat /\ Top.entry \in Nat /\ Len(Current.entries) \in Nat
  <2>1. /\ Top.block \in 1..(Len(Blocks) + 1) /\ Top.entry \in Nat
        /\ Current.entries \in Seq(Entry)
      BY <1>1, <1>2, TopType
  <2> QED
      BY <2>1
<1> DEFINE b == Top.block + 1
           f == [Top EXCEPT !.block = b, !.entry = 0]
<1>4. b \in Nat
    BY <1>3
<1>5. Set(f)
    BY <1>1
<1> HIDE DEF b
<1>6. f \in Frame /\ f.inode = Top.inode /\ f.block = b /\ f.entry = 0
    BY <1>2, <1>4 DEF Frame
<1> HIDE DEF f
<1>7. ASSUME NEW r \in Records(Top.inode), Before(r, f) PROVE Before(r, Top)
  <2>1. /\ r[2] \in Nat /\ r[3] \in Nat /\ r[3] \in 1..Len(image[Top.inode].blocks[r[2]].entries)
      BY <1>2, RecordType
  <2>2. r[2] < Top.block \/ r[2] = Top.block
      BY <1>3, <1>6, <1>7, <2>1 DEF Before, b
  <2>3. r[2] = Top.block => r[3] \in 1..Len(Current.entries)
      BY <2>1 DEF Current, Blocks
  <2>4. r[2] = Top.block => r[3] < Top.entry
      BY <1>1, <1>3, <2>3
  <2> QED
      BY <2>2, <2>4 DEF Before
<1>8. Looked(Top, handed, visited) => Looked(f, handed, visited)
    BY <1>6, <1>7 DEF Looked
<1>9. InBlock(f)
    BY <1>6 DEF InBlock
<1> QED
    BY <1>1, <1>2, <1>5, <1>6, <1>8, <1>9, QuietStep

(* An unused record is none of the tree's.                                 *)
LEMMA SkipRecordGraph == IInv /\ GraphInv /\ SkipRecord => GraphInv'
<1> SUFFICES ASSUME IInv, GraphInv, SkipRecord PROVE GraphInv'
    OBVIOUS
<1>1. /\ AtRecord /\ pc = "run" /\ ~HandedOn(Record) /\ Record.defect = "none" /\ Set(After(Record))
      /\ faults' = faults /\ UNCHANGED <<input, visited, found, pc, listed, handed>>
    BY DEF SkipRecord, AtRecord, HandedOn
<1>2. /\ TypeOK /\ stack # << >> /\ InBlock(Top)
      /\ faults = {} => Looked(Top, handed, visited)
    BY <1>1, Here
<1>3. After(Record) \in Frame /\ After(Record).inode = Top.inode
    BY <1>1, <1>2, AfterType
<1>4. InBlock(After(Record))
    BY <1>1, <1>2, AfterInBlock
<1>5. faults = {} => Looked(After(Record), handed, visited)
    BY <1>1, <1>2, AfterLooked
<1> HIDE DEF After
<1> QED
    BY <1>1, <1>3, <1>4, <1>5, QuietStep

(* A record of the tree is handed over, and compared.                      *)
LEMMA HandReach ==
    ASSUME IInv, GraphInv, AtRecord, HandedOn(Record), Hand, NEW s, NEW hit,
           Reach(s, handed, listed, found), hit <=> found \/ Matches(Record)
    PROVE  Reach(s, handed', listed, hit)
<1> DEFINE w == <<Top.inode, Top.block, Top.entry>>
<1>1. TypeOK /\ stack # << >> /\ InBlock(Top) /\ Top.inode \in Below
    BY Here DEF AtRecord
<1>2. w \in Records(Top.inode) /\ At(w) = Record
    BY <1>1, AtTop
<1>3. handed' = handed \cup {w} /\ w[1] = Top.inode
    BY DEF Hand
<1> HIDE DEF w
<1> QED
    BY <1>1, <1>2, <1>3 DEF Reach

(* A corrupt record is handed over, and there is a fault.                  *)
LEMMA CorruptRecordGraph == IInv /\ GraphInv /\ CorruptRecord => GraphInv'
<1> SUFFICES ASSUME IInv, GraphInv, CorruptRecord PROVE GraphInv'
    OBVIOUS
<1> DEFINE s == Under(stack, After(Record))
<1>1. /\ AtRecord /\ pc = "run" /\ HandedOn(Record) /\ Hand /\ stack' = Noted(s)
      /\ faults' # {} /\ (found' <=> found \/ Matches(Record))
      /\ UNCHANGED <<image, mode, start, needle, visited, pc, listed>>
    BY DEF CorruptRecord, AtRecord, HandedOn, Under, input
<1>2. TypeOK /\ stack # << >> /\ InBlock(Top) /\ Reach(stack, handed, listed, found)
    BY <1>1, Here
<1>3. /\ After(Record) \in Frame /\ After(Record).inode = Top.inode /\ InBlock(After(Record))
      /\ Frames(s)
    BY <1>1, <1>2, AfterType, AfterInBlock, Stepped
<1>4. Reach(s, handed, listed, found)
  <2> HIDE DEF After
  <2> QED
      BY <1>2, <1>3, MovedReach
<1> HIDE DEF s
<1>5. Reach(s, handed', listed, found')
    BY <1>1, <1>4, HandReach
<1>6. Reach(stack', handed', listed', found')
    BY <1>1, <1>3, <1>5, NotedKeeps
<1> QED
    BY <1>1, <1>6, Kept

(* A sound record is handed over, and followed if it is a directory.       *)
LEMMA SoundRecordGraph == IInv /\ GraphInv /\ SoundRecord => GraphInv'
<1> SUFFICES ASSUME IInv, GraphInv, SoundRecord PROVE GraphInv'
    OBVIOUS
<1> DEFINE f == After(Record)
           s == Under(stack, f)
           w == <<Top.inode, Top.block, Top.entry>>
<1>1. /\ AtRecord /\ pc = "run" /\ HandedOn(Record) /\ Record.defect = "none" /\ Hand
      /\ (found' <=> found \/ Matches(Record))
      /\ IF Descends(Record) THEN Enter(Record.inode, s)
         ELSE stack' = s /\ UNCHANGED <<visited, status, faults, listed>>
      /\ UNCHANGED <<image, mode, start, needle, pc>>
    BY DEF SoundRecord, AtRecord, Under, input
<1>2. /\ TypeOK /\ stack # << >> /\ InBlock(Top) /\ Top.inode \in Below /\ image \in Images
      /\ listed \in Seq(Inode) /\ Reach(stack, handed, listed, found)
      /\ faults = {} => /\ Followed(stack, visited, visited, handed, listed)
                        /\ Looked(Top, handed, visited) /\ start \in visited
    BY <1>1, Here
<1>3. /\ f \in Frame /\ f.inode = Top.inode /\ InBlock(f) /\ Frames(s)
    BY <1>1, <1>2, AfterType, AfterInBlock, Stepped
<1>4. w \in Records(Top.inode) /\ At(w) = Record /\ w \in handed' /\ handed \subseteq handed'
    BY <1>1, <1>2, AtTop DEF Hand
<1>5. Record \in Entry /\ (Subdirectory(Record) <=> Descends(Record))
  <2>1. Record \in Entry
      BY <1>1, <1>2, TopType
  <2>2. Record.name \in Name \cup {".", ".."}
      BY <2>1 DEF Entry
  <2> QED
      BY <1>1, <2>1, <2>2, WalkAssumption DEF Subdirectory, Descends
<1>6. ASSUME NEW seen, visited \subseteq seen, Descends(Record) => Record.inode \in seen, faults = {}
      PROVE  Followed(s, visited, seen, handed', listed)
  <2>1. Handled(w, handed', seen)
      BY <1>4, <1>5, <1>6 DEF Handled
  <2>2. Looked(f, handed', seen)
      BY <1>1, <1>2, <1>4, <1>6, <2>1, AfterLooked
  <2> HIDE DEF f
  <2> QED
      BY <1>2, <1>3, <1>4, <1>6, <2>2, MovedFollowed
<1> HIDE DEF f
<1>7. Reach(s, handed', listed, found')
  <2>1. Reach(s, handed, listed, found)
      BY <1>2, <1>3, MovedReach
  <2> HIDE DEF s
  <2> QED
      BY <1>1, <2>1, HandReach
<1> HIDE DEF s
<1>8. CASE Descends(Record)
  <2> DEFINE i == Record.inode
  <2>1. Enter(i, s)
      BY <1>1, <1>8
  <2>2. i \in Inode
      BY <1>5, <1>8 DEF Descends, HandedOn, Entry
  <2>3. image[i].dir => i \in Below
      BY <1>2, <1>4, <1>5, <1>8, BelowChild
  <2> HIDE DEF i
  <2>4. Reach(stack', handed', listed', found')
      BY <1>2, <1>3, <1>7, <2>1, <2>2, <2>3, EnterReach
  <2>5. ASSUME faults' = {}
        PROVE  Followed(stack', visited', visited', handed', listed') /\ start \in visited'
    <3>1. /\ faults = {} /\ visited' = visited \cup {i}
          /\ Followed(s, visited, visited \cup {i}, handed', listed)
                => Followed(stack', visited', visited', handed', listed')
        BY <1>2, <1>3, <2>1, <2>2, <2>5, EnterFollowed
    <3>2. Followed(s, visited, visited \cup {i}, handed', listed)
        BY <1>6, <3>1 DEF i
    <3> QED
        BY <1>2, <3>1, <3>2
  <2> QED
      BY <1>1, <2>4, <2>5, Kept
<1>9. CASE ~Descends(Record)
  <2>1. stack' = s /\ UNCHANGED <<visited, faults, listed>>
      BY <1>1, <1>9
  <2>2. faults = {} => Followed(s, visited, visited, handed', listed) /\ start \in visited
      BY <1>2, <1>6, <1>9
  <2> QED
      BY <1>1, <1>7, <2>1, <2>2, Kept
<1> QED
    BY <1>8, <1>9

(* A listing that has seen all its blocks is complete.                     *)
LEMMA ReturnGraph == IInv /\ GraphInv /\ (Return \/ TreeFails) => GraphInv'
<1> SUFFICES ASSUME IInv, GraphInv, Return \/ TreeFails PROVE GraphInv'
    OBVIOUS
<1> DEFINE rest == SubSeq(stack, 1, Len(stack) - 1)
<1>1. /\ pc = "run" /\ (stack' = rest \/ stack' = Noted(rest)) /\ (pc' = "done" => rest = << >>)
      /\ UNCHANGED <<image, mode, start, needle, visited, found, listed, handed>>
      /\ faults' = {} => Top.block = Len(Blocks) + 1 /\ faults = {}
    BY DEF Return, TreeFails, ReturnWith, input
<1>2. /\ TypeOK /\ stack # << >> /\ image \in Images /\ Top.inode \in Inode
      /\ Top = stack[Len(stack)] /\ Reach(stack, handed, listed, found)
      /\ faults = {} => /\ Followed(stack, visited, visited, handed, listed)
                        /\ Looked(Top, handed, visited) /\ start \in visited
    BY <1>1, Here DEF Below
<1>3. Frames(rest)
    BY <1>2, Popped DEF IInv, WalkInv
<1>4. 1..Len(stack) = 1..Len(rest) \cup {Len(stack)} /\ \A n \in 1..Len(rest) : rest[n] = stack[n]
    BY <1>2, Popped DEF IInv, WalkInv
<1> HIDE DEF rest
<1>5. Reach(rest, handed, listed, found)
    BY <1>2, <1>4 DEF Reach
<1>6. ASSUME faults' = {} PROVE Followed(rest, visited, visited, handed, listed)
  <2>1. Complete(Top.inode, handed, visited)
    <3>1. Len(Blocks) \in Nat /\ \A r \in Records(Top.inode) : r[2] \in 1..Len(Blocks)
      <4>1. Blocks \in Seq(Block)
          BY <1>2, TopType
      <4> QED
          BY <1>2, <4>1, RecordType DEF Blocks
    <3>2. \A r \in Records(Top.inode) : Before(r, Top)
        BY <1>1, <1>6, <3>1 DEF Before
    <3> QED
        BY <1>1, <1>2, <1>6, <3>2 DEF Complete, Looked
  <2>2. \A n \in 1..Len(rest) : Looked(rest[n], handed, visited)
      BY <1>1, <1>2, <1>4, <1>6 DEF Followed
  <2>3. ASSUME NEW i \in visited
        PROVE  (\E n \in 1..Len(rest) : rest[n].inode = i) \/ Complete(i, handed, visited)
    <3>1. (\E n \in 1..Len(stack) : stack[n].inode = i) \/ Complete(i, handed, visited)
        BY <1>1, <1>2, <1>6 DEF Followed
    <3> QED
        BY <1>2, <1>4, <2>1, <3>1
  <2> QED
      BY <1>1, <1>2, <1>6, <2>2, <2>3 DEF Followed
<1>7. /\ Reach(stack', handed, listed, found)
      /\ faults' = {} => Followed(stack', visited, visited, handed, listed)
    BY <1>1, <1>3, <1>5, <1>6, NotedKeeps
<1>8. pc' = "done" => stack' = << >>
    BY <1>1 DEF Noted
<1> QED
    BY <1>1, <1>2, <1>7, <1>8, Kept

(* The start is in the tree, and there is nothing yet to be complete.      *)
LEMMA CallGraph == IInv /\ GraphInv /\ Call => GraphInv'
<1> SUFFICES ASSUME IInv, GraphInv, Call PROVE GraphInv'
    OBVIOUS
<1>1. /\ Enter(start, << >>) /\ UNCHANGED <<image, mode, start, needle, found, handed>>
      /\ pc' = "done" => stack' = << >>
    BY DEF Call, input
<1>2. /\ stack = << >> /\ visited = {} /\ faults = {} /\ image \in Images /\ listed \in Seq(Inode)
      /\ start \in Inode
    BY DEF IInv, WalkInv, TypeOK, Call
<1>3. Reach(stack, handed, listed, found) /\ Followed(stack, visited, visited, handed, listed)
    BY <1>2 DEF GraphInv
<1>4. image[start].dir => start \in Below
    BY <1>2, BelowStart
<1>5. Frames(stack) /\ Enter(start, stack)
    BY <1>1, <1>2 DEF Frames
<1>6. Reach(stack', handed, listed', found)
    BY <1>2, <1>3, <1>4, <1>5, EnterReach
<1>7. ASSUME faults' = {}
      PROVE  Followed(stack', visited', visited', handed, listed') /\ start \in visited'
  <2>1. /\ visited' = visited \cup {start}
        /\ Followed(stack, visited, visited \cup {start}, handed, listed)
              => Followed(stack', visited', visited', handed, listed')
      BY <1>2, <1>5, <1>7, EnterFollowed
  <2>2. Followed(stack, visited, visited \cup {start}, handed, listed)
      BY <1>2, <1>3 DEF Followed
  <2> QED
      BY <2>1, <2>2
<1> QED
    BY <1>1, <1>6, <1>7, Kept

-----------------------------------------------------------------------------
(* The theorems *)

(* Both invariants hold in every reachable state.                          *)
LEMMA GraphInvariant == Spec => [](IInv /\ GraphInv)
<1>1. Init => GraphInv
  <2> SUFFICES ASSUME Init PROVE GraphInv
      OBVIOUS
  <2>1. /\ stack = << >> /\ listed = << >> /\ handed = {} /\ visited = {} /\ ~found /\ pc = "call"
      BY DEF Init
  <2>2. Len(stack) = 0 /\ Len(listed) = 0
      BY <2>1
  <2>3. Reach(stack, handed, listed, found)
      BY <2>1, <2>2 DEF Reach
  <2>4. Followed(stack, visited, visited, handed, listed)
      BY <2>1, <2>2 DEF Followed
  <2> QED
      BY <2>1, <2>3, <2>4 DEF GraphInv
<1>2. IInv /\ GraphInv /\ [Next]_vars => GraphInv'
  <2> SUFFICES ASSUME IInv, GraphInv, [Next]_vars PROVE GraphInv'
      OBVIOUS
  <2>1. CASE UNCHANGED vars
    <3>1. UNCHANGED <<image, mode, start, needle, stack, visited, found, pc, listed, handed, faults>>
        BY <2>1 DEF vars, input
    <3> QED
        BY <3>1, Kept DEF GraphInv
  <2> QED
      BY <2>1, CallGraph, OpenBlockGraph, SkipRecordGraph, CorruptRecordGraph, SoundRecordGraph,
         CloseBlockGraph, ReturnGraph DEF Next
<1> QED
    BY <1>1, <1>2, Invariant, PTL DEF Spec

(* Nothing from outside the tree is printed or compared, on any graph and  *)
(* whatever fails.                                                         *)
THEOREM NothingOutside == Spec => []OnlyBelow
<1>1. GraphInv => OnlyBelow
    BY DEF GraphInv, Reach, OnlyBelow
<1> QED
    BY GraphInvariant, <1>1, PTL

(* Exit status 0 means that the whole tree was listed and compared.        *)
THEOREM CleanMeansComplete == Spec => []CleanIsComplete
<1>1. IInv /\ GraphInv => CleanIsComplete
  <2> SUFFICES ASSUME IInv, GraphInv, pc = "done", result = 0, mode # "corrupt"
               PROVE  /\ {listed[n] : n \in 1..Len(listed)} = Below
                      /\ handed = UNION {Records(i) : i \in Below}
                      /\ Searching => (found <=> \E i \in Below : \E r \in Records(i) : Matches(At(r)))
      BY DEF CleanIsComplete
  <2>1. faults = {} /\ stack = << >> /\ start \in visited /\ visited \subseteq Inode
      BY DEF IInv, WalkInv, StatusIsHonest, GraphInv, TypeOK
  <2>2. Reach(stack, handed, listed, found) /\ Followed(stack, visited, visited, handed, listed)
      BY <2>1 DEF GraphInv
  <2>3. \A i \in visited : Complete(i, handed, visited)
    <3>1. 1..Len(stack) = {}
        BY <2>1
    <3> QED
        BY <2>2, <3>1 DEF Followed
  <2>4. Below \subseteq visited
      BY <2>1, <2>3, BelowWithin DEF Complete, Handled
  <2>5. visited = {listed[n] : n \in 1..Len(listed)} /\ visited \subseteq Below
      BY <2>2 DEF Followed, Reach
  <2>6. \A i \in Below : Records(i) \subseteq handed
      BY <2>3, <2>4 DEF Complete, Handled
  <2>7. \A w \in handed : w[1] \in Below /\ w \in Records(w[1])
      BY <2>2 DEF Reach
  <2>8. found <=> \E w \in handed : Matches(At(w))
      BY <2>2 DEF Reach
  <2>9. handed = UNION {Records(i) : i \in Below}
      BY <2>6, <2>7
  <2>10. found <=> \E i \in Below : \E r \in Records(i) : Matches(At(r))
      BY <2>6, <2>7, <2>8
  <2> QED
      BY <2>4, <2>5, <2>9, <2>10
<1> QED
    BY GraphInvariant, <1>1, PTL
=============================================================================

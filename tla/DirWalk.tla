------------------------------ MODULE DirWalk ------------------------------
(***************************************************************************)
(* Recursive directory traversal: ext4-walk (walk_inode, ext4_path.c) and  *)
(* the three searches (search_inode_recursive, ext4_search.c), all on top  *)
(* of ext4_list_directory_inode (ext4_dir.c).                              *)
(*                                                                         *)
(* The C recursion is the variable stack: one frame per active call of     *)
(* ext4_list_directory_inode.  A step processes one directory record, one  *)
(* block, or one return.  An image gives for every inode number whether it *)
(* is a directory and, for a directory, its data blocks in logical order,  *)
(* each a sequence of records as parse_dir_entry decodes them.  Reading an *)
(* inode or a block, growing the visited set and following the block tree  *)
(* may fail at any time.                                                   *)
(***************************************************************************)
EXTENDS Integers, Sequences, FiniteSets

CONSTANTS
    Inode,      \* inode numbers
    Name,       \* names of records other than "." and ".."
    Images,     \* the images to walk
    MaxDepth    \* 1024 in the code

(* "soft": the record is marked corrupt and the next can still be found;   *)
(* "fatal": it ends its block.  Inode 0 is an unused record.               *)
Entry == [name : Name \cup {".", ".."}, inode : Inode \cup {0},
          type : {"dir", "other"}, defect : {"none", "soft", "fatal"}]

(* Blocks beyond the size of the directory are skipped unread. *)
Block == [beyond : BOOLEAN, entries : Seq(Entry)]

Node == [dir : BOOLEAN, blocks : Seq(Block)]

ASSUME WalkAssumption ==
    /\ Images \subseteq [Inode -> Node]
    /\ 0 \notin Inode
    /\ Name \cap {".", ".."} = {}
    /\ MaxDepth \in Nat \ {0}

VARIABLES
    image,      \* the file system, read only
    mode,       \* the command
    start,      \* the inode the start path resolves to
    needle,     \* the name or the inode searched for
    stack,      \* active listings, innermost last
    visited,    \* the visited set
    status,     \* search_context.status, one for a whole search
    found,      \* search_context.found
    pc,         \* "call", "run" or "done"
    result,     \* the status the command returned
    listed,     \* history: directories whose listing began, in order
    handed,     \* history: <<inode, block, record>> given to the callback
    faults      \* history: what went wrong

input == <<image, mode, start, needle>>
vars == <<input, stack, visited, status, found, pc, result, listed, handed, faults>>

Mode == {"walk", "name", "inode", "corrupt"}
Fault == {"depth", "memory", "inode", "not_directory", "block", "tree", "record"}

(* One call of ext4_list_directory_inode: block and entry are the next to  *)
(* look at (entry 0: the block is not read yet); failed is                 *)
(* block_visit_context.status; context is walk_context.status, which the   *)
(* searches do not have.                                                   *)
Frame == [inode : Inode, block : Nat, entry : Nat, failed : BOOLEAN, context : BOOLEAN]

(* Type correctness; the position of every active listing is inside the    *)
(* directory it lists.                                                     *)
TypeOK ==
    /\ image \in Images /\ mode \in Mode /\ start \in Inode
    /\ needle \in Name \cup Inode
    /\ stack \in Seq(Frame)
    /\ \A n \in 1..Len(stack) :
        LET blocks == image[stack[n].inode].blocks
        IN  /\ stack[n].block \in 1..(Len(blocks) + 1)
            /\ stack[n].entry > 0 =>
                /\ stack[n].block <= Len(blocks)
                /\ stack[n].entry <= Len(blocks[stack[n].block].entries) + 1
    /\ visited \subseteq Inode
    /\ status \in BOOLEAN /\ found \in BOOLEAN
    /\ pc \in {"call", "run", "done"}
    /\ result \in {0, 1}
    /\ listed \in Seq(Inode)
    /\ handed \subseteq Inode \X Nat \X Nat
    /\ faults \subseteq Fault

Init ==
    /\ image \in Images
    /\ mode \in Mode
    /\ start \in Inode
    /\ needle \in (CASE mode = "name" -> Name
                     [] mode = "inode" -> Inode
                     [] OTHER -> {start})
    /\ stack = << >> /\ visited = {} /\ status = FALSE /\ found = FALSE
    /\ pc = "call" /\ result = 0
    /\ listed = << >> /\ handed = {} /\ faults = {}

-----------------------------------------------------------------------------
Searching == mode # "walk"

Top == stack[Len(stack)]
Blocks == image[Top.inode].blocks
Current == Blocks[Top.block]
Record == Current.entries[Top.entry]

(* Bound: the environment makes each kind of failure happen once. *)
MayFail(why) == why \notin faults

(* parse_directory_block skips unused records unless they are corrupt. *)
HandedOn(e) == e.inode # 0 \/ e.defect # "none"

(* Mutated form of Descends: ".." is followed. *)
DescendsUp(e) == e.inode # 0 /\ e.defect = "none" /\ e.type = "dir" /\ e.name # "."

Descends(e) ==
    /\ HandedOn(e) /\ e.defect = "none"
    /\ e.type = "dir"
    /\ e.name \notin {".", ".."}

Matches(e) ==
    \/ mode = "corrupt" /\ e.defect # "none"
    \/ mode = "name" /\ HandedOn(e) /\ e.defect = "none" /\ e.name = needle
    \/ mode = "inode" /\ HandedOn(e) /\ e.defect = "none" /\ e.inode = needle

(* walk_inode is given the depth of the child, starting at 1, while        *)
(* search_inode_recursive compares before it counts the child.             *)
TooDeep(s) == IF Searching THEN Len(s) > MaxDepth ELSE Len(s) + 1 > MaxDepth

(* Mutated form of Noted: the caller drops the status of the call. *)
NotedNever(s) == s

(* s, with a failure noted by the caller: in the context of the innermost  *)
(* walk frame, or in the one status of a search.                           *)
Noted(s) ==
    IF Searching \/ s = << >> THEN s ELSE [s EXCEPT ![Len(s)].context = TRUE]

(* Mutated form of Seen: only the directories above this one are known. *)
SeenAbove(i) == \E n \in 1..Len(stack) : stack[n].inode = i

Seen(i) == i \in visited

Refuse(s, why) ==
    /\ stack' = Noted(s)
    /\ status' = Searching
    /\ faults' = faults \cup {why}
    /\ UNCHANGED listed

(* walk_inode or search_inode_recursive(i), called by the innermost frame  *)
(* of s: a listing begins, or the call returns at once.                    *)
Enter(i, s) ==
    IF TooDeep(s) THEN Refuse(s, "depth") /\ UNCHANGED visited
    ELSE IF Seen(i) THEN stack' = s /\ UNCHANGED <<visited, status, faults, listed>>
    ELSE \/ MayFail("memory") /\ Refuse(s, "memory") /\ UNCHANGED visited
         \/ /\ visited' = visited \cup {i}
            /\ \/ /\ image[i].dir
                  /\ stack' = Append(s, [inode |-> i, block |-> 1, entry |-> 0,
                                         failed |-> FALSE, context |-> FALSE])
                  /\ listed' = Append(listed, i)
                  /\ UNCHANGED <<status, faults>>
               \/ ~image[i].dir /\ Refuse(s, "not_directory")
               \/ MayFail("inode") /\ Refuse(s, "inode")

(* Mutated form of Outcome: every search that found something succeeds. *)
OutcomeFound(r) == IF found THEN 0 ELSE IF r THEN 1 ELSE 0

(* The outermost call has returned r; run_search reports a corruption it   *)
(* found as success.                                                       *)
Outcome(r) == IF mode = "corrupt" /\ found THEN 0 ELSE IF r THEN 1 ELSE 0

Call ==
    /\ pc = "call"
    /\ Enter(start, << >>)
    /\ IF stack' = << >>
       THEN pc' = "done" /\ result' = Outcome(TRUE)
       ELSE pc' = "run" /\ UNCHANGED result
    /\ UNCHANGED <<input, found, handed>>

-----------------------------------------------------------------------------
Set(f) == stack' = [stack EXCEPT ![Len(stack)] = f]

(* visit_data_block on the next block: outside the size of the directory,  *)
(* or read, or not readable (index out of range, I/O error, no memory).    *)
OpenBlock ==
    /\ pc = "run" /\ Top.entry = 0 /\ Top.block <= Len(Blocks)
    /\ \/ /\ Current.beyond
          /\ Set([Top EXCEPT !.block = @ + 1])
          /\ UNCHANGED faults
       \/ /\ ~Current.beyond
          /\ Set([Top EXCEPT !.entry = 1])
          /\ UNCHANGED faults
       \/ /\ MayFail("block")
          /\ Set([Top EXCEPT !.block = @ + 1, !.failed = TRUE])
          /\ faults' = faults \cup {"block"}
    /\ UNCHANGED <<input, visited, status, found, pc, result, listed, handed>>

AtRecord == pc = "run" /\ Top.entry > 0 /\ Top.entry <= Len(Current.entries)

(* The record is passed over: unused, or after it has been handled. *)
Past(e) == [Top EXCEPT !.entry = @ + 1, !.failed = @ \/ e.defect # "none"]

(* Mutated form of PastBlock: the offset in the block is not reset. *)
PastBlockOnly == [Top EXCEPT !.block = @ + 1, !.failed = TRUE]

(* A fatal record ends the block. *)
PastBlock == [Top EXCEPT !.block = @ + 1, !.entry = 0, !.failed = TRUE]

(* Mutated form of After: a record of length zero is stepped over. *)
AfterStuck(e) == IF e.defect = "fatal" THEN [Top EXCEPT !.failed = TRUE] ELSE Past(e)

After(e) == IF e.defect = "fatal" THEN PastBlock ELSE Past(e)

SkipRecord ==
    /\ AtRecord
    /\ ~HandedOn(Record)
    /\ Set(After(Record))
    /\ UNCHANGED <<input, visited, status, found, pc, result, listed, handed, faults>>

Hand == handed' = handed \cup {<<Top.inode, Top.block, Top.entry>>}

(* walk_callback and search_callback on a corrupt record. *)
CorruptRecord ==
    /\ AtRecord
    /\ Record.defect # "none"
    /\ Hand
    /\ stack' = Noted([stack EXCEPT ![Len(stack)] = After(Record)])
    /\ status' = Searching
    /\ faults' = faults \cup {"record"}
    /\ found' = (found \/ Matches(Record))
    /\ UNCHANGED <<input, visited, pc, result, listed>>

(* The same on a sound record: print or compare it, then descend. *)
SoundRecord ==
    /\ AtRecord
    /\ HandedOn(Record) /\ Record.defect = "none"
    /\ Hand
    /\ found' = (found \/ Matches(Record))
    /\ LET s == [stack EXCEPT ![Len(stack)] = After(Record)]
       IN  IF Descends(Record) THEN Enter(Record.inode, s)
           ELSE stack' = s /\ UNCHANGED <<visited, status, faults, listed>>
    /\ UNCHANGED <<input, pc, result>>

CloseBlock ==
    /\ pc = "run" /\ Top.entry > 0 /\ Top.entry > Len(Current.entries)
    /\ Set([Top EXCEPT !.block = @ + 1, !.entry = 0])
    /\ UNCHANGED <<input, visited, status, found, pc, result, listed, handed, faults>>

-----------------------------------------------------------------------------
(* The innermost listing returns; bad says it returned non-zero.  The      *)
(* caller notes the failure; the outermost return ends the command.        *)
ReturnWith(bad) ==
    LET rest == SubSeq(stack, 1, Len(stack) - 1)
        outer == IF Searching THEN status \/ bad ELSE Top.context \/ bad
    IN  /\ stack' = IF outer THEN Noted(rest) ELSE rest
        /\ status' = (status \/ (Searching /\ bad))
        /\ IF rest = << >> THEN pc' = "done" /\ result' = Outcome(outer)
           ELSE UNCHANGED <<pc, result>>
        /\ UNCHANGED <<input, visited, found, listed, handed>>

Return ==
    /\ pc = "run" /\ Top.entry = 0 /\ Top.block = Len(Blocks) + 1
    /\ ReturnWith(Top.failed)
    /\ UNCHANGED faults

(* The block tree is broken between two blocks (a bad extent header, an    *)
(* extent outside the image, an indirect block): the rest is not visited.  *)
TreeFails ==
    /\ pc = "run" /\ Top.entry = 0 /\ MayFail("tree")
    /\ ReturnWith(TRUE)
    /\ faults' = faults \cup {"tree"}

Next ==
    \/ Call \/ OpenBlock \/ SkipRecord \/ CorruptRecord \/ SoundRecord
    \/ CloseBlock \/ Return \/ TreeFails

Spec == Init /\ [][Next]_vars

(* A single thread that always runs on. *)
FairSpec == Spec /\ WF_vars(Next)

-----------------------------------------------------------------------------
(* Properties.  The reference is the directory graph of the image.         *)

(* The records of a directory a listing can see: a fatal one hides the     *)
(* rest of its block.                                                      *)
Records(i) ==
    UNION {LET block == image[i].blocks[b]
           IN  {<<i, b, n>> : n \in {k \in 1..Len(block.entries) :
                   /\ ~block.beyond
                   /\ block.entries[k].inode # 0 \/ block.entries[k].defect # "none"
                   /\ \A m \in 1..(k - 1) : block.entries[m].defect # "fatal"}} :
           b \in 1..Len(image[i].blocks)}

At(r) == image[r[1]].blocks[r[2]].entries[r[3]]

Subdirectory(e) == e.defect = "none" /\ e.type = "dir" /\ e.name \in Name

Children(i) == {At(r).inode : r \in {q \in Records(i) : Subdirectory(At(q))}}

(* The directories below start, however deep, cycles and all: those in     *)
(* every set that has start and the children of its directories.           *)
Closed(S) == start \in S /\ \A i \in S : image[i].dir => Children(i) \subseteq S

Below == {i \in Inode : image[i].dir /\ \A S \in SUBSET Inode : Closed(S) => i \in S}

(* Cyclic and multiply linked directories are listed once: no inode is in  *)
(* two active calls, and none is listed again after its call returned.     *)
ListedOnce ==
    /\ \A m, n \in 1..Len(listed) : m # n => listed[m] # listed[n]
    /\ \A m, n \in 1..Len(stack) : m # n => stack[m].inode # stack[n].inode

(* Exit status 0 means complete: every directory below the start was       *)
(* listed, every record in them was printed or compared, and the verdict   *)
(* of a search is the truth about the whole tree.                          *)
CleanIsComplete ==
    pc = "done" /\ result = 0 /\ mode # "corrupt" =>
        /\ {listed[n] : n \in 1..Len(listed)} = Below
        /\ handed = UNION {Records(i) : i \in Below}
        /\ Searching => (found <=> \E i \in Below : \E r \in Records(i) : Matches(At(r)))

(* The exit status reports every failure, in whatever frame of the         *)
(* recursion it happened, and nothing else; only a search for corruption   *)
(* that found some succeeds in spite of failures.                          *)
StatusIsHonest ==
    pc = "done" =>
        (result = 1 <=> faults # {} /\ ~(mode = "corrupt" /\ found))

(* A traversal prints nothing from outside the tree it was asked for, even *)
(* when parts of it fail.                                                  *)
OnlyBelow == \A w \in handed : w[1] \in Below /\ w \in Records(w[1])

(* Traversal ends on every directory graph. *)
Terminates == <>(pc = "done")
=============================================================================

----------------------------- MODULE PathLookup -----------------------------
(***************************************************************************)
(* ext4-ls: a path is resolved component by component, each looked up in   *)
(* the directory the one before led to, and the directory at its end is    *)
(* listed (ext4_print_directory_path, ext4_resolve_path of ext4_path.c;    *)
(* ext4_find_entry_in_directory of ext4_dir.c).  Every other command that  *)
(* takes a path resolves it in the same way.                               *)
(*                                                                         *)
(* A lookup is a listing whose callback asks to stop at a match.  The stop *)
(* ends the block, but not the listing: visit_data_block notes it like a   *)
(* failure and goes on to the next block.  A step visits one block.        *)
(***************************************************************************)
EXTENDS Integers, Sequences

CONSTANTS
    Inode,      \* inode numbers
    Root,       \* EXT4_ROOT_INO, where every caller begins
    Name,       \* names, ".." among them
    Images,     \* the images
    Paths       \* sequences of components

(* What copy_component can make of the text between two slashes: a name,   *)
(* ".", nothing (behind the last slash), or more than 255 characters.      *)
Component == Name \cup {".", "", "too_long"}

(* Defects and blocks beyond the size as in DirWalk; inode 0 is unused.    *)
Record == [name : Name, inode : Inode \cup {0}, defect : {"none", "soft", "fatal"}]
Block == [beyond : BOOLEAN, records : Seq(Record)]
Node == [dir : BOOLEAN, blocks : Seq(Block)]

ASSUME PathLookupAssumption ==
    /\ Images \subseteq [Inode -> Node]
    /\ Root \in Inode /\ 0 \notin Inode
    /\ Paths \subseteq Seq(Component)
    /\ Name \cap {".", "", "too_long"} = {}

VARIABLES
    image,      \* the file system, read only
    path,       \* the argument
    rest,       \* the components not yet resolved
    current,    \* the inode reached
    pc,         \* "resolve", "find", "list" or "done"
    block,      \* the next block of the directory being visited
    failed,     \* block_visit_context.status
    hit,        \* lookup_context: the set of the inode found
    printed,    \* <<block, record>> printed by the listing
    result,     \* the status of the command
    faults      \* history: what the environment made fail

input == <<image, path>>
vars == <<input, rest, current, pc, block, failed, hit, printed, result, faults>>

(* Type correctness; what is left is a suffix of the path, and the place   *)
(* in a directory is inside it.                                            *)
TypeOK ==
    /\ image \in Images /\ path \in Paths
    /\ \E n \in 1..(Len(path) + 1) : rest = SubSeq(path, n, Len(path))
    /\ current \in Inode
    /\ pc \in {"resolve", "find", "list", "done"}
    /\ pc \in {"find", "list"} => block \in 1..(Len(image[current].blocks) + 1)
    /\ failed \in BOOLEAN /\ hit \in SUBSET Inode
    /\ printed \subseteq (Nat \X Nat)
    /\ result \in {0, 1}
    /\ faults \subseteq {"inode", "block", "tree"}

Init ==
    /\ image \in Images /\ path \in Paths
    /\ rest = path /\ current = Root
    /\ pc = "resolve" /\ block = 0 /\ failed = FALSE /\ hit = {}
    /\ printed = {} /\ result = 0 /\ faults = {}

-----------------------------------------------------------------------------
(* Bound: the environment makes each kind of read fail once. *)
Fault(what) == what \notin faults /\ faults' = faults \cup {what}

Blocks == image[current].blocks

(* The records of a block that are parsed: a fatal one ends the block, one *)
(* beyond the size of the directory is not read at all.                    *)
Parsed(b) ==
    IF b.beyond THEN {}
    ELSE {n \in 1..Len(b.records) : \A m \in 1..(n - 1) : b.records[m].defect # "fatal"}

(* Mutated form of Matches: corrupt records match. *)
MatchesCorrupt(r, name) == r.inode # 0 /\ r.name = name

(* Mutated form of Matches: unused records match. *)
MatchesUnused(r, name) == r.defect = "none" /\ r.name = name

(* lookup_callback, which is not called for unused records. *)
Matches(r, name) == r.inode # 0 /\ r.defect = "none" /\ r.name = name

(* The command ends with an error. *)
Abort == pc' = "done" /\ result' = 1

(* The loop of ext4_resolve_path passes over "." and an empty component.   *)
SkipComponent ==
    /\ pc = "resolve" /\ rest # << >>
    /\ Head(rest) \in {".", ""}
    /\ rest' = Tail(rest)
    /\ UNCHANGED <<input, current, pc, block, failed, hit, printed, result, faults>>

NameTooLong ==
    /\ pc = "resolve" /\ rest # << >>
    /\ Head(rest) = "too_long"
    /\ Abort
    /\ UNCHANGED <<input, rest, current, block, failed, hit, printed, faults>>

(* ext4_list_directory_inode(current): the blocks are visited from the     *)
(* first on, unless the inode cannot be read or is no directory.           *)
Visit(label) ==
    \/ /\ image[current].dir
       /\ pc' = label /\ block' = 1 /\ failed' = FALSE /\ hit' = {}
       /\ UNCHANGED <<result, faults>>
    \/ /\ (~image[current].dir /\ UNCHANGED faults) \/ Fault("inode")
       /\ Abort
       /\ UNCHANGED <<block, failed, hit>>

BeginFind ==
    /\ pc = "resolve" /\ rest # << >>
    /\ Head(rest) \in Name
    /\ Visit("find")
    /\ UNCHANGED <<input, rest, current, printed>>

BeginList ==
    /\ pc = "resolve" /\ rest = << >>
    /\ Visit("list")
    /\ UNCHANGED <<input, rest, current, printed>>

(* parse_directory_block with lookup_callback. *)
FindInBlock ==
    /\ pc = "find" /\ block <= Len(Blocks)
    /\ LET records == Blocks[block].records
           parsed == Parsed(Blocks[block])
           matching == {n \in parsed : Matches(records[n], Head(rest))}
       IN  \/ /\ matching # {}
              /\ \E n \in matching :
                  /\ \A m \in matching : n <= m
                  /\ hit' = {records[n].inode}
              /\ failed' = TRUE
           \/ /\ matching = {}
              /\ failed' = (failed \/ \E n \in parsed : records[n].defect # "none")
              /\ UNCHANGED hit
    /\ block' = block + 1
    /\ UNCHANGED <<input, rest, current, pc, printed, result, faults>>

(* parse_directory_block with list_print_callback. *)
ListBlock ==
    /\ pc = "list" /\ block <= Len(Blocks)
    /\ LET records == Blocks[block].records
           parsed == Parsed(Blocks[block])
       IN  /\ printed' = printed \cup
                 {<<block, n>> : n \in {k \in parsed : records[k].inode # 0 \/ records[k].defect # "none"}}
           /\ failed' = (failed \/ \E n \in parsed : records[n].defect # "none")
    /\ block' = block + 1
    /\ UNCHANGED <<input, rest, current, pc, hit, result, faults>>

(* A block is out of range or cannot be read. *)
BlockFails ==
    /\ pc \in {"find", "list"} /\ block <= Len(Blocks)
    /\ ~Blocks[block].beyond
    /\ Fault("block")
    /\ failed' = TRUE /\ block' = block + 1
    /\ UNCHANGED <<input, rest, current, pc, hit, printed, result>>

(* The block tree is broken, before a block or behind the last one: the    *)
(* rest is not visited.                                                    *)
TreeFails ==
    /\ pc \in {"find", "list"}
    /\ Fault("tree")
    /\ failed' = TRUE /\ block' = Len(Blocks) + 1
    /\ UNCHANGED <<input, rest, current, pc, hit, printed, result>>

(* Mutated form of Accepted: any failure of the listing, a stop included. *)
AcceptedIfClean == hit # {} /\ ~failed

(* status != 0 && context.found == 0 is an error, and so is no match. *)
Accepted == hit # {}

EndFind ==
    /\ pc = "find" /\ block = Len(Blocks) + 1
    /\ IF Accepted
       THEN /\ current' \in hit /\ rest' = Tail(rest)
            /\ pc' = "resolve" /\ UNCHANGED result
       ELSE Abort /\ UNCHANGED <<current, rest>>
    /\ UNCHANGED <<input, block, failed, hit, printed, faults>>

EndList ==
    /\ pc = "list" /\ block = Len(Blocks) + 1
    /\ pc' = "done" /\ result' = (IF failed THEN 1 ELSE 0)
    /\ UNCHANGED <<input, rest, current, block, failed, hit, printed, faults>>

Next ==
    \/ SkipComponent \/ NameTooLong \/ BeginFind \/ BeginList
    \/ FindInBlock \/ ListBlock \/ BlockFails \/ TreeFails \/ EndFind \/ EndList

Spec == Init /\ [][Next]_vars

-----------------------------------------------------------------------------
(* Properties.  The reference is a pure function of image and path. *)

(* The sound records a directory has under a name, <<block, record>>. *)
Named(i, name) ==
    UNION {{<<b, n>> : n \in {k \in Parsed(image[i].blocks[b]) :
                              LET r == image[i].blocks[b].records[k]
                              IN  r.inode # 0 /\ r.defect = "none" /\ r.name = name}} :
           b \in 1..Len(image[i].blocks)}

(* The last block that has the name, and the first record there. *)
Preferred(found) ==
    CHOOSE p \in found : \A q \in found : q[1] < p[1] \/ (q[1] = p[1] /\ p[2] <= q[2])

(* The inode the first n components lead to, 0 for none. *)
Leads[n \in 0..Len(path)] ==
    IF n = 0 THEN Root
    ELSE LET i == Leads[n - 1]
             found == Named(i, path[n])
             p == Preferred(found)
         IN  IF i = 0 \/ path[n] = "too_long" THEN 0
             ELSE IF path[n] \in {".", ""} THEN i
             ELSE IF ~image[i].dir \/ found = {} THEN 0
             ELSE image[i].blocks[p[1]].records[p[2]].inode

(* No directory names two inodes by one name. *)
NamesAreUnique ==
    \A i \in Inode, name \in Name : \A p, q \in Named(i, name) :
        image[i].blocks[p[1]].records[p[2]].inode = image[i].blocks[q[1]].records[q[2]].inode

Resolved == Len(path) - Len(rest)

(* A path leads where the directories say, whatever was unreadable or      *)
(* corrupt on the way and passed over: a failure can make a resolution     *)
(* fail, but never lead it elsewhere.  Where a directory has a name twice, *)
(* that only holds without failures: the record in the last block counts,  *)
(* and when that block cannot be read, another one does.                   *)
LeadsThere == faults = {} \/ NamesAreUnique => current = Leads[Resolved]

(* An error that no failing read explains is the path's: one of its        *)
(* components is too long, not there, or looked up in what is no           *)
(* directory; or it is the listing's, of what is no directory or holds a   *)
(* corrupt record.  In particular a corrupt record does not hide a sound   *)
(* one behind it.                                                          *)
ErrorIsReal ==
    LET i == Leads[Len(path)]
        defective(b) == \E n \in Parsed(b) : b.records[n].defect # "none"
    IN  pc = "done" /\ result = 1 /\ faults = {} =>
            \/ i = 0
            \/ ~image[i].dir
            \/ \E b \in 1..Len(image[i].blocks) : defective(image[i].blocks[b])
=============================================================================

------------------------------ MODULE HostWalk ------------------------------
(***************************************************************************)
(* The commands that walk the host's tree (analyzer.c).  du, that is       *)
(* calculate_disk_usage_recursive, goes down from inside its readdir loop  *)
(* and has a stream open for every directory on the way; tree, that is     *)
(* print_tree_recursive, first reads all names of a directory and closes   *)
(* it.  Both name everything by its path, looked up anew in every call,    *)
(* while others change the tree.                                           *)
(***************************************************************************)
EXTENDS HostTree, FiniteSets

CONSTANTS
    Walks,      \* the commands: [op, path]
    MaxTotal,   \* ULLONG_MAX
    MaxFaults   \* bound: calls and allocations that fail without a reason in the tree

ASSUME HostWalkAssumption ==
    /\ Walks \subseteq [op : {"du", "tree"}, path : Seq(Name)]
    /\ MaxTotal \in Nat /\ MaxFaults \in Nat
    /\ IsFiniteSet(Directory)

(* A name has a length the kernel bounds, and a directory is never below   *)
(* itself: the kernel has no hard link to a directory.                     *)
ASSUME HostShapeAssumption ==
    /\ IsFiniteSet(Name)
    /\ \E level \in [Directory -> 1..Cardinality(Directory)] :
        \A d, e \in Directory, n \in Name : Tree[d][n] = e => level[d] < level[e]

VARIABLES
    walk,       \* the command
    step,       \* "start", "lstat", "readlink", "opendir", "readdir", "closedir", "entries", "done"
    here,       \* the path at hand
    frames,     \* the calls of the recursion, innermost last
    streams,    \* DIR streams open
    usage,      \* struct disk_usage
    result,     \* the status of the command
    reported,   \* history: what was counted or printed, <<path, directory?, size>>
    steady,     \* history: the paths that have named one object all the time
    faults      \* history: calls that failed without a reason in the tree

walker == <<walk, step, here, frames, streams, usage, result, reported, steady, faults>>

(* A call for a directory: the object the stream is open on; the names it  *)
(* had then, those of them nobody touched since, those returned; tree's    *)
(* array of names that are left; and the status so far.                    *)
Frame == [path : Seq(Name), dir : Directory, listed : SUBSET Name, sure : SUBSET Name,
          returned : SUBSET Name, entries : Seq(Name), status : {0, 1}]

(* Type correctness; a stream is open for every directory du is in, and    *)
(* for tree only while it reads names.                                     *)
HostWalkTypeOK ==
    /\ walk \in Walks
    /\ step \in {"start", "lstat", "readlink", "opendir", "readdir", "closedir", "entries", "done"}
    /\ here \in Seq(Name) /\ frames \in Seq(Frame)
    /\ streams = IF walk.op = "du" THEN Len(frames)
                 ELSE IF step \in {"readdir", "closedir"} THEN 1 ELSE 0
    /\ usage \in [size : 0..MaxTotal, files : 0..MaxTotal, directories : 0..MaxTotal]
    /\ result \in {0, 1}
    /\ reported \in Seq(Seq(Name) \X BOOLEAN \X Nat)
    /\ steady \subseteq Seq(Name)
    /\ faults \in 0..MaxFaults

HostWalkInit ==
    /\ walk \in Walks /\ step = "start" /\ here = walk.path
    /\ frames = << >> /\ streams = 0
    /\ usage = [size |-> 0, files |-> 0, directories |-> 0]
    /\ result = 0 /\ reported = << >> /\ steady = {} /\ faults = 0

-----------------------------------------------------------------------------
Du == walk.op = "du"
Fault == faults < MaxFaults /\ faults' = faults + 1

Inner == frames[Len(frames)]
Outer == SubSeq(frames, 1, Len(frames) - 1)

(* A call returns a status to the loop of its caller; the caller notes a   *)
(* failure and goes on.                                                    *)
ReturnTo(callers, s) ==
    IF callers = << >>
    THEN step' = "done" /\ result' = s /\ frames' = callers
    ELSE /\ step' = IF Du THEN "readdir" ELSE "entries"
         /\ frames' = [callers EXCEPT ![Len(callers)].status = IF s = 1 THEN 1 ELSE @]
         /\ UNCHANGED result

Return(s) == ReturnTo(frames, s)

(* All paths below and the path itself. *)
PathsFrom(path) ==
    LET upTo[n \in 0..Cardinality(Directory)] ==
            IF n = 0 THEN {path}
            ELSE LET dirs == {q \in upTo[n - 1] : Lookup(q) \in Directory}
                 IN  upTo[n - 1] \cup {Append(q, m) : q \in dirs, m \in Name}
    IN  {q \in upTo[Cardinality(Directory)] : Lookup(q) # None}

Begin ==
    /\ step = "start"
    /\ step' = "lstat" /\ steady' = PathsFrom(here)
    /\ UNCHANGED <<host, walk, here, frames, streams, usage, result, reported, faults>>

-----------------------------------------------------------------------------
(* Mutated form of Fits: no test of overflow, and the sum wraps. *)
FitsAlways(total, value) == TRUE

(* Another: a sum of just the largest value is refused. *)
FitsStrictly(total, value) == MaxTotal - total > value

(* add_unsigned_long_long *)
Fits(total, value) == MaxTotal - total >= value
Added(total, value) == (total + value) % (MaxTotal + 1)

Report(directory, size) == reported' = Append(reported, <<here, directory, size>>)

LstatFails ==
    /\ step = "lstat"
    /\ (Lookup(here) = None /\ UNCHANGED faults) \/ Fault
    /\ Return(1)
    /\ UNCHANGED <<host, walk, here, streams, usage, reported, steady>>

(* du of anything but a directory: add_file_count, then add_file_size,     *)
(* which fails by itself on a negative size.                               *)
CountFile ==
    /\ step = "lstat" /\ Du
    /\ Lookup(here) \in File \cup Link
    /\ LET size == SizeOf(Lookup(here))
           counted == [usage EXCEPT !.files = Added(@, 1)]
       IN  \/ /\ ~Fits(usage.files, 1)
              /\ Return(1) /\ UNCHANGED <<usage, reported, faults>>
           \/ /\ Fits(usage.files, 1)
              /\ (~Fits(usage.size, size) /\ UNCHANGED faults) \/ Fault
              /\ usage' = counted
              /\ Return(1) /\ UNCHANGED reported
           \/ /\ Fits(usage.files, 1) /\ Fits(usage.size, size)
              /\ usage' = [counted EXCEPT !.size = Added(@, size)]
              /\ Report(FALSE, size)
              /\ Return(0) /\ UNCHANGED faults
    /\ UNCHANGED <<host, walk, here, streams, steady>>

CountDirectory ==
    /\ step = "lstat" /\ Du
    /\ Lookup(here) \in Directory
    /\ \/ ~Fits(usage.directories, 1) /\ Return(1) /\ UNCHANGED <<usage, reported>>
       \/ /\ Fits(usage.directories, 1)
          /\ usage' = [usage EXCEPT !.directories = Added(@, 1)]
          /\ Report(TRUE, 0)
          /\ step' = "opendir" /\ UNCHANGED <<frames, result>>
    /\ UNCHANGED <<host, walk, here, streams, steady, faults>>

(* tree prints the name, and goes on with the target of a link, or with a  *)
(* directory.  At its beginning a link is no directory and no link either. *)
PrintEntry ==
    /\ step = "lstat" /\ ~Du
    /\ Lookup(here) # None
    /\ Report(Lookup(here) \in Directory, 0)
    /\ \/ Lookup(here) \in Directory /\ step' = "opendir" /\ UNCHANGED <<frames, result>>
       \/ Lookup(here) \in Link /\ frames # << >> /\ step' = "readlink" /\ UNCHANGED <<frames, result>>
       \/ (Lookup(here) \in File \/ (Lookup(here) \in Link /\ frames = << >>)) /\ Return(0)
    /\ UNCHANGED <<host, walk, here, streams, usage, steady, faults>>

ReadLink ==
    /\ step = "readlink"
    /\ \/ Lookup(here) \in Link /\ Return(0) /\ UNCHANGED faults
       \/ Lookup(here) \notin Link /\ Return(1) /\ UNCHANGED faults
       \/ Fault /\ Return(1)
    /\ UNCHANGED <<host, walk, here, streams, usage, reported, steady>>

-----------------------------------------------------------------------------
(* opendir names the path anew, and follows a link. *)
OpenDir ==
    /\ step = "opendir"
    /\ LET d == Lookup(Follow(here))
       IN  /\ d \in Directory
           /\ frames' = Append(frames, [path |-> here, dir |-> d, listed |-> Entries(d), sure |-> Entries(d),
                                        returned |-> {}, entries |-> << >>, status |-> 0])
    /\ step' = "readdir" /\ streams' = streams + 1
    /\ UNCHANGED <<host, walk, here, usage, result, reported, steady, faults>>

OpenDirFails ==
    /\ step = "opendir"
    /\ (Lookup(Follow(here)) \notin Directory /\ UNCHANGED faults) \/ Fault
    /\ Return(1)
    /\ UNCHANGED <<host, walk, here, streams, usage, reported, steady>>

(* readdir returns a name the directory had when it was opened or has now; *)
(* in any order, and a name again only if it was changed in between.       *)
ReadName ==
    /\ step = "readdir"
    /\ \E n \in (Inner.listed \cup Entries(Inner.dir)) \ Inner.returned :
        LET read == [Inner EXCEPT !.returned = @ \cup {n}]
        IN  IF Du
            THEN /\ frames' = Append(Outer, read)
                 /\ here' = Append(Inner.path, n) /\ step' = "lstat"
            ELSE /\ frames' = Append(Outer, [read EXCEPT !.entries = Append(@, n)])
                 /\ UNCHANGED <<here, step>>
    /\ UNCHANGED <<host, walk, streams, usage, result, reported, steady, faults>>

(* Every name nobody touched has been returned. *)
ReaddirEnds ==
    /\ step = "readdir"
    /\ Inner.sure \subseteq Inner.returned
    /\ step' = "closedir"
    /\ UNCHANGED <<host, walk, here, frames, streams, usage, result, reported, steady, faults>>

(* readdir fails, or the memory for a name or a path does. *)
ReaddirFails ==
    /\ step = "readdir"
    /\ Fault
    /\ step' = "closedir"
    /\ frames' = [frames EXCEPT ![Len(frames)].status = 1]
    /\ UNCHANGED <<host, walk, here, streams, usage, result, reported, steady>>

(* Mutated form of StreamsLeft: after a failure the stream is left open. *)
StreamsLeftOpen == IF Inner.status = 0 THEN streams - 1 ELSE streams

StreamsLeft == streams - 1

(* The end of calculate_disk_usage_recursive and of                        *)
(* read_directory_entries, which forgets the names after a failure.        *)
CloseDir ==
    /\ step = "closedir"
    /\ streams' = StreamsLeft
    /\ \E s \in {Inner.status, 1} :
        /\ (s = Inner.status /\ UNCHANGED faults) \/ (s # Inner.status /\ Fault)
        /\ IF Du \/ s = 1 THEN ReturnTo(Outer, s)
           ELSE step' = "entries" /\ UNCHANGED <<frames, result>>
    /\ UNCHANGED <<host, walk, here, usage, reported, steady>>

(* The loop of print_tree_recursive. *)
NextEntry ==
    /\ step = "entries" /\ Inner.entries # << >>
    /\ here' = Append(Inner.path, Head(Inner.entries)) /\ step' = "lstat"
    /\ frames' = [frames EXCEPT ![Len(frames)].entries = Tail(@)]
    /\ UNCHANGED <<host, walk, streams, usage, result, reported, steady, faults>>

EntriesEnd ==
    /\ step = "entries" /\ Inner.entries = << >>
    /\ ReturnTo(Outer, Inner.status)
    /\ UNCHANGED <<host, walk, here, streams, usage, reported, steady, faults>>

(* No memory for a path, or for the prefix of a directory: the loop ends.  *)
EntriesBreak ==
    /\ ~Du /\ frames # << >>
    /\ step = "opendir" \/ (step = "entries" /\ Inner.entries # << >>)
    /\ Fault
    /\ ReturnTo(Outer, 1)
    /\ UNCHANGED <<host, walk, here, streams, usage, reported, steady>>

HostWalkNext ==
    \/ Begin \/ LstatFails \/ CountFile \/ CountDirectory \/ PrintEntry \/ ReadLink
    \/ OpenDir \/ OpenDirFails \/ ReadName \/ ReaddirEnds \/ ReaddirFails \/ CloseDir
    \/ NextEntry \/ EntriesEnd \/ EntriesBreak

-----------------------------------------------------------------------------
(* What a change of the tree by others does to a walk. *)

(* A directory stream: a name that was changed may be returned, or not, or *)
(* once more.                                                              *)
Disturbed(f) ==
    LET changed == {n \in Name : at'[f.dir][n] # at[f.dir][n]}
    IN  [f EXCEPT !.sure = @ \ changed, !.returned = @ \ changed]

Disturb ==
    /\ frames' = [k \in DOMAIN frames |-> Disturbed(frames[k])]
    /\ steady' = {q \in steady : \A n \in 0..Len(q) : Lookup(SubSeq(q, 1, n)) = Lookup(SubSeq(q, 1, n))'}
    /\ UNCHANGED <<walk, step, here, streams, usage, result, reported, faults>>
=============================================================================

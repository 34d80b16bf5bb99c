------------------------------ MODULE Recovery ------------------------------
(***************************************************************************)
(* The backup-superblock commands: ext4-backups, ext4-compare-super and    *)
(* ext4-restore-super (ext4_recovery.c over ext4_backup.c over ext4_io.c). *)
(*                                                                         *)
(* A process of Proc runs one command at a time; the menu interface and a  *)
(* shell both run many after one another.  Several processes may work on   *)
(* the same image: the program takes no lock.  Every pread and pwrite that *)
(* touches the primary superblock is a step of its own and may move any    *)
(* nonempty prefix of what is left; it may fail, the process may die, and  *)
(* the machine may lose power before the kernel has written its page cache *)
(* back (the program never calls fsync).                                   *)
(***************************************************************************)
EXTENDS Superblock, Sequences

CONSTANTS
    Proc,           \* processes running the tool on one image
    Offsets,        \* byte offsets at which 1024 bytes can be read
    InitialImages,  \* the images the commands may be started on
    MaxIndex,       \* largest backup index a user types
    MaxRuns         \* bound: commands started, over all processes

ASSUME RecoveryAssumption ==
    /\ EXT4_SUPERBLOCK_OFFSET \in Offsets
    /\ InitialImages \subseteq [Offsets -> Copy]
    /\ MaxIndex \in Nat /\ MaxRuns \in Nat

VARIABLES
    image,      \* what a read of the file returns: page cache over medium
    stable,     \* the primary superblock on the medium
    pc,         \* per process: the step of the command it is about to take
    req,        \* the command: its operation, backup index and --write
    fd,         \* report.fd is open
    pos,        \* parts moved so far by the transfer in progress
    buf,        \* the buffer of that transfer
    primary,    \* report.primary
    todo,       \* groups discovery has still to visit
    report,     \* report.items
    dstatus,    \* the status discovery will return
    status,     \* the status the last command returned
    said,       \* the last verdict the command printed
    confirmed,  \* history: the user typed RESTORE in this command
    origin,     \* history: the image before any command ran
    runs        \* history: commands started

disk == <<image, stable, origin>>
local == <<req, buf, primary, todo, report, dstatus, confirmed>>
vars == <<disk, pc, fd, pos, status, said, runs, local>>

Primary == EXT4_SUPERBLOCK_OFFSET

Op == {"backups", "compare", "restore"}
Request == [op : Op, index : 0..MaxIndex, write : BOOLEAN]
Item == [offset : Int, read_ok : BOOLEAN, sb : Copy]

Busy == {"open", "readPrimary", "discover", "select", "confirm", "write", "verify"}
AtRest == {"idle", "done", "crashed"}
Verdict == {"none", "error", "listing", "preview", "successfully done", "verified"}

Blank == [f \in Field |-> 0]

(* Mutated form of Overlay: a short transfer truncates the copy. *)
OverlayShort(c, new, ps) == [f \in UNION {Part[i] : i \in ps} |-> new[f]]

(* Copy c with the fields of the parts in ps taken from new. *)
Overlay(c, new, ps) ==
    [f \in Field |-> IF \E i \in ps : f \in Part[i] THEN new[f] ELSE c[f]]

(* Power fails between sectors: bytes 1024-1535 and 1536-2047. *)
Sector == {1..3, {4}}

TypeOK ==
    /\ image \in [Offsets -> Copy] /\ origin \in [Offsets -> Copy]
    /\ stable \in Copy
    /\ pc \in [Proc -> Busy \cup AtRest]
    /\ req \in [Proc -> Request]
    /\ fd \in [Proc -> BOOLEAN]
    /\ pos \in [Proc -> 0..NParts]
    /\ buf \in [Proc -> Copy] /\ primary \in [Proc -> Copy]
    /\ todo \in [Proc -> SUBSET Nat]
    /\ report \in [Proc -> Seq(Item)]
    /\ dstatus \in [Proc -> {0, 1}] /\ status \in [Proc -> {0, 1}]
    /\ said \in [Proc -> Verdict]
    /\ confirmed \in [Proc -> BOOLEAN]
    /\ runs \in 0..MaxRuns

Init ==
    /\ image \in InitialImages
    /\ origin = image
    /\ stable = image[Primary]
    /\ pc = [p \in Proc |-> "idle"]
    /\ req = [p \in Proc |-> [op |-> "backups", index |-> 0, write |-> FALSE]]
    /\ fd = [p \in Proc |-> FALSE]
    /\ pos = [p \in Proc |-> 0]
    /\ buf = [p \in Proc |-> Blank]
    /\ primary = [p \in Proc |-> Blank]
    /\ todo = [p \in Proc |-> {}]
    /\ report = [p \in Proc |-> << >>]
    /\ dstatus = [p \in Proc |-> 0]
    /\ status = [p \in Proc |-> 0]
    /\ said = [p \in Proc |-> "none"]
    /\ confirmed = [p \in Proc |-> FALSE]
    /\ runs = 0

-----------------------------------------------------------------------------
(* How a command returns. *)

Goto(p, label) == pc' = [pc EXCEPT ![p] = label]

Return(p, result, verdict) ==
    /\ Goto(p, "done")
    /\ status' = [status EXCEPT ![p] = result]
    /\ said' = [said EXCEPT ![p] = verdict]

Release(p) == fd' = [fd EXCEPT ![p] = FALSE]

(* The command returns after ext4_backup_report_close. *)
CloseAndReturn(p, result, verdict) ==
    Return(p, result, verdict) /\ Release(p)

(* The report of the new command is another variable: memset, and fd -1.   *)
(* A descriptor the last command left open is now out of reach.            *)
Forget(p) ==
    /\ fd' = [fd EXCEPT ![p] = FALSE]
    /\ buf' = [buf EXCEPT ![p] = Blank]
    /\ primary' = [primary EXCEPT ![p] = Blank]
    /\ todo' = [todo EXCEPT ![p] = {}]
    /\ report' = [report EXCEPT ![p] = << >>]
    /\ dstatus' = [dstatus EXCEPT ![p] = 0]
    /\ confirmed' = [confirmed EXCEPT ![p] = FALSE]

(* parse_index refuses a text that is no number before anything is opened. *)
BadIndex(p) ==
    /\ pc[p] \in AtRest
    /\ runs < MaxRuns
    /\ runs' = runs + 1
    /\ req' = [req EXCEPT ![p] = [op |-> "restore", index |-> 0, write |-> FALSE]]
    /\ Return(p, 1, "error")
    /\ Forget(p)
    /\ UNCHANGED <<disk, pos>>

(* A command with its arguments: only "restore" takes an index and --write. *)
Start(p) ==
    /\ pc[p] \in AtRest
    /\ runs < MaxRuns
    /\ runs' = runs + 1
    /\ \E r \in Request :
        /\ r.op # "restore" => r.index = 0 /\ ~r.write
        /\ req' = [req EXCEPT ![p] = r]
    /\ Goto(p, "open")
    /\ said' = [said EXCEPT ![p] = "none"]
    /\ Forget(p)
    /\ UNCHANGED <<disk, pos, status>>

Open(p) ==
    /\ pc[p] = "open"
    /\ \/ /\ fd' = [fd EXCEPT ![p] = TRUE]
          /\ pos' = [pos EXCEPT ![p] = 0]
          /\ Goto(p, "readPrimary")
          /\ UNCHANGED <<status, said>>
       \/ /\ Return(p, 1, "error")
          /\ UNCHANGED <<fd, pos>>
    /\ UNCHANGED <<disk, local, runs>>

-----------------------------------------------------------------------------
(* Transfers of the primary superblock. *)

(* One pread that returns k parts of the primary. *)
ReadParts(p, k) ==
    /\ k \in 1..(NParts - pos[p])
    /\ buf' = [buf EXCEPT ![p] =
                  Overlay(@, image[Primary], (pos[p] + 1)..(pos[p] + k))]
    /\ pos' = [pos EXCEPT ![p] = @ + k]

(* The loop of ext4_io_read_exact_at goes round again. *)
ReadMore(p) ==
    /\ pc[p] \in {"readPrimary", "verify"}
    /\ \E k \in 1..NParts : ReadParts(p, k)
    /\ pos'[p] < NParts
    /\ UNCHANGED <<disk, pc, fd, status, said, runs, req, primary, todo, report,
                   dstatus, confirmed>>

(* Mutated form of ReadFails: the early return forgets to close. *)
ReadFailsOpen(p) ==
    /\ pc[p] \in {"readPrimary", "verify"}
    /\ Return(p, 1, "error")
    /\ UNCHANGED <<disk, fd, pos, runs, local>>

(* pread fails, or the file ends: both callers give up and close. *)
ReadFails(p) ==
    /\ pc[p] \in {"readPrimary", "verify"}
    /\ CloseAndReturn(p, 1, "error")
    /\ UNCHANGED <<disk, pos, runs, local>>

(* The primary is in memory and says how many groups there are. *)
PrimaryRead(p) ==
    /\ pc[p] = "readPrimary"
    /\ \E k \in 1..NParts : ReadParts(p, k)
    /\ pos'[p] = NParts
    /\ primary' = [primary EXCEPT ![p] = buf'[p]]
    /\ \/ /\ UsableGeometry(buf'[p])
          /\ todo' = [todo EXCEPT ![p] = BackupGroups(buf'[p])]
          /\ Goto(p, "discover")
          /\ UNCHANGED <<fd, status, said>>
       \/ /\ ~UsableGeometry(buf'[p])
          /\ CloseAndReturn(p, 1, "error")
          /\ UNCHANGED todo
    /\ UNCHANGED <<disk, runs, req, report, dstatus, confirmed>>

-----------------------------------------------------------------------------
(* ext4_backup_discover: the loop over the groups. *)

NextGroup(p, g) == g \in todo[p] /\ \A h \in todo[p] : g <= h

(* Mutated form of OffsetFails: the group is not left behind. *)
OffsetFailsAgain(p) ==
    /\ pc[p] = "discover"
    /\ \E g \in todo[p] : NextGroup(p, g) /\ ~BackupOffsetOk(primary[p], g)
    /\ dstatus' = [dstatus EXCEPT ![p] = 1]
    /\ UNCHANGED <<disk, pc, fd, pos, status, said, runs, req, buf, primary, todo,
                   report, confirmed>>

(* The offset overflows: remembered in the status, and on to the next. *)
OffsetFails(p) ==
    /\ pc[p] = "discover"
    /\ \E g \in todo[p] :
        /\ NextGroup(p, g)
        /\ ~BackupOffsetOk(primary[p], g)
        /\ todo' = [todo EXCEPT ![p] = @ \ {g}]
    /\ dstatus' = [dstatus EXCEPT ![p] = 1]
    /\ UNCHANGED <<disk, pc, fd, pos, status, said, runs, req, buf, primary,
                   report, confirmed>>

(* A copy is read, or cannot be read and is listed all the same. *)
ReadBackup(p) ==
    /\ pc[p] = "discover"
    /\ \E g \in todo[p] :
        LET o == BackupOffset(primary[p], g)
        IN  /\ NextGroup(p, g)
            /\ BackupOffsetOk(primary[p], g)
            /\ \/ /\ o \in Offsets
                  /\ report' = [report EXCEPT ![p] = Append(@,
                        [offset |-> o, read_ok |-> TRUE, sb |-> image[o]])]
               \/ report' = [report EXCEPT ![p] = Append(@,
                        [offset |-> o, read_ok |-> FALSE, sb |-> Blank])]
            /\ todo' = [todo EXCEPT ![p] = @ \ {g}]
    /\ UNCHANGED <<disk, pc, fd, pos, status, said, runs, req, buf, primary,
                   dstatus, confirmed>>

(* append_backup finds no memory: the loop is left. *)
AppendFails(p) ==
    /\ pc[p] = "discover"
    /\ \E g \in todo[p] : NextGroup(p, g) /\ BackupOffsetOk(primary[p], g)
    /\ dstatus' = [dstatus EXCEPT ![p] = 1]
    /\ todo' = [todo EXCEPT ![p] = {}]
    /\ UNCHANGED <<disk, pc, fd, pos, status, said, runs, req, buf, primary,
                   report, confirmed>>

(* Discovery returns to one of its three callers.  Only the restore        *)
(* returns without closing the report when discovery failed.               *)
Discovered(p) ==
    /\ pc[p] = "discover" /\ todo[p] = {}
    /\ \/ /\ req[p].op # "restore"
          /\ CloseAndReturn(p, dstatus[p],
                            IF dstatus[p] = 0 THEN "listing" ELSE "error")
       \/ /\ req[p].op = "restore" /\ dstatus[p] # 0
          /\ Return(p, 1, "error")
          /\ UNCHANGED fd
       \/ /\ req[p].op = "restore" /\ dstatus[p] = 0
          /\ Goto(p, "select")
          /\ UNCHANGED <<fd, status, said>>
    /\ UNCHANGED <<disk, pos, runs, local>>

-----------------------------------------------------------------------------
(* ext4_recovery_restore_superblock after discovery. *)

Chosen(p) == report[p][req[p].index + 1]

(* Mutated form of Restorable: any copy that could be read. *)
RestorableIfRead(item) == item.read_ok

Restorable(item) == item.read_ok /\ ValidSuperblock(item.sb)

(* Mutated form of Select: goes on without asking. *)
SelectUnasked(p) ==
    /\ pc[p] = "select"
    /\ LET safe == req[p].index < Len(report[p]) /\ Restorable(Chosen(p))
       IN  \/ ~safe /\ CloseAndReturn(p, 1, "error")
           \/ safe /\ Goto(p, "write") /\ UNCHANGED <<fd, status, said>>
    /\ pos' = [pos EXCEPT ![p] = 0]
    /\ UNCHANGED <<disk, runs, local>>

Select(p) ==
    /\ pc[p] = "select"
    /\ LET safe == req[p].index < Len(report[p]) /\ Restorable(Chosen(p))
       IN  \/ ~safe /\ CloseAndReturn(p, 1, "error")
           \/ safe /\ ~req[p].write /\ CloseAndReturn(p, 0, "preview")
           \/ /\ safe /\ req[p].write
              /\ Goto(p, "confirm")
              /\ UNCHANGED <<fd, status, said>>
    /\ UNCHANGED <<disk, pos, runs, local>>

(* confirm_restore: the whole line must be RESTORE. *)
Confirm(p) ==
    /\ pc[p] = "confirm"
    /\ confirmed' = [confirmed EXCEPT ![p] = TRUE]
    /\ pos' = [pos EXCEPT ![p] = 0]
    /\ Goto(p, "write")
    /\ UNCHANGED <<disk, fd, status, said, runs, req, buf, primary, todo,
                   report, dstatus>>

(* End of input reports an error; another answer is a refusal, on which     *)
(* the program prints "Restore successfully done" and returns 1.           *)
Decline(p) ==
    /\ pc[p] = "confirm"
    /\ \E verdict \in {"error", "successfully done"} : CloseAndReturn(p, 1, verdict)
    /\ UNCHANGED <<disk, pos, runs, local>>

(* Mutated form of WriteParts: stops at the last field the program decodes. *)
WriteDecodedParts(p) ==
    /\ pc[p] = "write"
    /\ \E k \in 1..(3 - pos[p]) :
        /\ image' = [image EXCEPT ![Primary] =
               Overlay(@, Chosen(p).sb, (pos[p] + 1)..(pos[p] + k))]
        /\ IF pos[p] + k < 3
           THEN pos' = [pos EXCEPT ![p] = @ + k] /\ UNCHANGED pc
           ELSE pos' = [pos EXCEPT ![p] = 0] /\ Goto(p, "verify")
    /\ UNCHANGED <<stable, origin, fd, status, said, runs, local>>

(* One pwrite that takes k parts; the last one hands over to verification. *)
WriteParts(p) ==
    /\ pc[p] = "write"
    /\ \E k \in 1..(NParts - pos[p]) :
        /\ image' = [image EXCEPT ![Primary] =
               Overlay(@, Chosen(p).sb, (pos[p] + 1)..(pos[p] + k))]
        /\ IF pos[p] + k < NParts
           THEN pos' = [pos EXCEPT ![p] = @ + k] /\ UNCHANGED pc
           ELSE pos' = [pos EXCEPT ![p] = 0] /\ Goto(p, "verify")
    /\ UNCHANGED <<stable, origin, fd, status, said, runs, local>>

(* pwrite fails or takes nothing: what is written stays written. *)
WriteFails(p) ==
    /\ pc[p] = "write"
    /\ CloseAndReturn(p, 1, "error")
    /\ UNCHANGED <<disk, pos, runs, local>>

(* The fields the program compares after the write. *)
Verifies(sb, expected) ==
    /\ sb["uuid"] = expected["uuid"]
    /\ sb["magic"] = EXT4_SUPER_MAGIC
    /\ BlocksCount(sb) = BlocksCount(expected)
    /\ sb["inodes_count"] = expected["inodes_count"]

Verify(p) ==
    /\ pc[p] = "verify"
    /\ \E k \in 1..NParts : ReadParts(p, k)
    /\ pos'[p] = NParts
    /\ \/ Verifies(buf'[p], Chosen(p).sb) /\ CloseAndReturn(p, 0, "verified")
       \/ ~Verifies(buf'[p], Chosen(p).sb) /\ CloseAndReturn(p, 1, "error")
    /\ UNCHANGED <<disk, runs, req, primary, todo, report, dstatus, confirmed>>

-----------------------------------------------------------------------------
(* The environment. *)

(* The process is killed: the kernel closes its descriptor. *)
Crash(p) ==
    /\ pc[p] \in Busy
    /\ Goto(p, "crashed")
    /\ Release(p)
    /\ UNCHANGED <<disk, pos, status, said, runs, local>>

(* The kernel writes a sector of the cached primary to the medium. *)
WriteBack ==
    /\ \E s \in Sector :
        /\ stable' = Overlay(stable, image[Primary], s)
        /\ stable' # stable
    /\ UNCHANGED <<image, origin, pc, fd, pos, status, said, runs, local>>

(* The page cache is lost, and with it every process. *)
PowerLoss ==
    /\ image' = [image EXCEPT ![Primary] = stable]
    /\ pc' = [p \in Proc |-> IF pc[p] \in Busy THEN "crashed" ELSE pc[p]]
    /\ fd' = [p \in Proc |-> FALSE]
    /\ UNCHANGED <<stable, origin, pos, status, said, runs, local>>

-----------------------------------------------------------------------------
Step(p) ==
    \/ Open(p) \/ ReadMore(p) \/ ReadFails(p) \/ PrimaryRead(p)
    \/ OffsetFails(p) \/ ReadBackup(p) \/ AppendFails(p) \/ Discovered(p)
    \/ Select(p) \/ Confirm(p) \/ Decline(p)
    \/ WriteParts(p) \/ WriteFails(p) \/ Verify(p)

Next ==
    \/ \E p \in Proc : BadIndex(p) \/ Start(p) \/ Step(p) \/ Crash(p)
    \/ WriteBack
    \/ PowerLoss

Spec == Init /\ [][Next]_vars

(* The scheduler keeps running a command that can move; the user who is    *)
(* asked for RESTORE eventually answers or closes the terminal.            *)
FairSpec == Spec /\ \A p \in Proc : WF_vars(Step(p))

-----------------------------------------------------------------------------
(* Properties. *)

(* The superblock copies a restore may take bytes from. *)
Genuine == {o \in Offsets \ {Primary} : ValidSuperblock(origin[o])}

SamePart(i, c, d) == \A f \in Part[i] : c[f] = d[f]

FromTrusted(i, c) ==
    \/ SamePart(i, c, origin[Primary])
    \/ \E o \in Genuine : SamePart(i, c, origin[o])

(* However writes are cut short, interleaved, lost in a crash or in a      *)
(* power failure, every byte range of the primary superblock, in the cache *)
(* and on the medium, is the original or comes from a backup that passes   *)
(* ext4_validate_superblock; and no backup ever changes.                   *)
PrimaryTrusted ==
    /\ \A i \in 1..NParts : FromTrusted(i, image[Primary]) /\ FromTrusted(i, stable)
    /\ \A o \in Offsets \ {Primary} : image[o] = origin[o]

(* Only the write step of a confirmed "restore --write" on a usable backup *)
(* changes the image; the loss of the cache can only undo such writes.     *)
OnlyConfirmedWrites ==
    [][image' # image =>
          \/ \E p \in Proc :
                /\ pc[p] = "write" /\ confirmed[p]
                /\ req[p].op = "restore" /\ req[p].write
                /\ req[p].index < Len(report[p]) /\ Restorable(Chosen(p))
          \/ image'[Primary] = stable]_vars

(* A restore with --write that returns 0 was confirmed and leaves, at that *)
(* moment, the whole selected copy in the primary, although verification   *)
(* compares four fields of it only.  (For one process: see the README.)    *)
VerifiedIsWhole ==
    [][\A p \in Proc :
          pc[p] \in Busy /\ pc'[p] = "done" /\ status'[p] = 0 /\ req[p].write =>
             /\ confirmed[p]
             /\ image'[Primary] = Chosen(p).sb
             /\ ValidSuperblock(image'[Primary])]_vars

(* Where discovery looks, given a primary superblock. *)
Reachable(sb) ==
    IF UsableGeometry(sb)
    THEN {BackupOffset(sb, g) : g \in {h \in BackupGroups(sb) : BackupOffsetOk(sb, h)}}
    ELSE {}

GeometryField == {"blocks_count_lo", "blocks_count_hi", "first_data_block",
                  "log_block_size", "blocks_per_group", "incompat64"}

AgreedGeometry ==
    \A o \in Genuine, f \in GeometryField : origin[o][f] = origin[Primary][f]

(* A restore that was torn at any point can be run again: when the usable  *)
(* backups agree with the primary on the geometry, every backup discovery  *)
(* could find before any restore it can still find, now and after a power  *)
(* failure.                                                                *)
RetryFindsBackups ==
    AgreedGeometry =>
        Genuine \cap Reachable(origin[Primary])
            \subseteq Reachable(image[Primary]) \cap Reachable(stable)

(* A command that has returned holds no descriptor, except a restore whose *)
(* discovery failed half way (ext4_recovery.c:90-92).                      *)
DescriptorClosed ==
    \A p \in Proc :
        pc[p] \in AtRest /\ fd[p] => req[p].op = "restore" /\ dstatus[p] = 1

(* The command claims success only for a restore that was confirmed and    *)
(* returns 0 (ui.c:903: "anything else cancels").                          *)
SuccessIsTrue ==
    \A p \in Proc :
        said[p] \in {"verified", "successfully done"} => confirmed[p] /\ status[p] = 0

(* A started command ends, whatever fails on the way, once the user has    *)
(* answered.                                                               *)
Terminates == \A p \in Proc : pc[p] \in Busy ~> pc[p] \in AtRest

-----------------------------------------------------------------------------
(* The inductive invariant behind the safety properties.                   *)

(* What has been established by the time a command reaches a step. *)
ControlAt(p) ==
    /\ req[p].write => req[p].op = "restore"
    /\ pc[p] \in {"select", "confirm", "write", "verify"} => req[p].op = "restore"
    /\ pc[p] \in {"confirm", "write", "verify"} =>
          req[p].write /\ req[p].index < Len(report[p]) /\ Restorable(Chosen(p))
    /\ pc[p] \in {"write", "verify"} => confirmed[p]

ControlInv == \A p \in Proc : ControlAt(p)

(* Where a descriptor may be open. *)
DescriptorAt(p) ==
    /\ pc[p] = "open" => ~fd[p]
    /\ pc[p] \in AtRest /\ fd[p] => req[p].op = "restore" /\ dstatus[p] = 1

TrustedCopy(c) == \A i \in 1..NParts : FromTrusted(i, c)

(* A listed copy is what the image held before any command ran; only the   *)
(* degenerate geometry of one-block groups lists the primary itself.       *)
ItemTrusted(item) ==
    item.read_ok =>
        IF item.offset = Primary THEN TrustedCopy(item.sb)
        ELSE item.offset \in Offsets /\ item.sb = origin[item.offset]

ReportAt(p) == \A n \in 1..Len(report[p]) : ItemTrusted(report[p][n])

ReportTrusted == \A p \in Proc : ReportAt(p)

(* With one process: how far the selected copy has got into the primary. *)
WholeAt(p) ==
    /\ pc[p] = "write" =>
          \A i \in 1..pos[p] : SamePart(i, image[Primary], Chosen(p).sb)
    /\ pc[p] = "verify" => image[Primary] = Chosen(p).sb
=============================================================================

# EXT4 Inspector: a TLA+ verification project

EXT4 Inspector (`fs_tool`) is a single-threaded C program that reads the
metadata of ext4 images with `pread`, walks their directories, looks for
blocks owned twice, and can overwrite a damaged primary superblock with one of
its backups. This directory holds TLA+ modules translated from its source
(paths below are relative to `src/src/src/`), TLC runs on small instances, and
theorems checked by TLAPS for every instance.

## 1. The system

### Components, their state and operations

| component | state | operations | correct when | module |
|---|---|---|---|---|
| system calls (`errors.c`) | none | `fs_pread`, `fs_pwrite` repeat on EINTR; open, close, stat, ... | an interrupted call is not an error | `RawIO` |
| raw checked I/O (`ext4_io.c`) | a loop's `total` | `ext4_io_read_exact_at`, `ext4_io_write_exact_at`, `read_block`, `write_block` | all bytes at the right place, or an error; refused is exactly what `off_t` cannot address | `Transfer`, `RawIO`, `RawIOProofs` |
| superblock (`ext4_super.c`) | `struct ext4_fs` | open, close, decode, validate, sizes and counts, range checks | arithmetic on numbers from the image never wraps unnoticed; what is opened is closed | `Superblock`, `Geometry`, `InodeAccess` |
| backups (`ext4_backup.c`) | `ext4_backup_report`: fd, primary, items | discover, compare, select, write the primary | finds every sparse-super copy the geometry gives; closes what it opens | `Recovery` |
| recovery commands (`ext4_recovery.c`) | one report | list, compare, restore (preview or confirmed write, then verify) | only a confirmed restore writes; a torn restore is recoverable; success is real | `Recovery`, `RecoveryProofs` |
| directories (`ext4_dir.c`) | a block, an offset, a status | parse records, visit direct blocks and extent trees, list, look up | a bad record costs at most its block; nothing is lost in silence; a tree yields the blocks it maps | `DirWalk`, `PathLookup`, `InodeAccess` |
| walk (`ext4_path.c`), search (`ext4_search.c`) | visited set, depth, status, found | recursion through the listing's callback | terminates on any graph, each directory once, exit status honest | `DirWalk` |
| block traversal (`ext4_block.c`) | seen set, corruption count | direct and single indirect blocks to a callback | exact set of blocks, every anomaly reported | `BlockChain` |
| chains and sharing (`ext4_chain.c`) | chains, owner index, counters | one chain, scan of all inodes, shared blocks | sharing reported iff real; clean means complete; ends | `BlockChain` |
| inodes (`ext4_inode.c`), group descriptors (`ext4_group.c`) | none | locate, read, decode, validate | offsets inside the table and the image | `Geometry`, `InodeAccess`, `BlockChain` |
| path resolution and `ext4-ls` (`ext4_path.c`) | the inode reached | component by component, then list | a path leads where the directories say | `PathLookup` |
| tree, du (`analyzer.c`) | sums, open streams, names read | recursion over the host's file tree | sums do not overflow, changes by others are survived, streams are closed | `HostWalk`, `HostFiles` |
| editor (`editor.c`) | a descriptor, an offset, a buffer | create, read, write, append, delete, rename, link, symlink | partial writes are completed, appends never lost | `Editor`, `HostFiles` |
| menu interface (`ui.c`) | capture buffer, pipe, saved stdout, pager position | prompts, capture, pager, menus | the terminal comes back; the pager shows what was printed | `Menu` |
| command line (`main.c`), formatting (`utils.c`) | none | dispatch, text | - | not modelled |

### How they interact

All calls are synchronous; the only shared state between two runs of the tool
is the image. `main.c` or a menu of `ui.c` calls a command; the command opens
the image (`ext4_fs_open` for the analyzers, `ext4_backup_discover` for
recovery), which reads the superblock through `ext4_io`, and works on a
report, a visited set or an analysis that lives as long as the command.
Directory listing and block traversal hand their results to a callback, and
the callbacks of walk and search call the listing again: recursion goes
through three files. The menu runs many commands in one process and captures
their standard output. The editor and the tree and disk usage commands work on
the host's file tree, which other processes change while they run.

### What is hard here

There are no threads. The difficulties are *partial failure* (any system call
or allocation can fail in the middle of a loop whose result still has to be
honest), *crashes* during the one destructive operation, *several processes*
on one image, or on one host directory, without a lock, *one thread that is
both ends of a pipe* (the capture of the menu), *hostile shapes* of damaged images (cycles,
repetitions, overlapping records) and *boundary arithmetic*. `PROJECT.json`
lists the hazards, each at its line, with the properties that guard it.

## 2. The modules

`Superblock` holds pure operators; `Recovery` and `Geometry` extend it, and
`InodeAccess` extends `Geometry`. `RawIO` instantiates `Transfer` by a refinement
mapping. `Recovery` uses what `RawIO` promises: its transfers of the primary move
prefixes, in order, and either complete or fail (`Transfer!Fail` allows just
that). `InodeAccess` ends where a data block is handed to the callback, and
`DirWalk` and `PathLookup` begin there. `HostTree` is the tree that `Editor` and
`HostWalk` both extend; `HostFiles` composes them. `BlockChain` and `Menu` stand
alone. `MCx` gives constants to `x` for TLC; `xProofs` proves theorems about `x`.

### Superblock (`ext4_super.c`, geometry of `ext4_backup.c`)

A superblock copy is a function from the fields that steer control to
numbers. The C widths are constants: `W32` is 2^32, `W64 == W32 * W32`, `OffMax` is
`LLONG_MAX`; every unsigned sum or product that may wrap is written with
`U64`. The fields are grouped in four byte ranges (`Part`), the granularity at
which a transfer may be cut: a shorter prefix would differ only inside fields
that are not told apart. The field `late` stands for bytes 512-1023, which the program
writes but (the checksum excepted) never looks at.

### Recovery (`ext4_recovery.c` over `ext4_backup.c`)

One process of `Proc` runs one command at a time. `pc` is the place in the C
code; the local variables of the C functions are functions of the process.

| action | code |
|---|---|
| `BadIndex`, `Start` | `parse_index` refuses; or a command begins with a zeroed report |
| `Open` | `ext4_io_open` |
| `ReadMore`, `ReadFails`, `PrimaryRead` | the read loop on the primary, its failure, and its end with `safe_group_count` |
| `OffsetFails`, `ReadBackup`, `AppendFails` | one turn of the loop over groups |
| `Discovered` | return to the caller: list and compare always close, a restore that failed does not |
| `Select` | index check, safety check, read-only preview |
| `Confirm`, `Decline` | `confirm_restore` |
| `WriteParts`, `WriteFails` | `ext4_io_write_exact_at` on the primary |
| `ReadMore`, `ReadFails`, `Verify` | read back, compare four fields, close |
| `Crash`, `WriteBack`, `PowerLoss` | environment: kill, page cache to medium by 512-byte sectors, loss of the cache |

A read of a backup (`ReadBackup`) is one step: backups never change
(`PrimaryTrusted` checks it), so its pieces could not be told apart. The one
exception is geometry so degenerate that a "backup" is at the primary's own
offset; in that case the copy listed is an atomic read of the primary, coarser
than the code. `AppendFails` may happen at every group although the code only
allocates at capacities 0, 8, 16, ...: the model allows more failures. The
groups of the loop are taken in ascending order from the set that
`has_sparse_super` selects, so the empty turns of the C loop are no steps.

`image` is what reads return; `stable` is the medium's copy of the primary;
`origin`, `confirmed` and `runs` are history. The properties:

* `PrimaryTrusted`: every part of the primary, cached and on the medium, is
  original or comes from a backup that validates; backups never change.
* `RetryFindsBackups`: if the usable backups agree with the original primary
  on the geometry, whatever was findable before stays findable after any torn,
  raced or lost restore. Without that premise it is false, and the code offers no
  protection: discovery takes its geometry from the primary
  (`ext4_backup.c:220`), so half a restore from a copy with another geometry can
  leave a mixture that leads nowhere.
* `OnlyConfirmedWrites`, `VerifiedIsWhole`, `DescriptorClosed`, `Terminates`.
  `VerifiedIsWhole` is checked and proved for one process; with two it does
  not hold, since another restore may write between a write and its
  verification and the program takes no lock.
* `SuccessIsTrue` is violated: see the findings.

A backup whose CRC32C does not match can be restored, because the code only
asks for magic and structure (`ext4_recovery.c:96`); the model has no checksum.

### Transfer and RawIO (`ext4_io.c`, `fs_pread`, `fs_pwrite`)

`Transfer` is the promise: a request succeeds with exactly its bytes moved, or
fails with at most a prefix of a write in the image. `RawIO` is the code:
`Check` is the two validations, made on `Offset`, the product of index and block size
as 64 bits hold it, while `Transfer` and the properties speak of `Place`, the
product itself; `Interrupt` the EINTR loop, `Move` one system
call that moves at least one byte, `Stop` an error or the end of the image,
`Done` the end of the loop, `Kill` the death of the process. The mapping shows
the image of the request's start until the request returns. The image has a
fixed length: the only writer in the program overwrites bytes it has read
before, so a write beyond the end does not occur and is modelled as failing.
The tests for null buffers and a zero block size are constants' assumptions
here: every caller passes a buffer and a validated block size.

Three tests guard the product: `MaxIndex`, the division that must give the
index back, and the range test of the offset. They overlap, so one of them
alone can be wrong without harm: the largest index that `validate_block_request`
accepts, whose block ends with byte `LLONG_MAX`, is refused by
`validate_offset_request`, which wants the end itself to be an `off_t`.
`RefusedExactly` is about all of them together: what they refuse is exactly
what ends beyond the largest `off_t`.

### DirWalk (`ext4_path.c`, `ext4_search.c`, `ext4_dir.c`)

The C recursion is an explicit stack with one frame per active
`ext4_list_directory_inode`. A directory is its data blocks in logical order, a
block is the records `parse_dir_entry` decodes: `"soft"` defects leave the
length of the record usable (name too long, inode out of range), `"fatal"` ones
end the block. `Enter` is both `walk_inode` and `search_inode_recursive`, which
differ in where they compare the depth and where they keep the status (one
context per frame; one for the whole search). `TreeFails` stands for every way
`visit_inode_data_blocks` gives up. The walk starts at a resolved inode
(see `PathLookup`). On a file system without the
FILETYPE feature every record decodes as "other", and the program descends
nowhere and returns 0; completeness is relative to what is decoded.

### BlockChain (`ext4_block.c`, `ext4_chain.c`)

`mode` is `"chain"` for `ext4-chain` and `"scan"` for `ext4-shared` and
`ext4-corruption-scan`. A step is an inode, a block reference, or an entry of
the index. `Abandon` is the `continue` of the scan after a failure, and the
error return of the chain command; `IndexFails` is the `break`, with or without
an owner entry that already has its place but no owner. Counters of corruptions
are kept as zero or not. `Following` is the increment of the `uint32_t` loop
variable. A `direct` sequence may be shorter than 12 and a table than
`block_size / 4`: the missing entries are holes.

### Geometry and InodeAccess (`ext4_super.c`, `ext4_group.c`, `ext4_inode.c`, `ext4_dir.c`)

`Geometry` has the arithmetic as operators: each test the code makes before a
product or a sum is a conjunct, and each result is taken modulo its width.
`InodeAccess` is one command that uses it.

| action | code |
|---|---|
| `OpenImage`, `Mount`, `Refuse`, `Close` | `ext4_fs_open` with its failures, `ext4_fs_close` |
| `Request` | `ext4_list_directory_inode`, `ext4_read_inode` and the tests of `ext4_read_group_desc` before its read |
| `ReadDescriptor` | the read, the halves put together, `validate_group_desc` |
| `Locate` | `ext4_inode_offset` |
| `EnterTree`, `VisitDirect`, `InodeFails` | the inode is read, validated, and its visit begins or is refused |
| `VisitExtent`, `Descend`, `Ascend` | one turn of the loop of `visit_extent_node`, its recursion, its return |
| `ReadBeyondNode` | the same loop behind the end of its buffer |

The callback (`visit_data_block`) never stops a visit, so its work is left to
`DirWalk` and `PathLookup`. `located` and `handed` collect what was located and
handed over.

* `InodesInPlace`: what is located is a whole slot of an inode table inside the
  file system, and two inodes overlap only if the image makes two tables overlap.
* `GroupsAreExact`: the accepted group count is the ceiling of the quotient although
  the sum in it may wrap.
* `VisitIsExact`: the blocks handed over are those the extent tree maps, in order,
  whether an extent is unwritten, of the greatest length, or in a node met twice.
* `EndsClosed`: the command ends with the image closed.

`VisitIsExact` excepts trees with a node that claims more entries than its block
holds (`NodesHold`). There the code accepts 340 entries whatever the block size
is (`ext4_dir.c:210`) and reads behind the buffer, and `ReadBeyondNode` lets
anything happen: an extent that passes the range check is handed over, a node
that maps nothing is visited, or the visit fails.

### PathLookup (`ext4_path.c`, `ext4_dir.c`)

| action | code |
|---|---|
| `SkipComponent`, `NameTooLong` | the loop of `ext4_resolve_path` and `copy_component` |
| `BeginFind`, `BeginList` | `ext4_list_directory_inode` for a lookup, and for the listing at the end |
| `FindInBlock`, `ListBlock` | `parse_directory_block` with the callback of either |
| `BlockFails`, `TreeFails` | a block that cannot be read; a block tree that cannot be followed, before a block or behind the last |
| `EndFind`, `EndList` | `ext4_find_entry_in_directory` decides; the listing returns its status |

The stop a lookup asks for ends the block and not the visit (`ext4_dir.c:190`), so
the match of the *last* block wins. `LeadsThere` says that the inode reached is
nevertheless a function of the image: no failure leads a path elsewhere. It has
to except directories that have one name for two inodes in different blocks,
because there a failing read of the later block uncovers the earlier one.
`ErrorIsReal` says that an error without a failing read is the path's or the
directory's fault; so the stop, which is kept as a failure, is never taken for one.

### Menu (`ui.c`)

| action | code |
|---|---|
| `EnterSubmenu`, `Pick`, `Leave` | `ui_menu_loop` and the four menus |
| `Answer`, `Cancel`, `AnswerOther` | `ui_prompt`; the check for RESTORE in the menu |
| `CapBegin` | `cap_begin` with its failures |
| `PrintLine`, `CommandReturns` | the command |
| `AskAgain`, `TypeLine` | `confirm_restore` of `ext4_recovery.c` inside the capture, and the user |
| `CapEnd`, `CapEndNothing`, `CapEndClosesTerminal` | `cap_end` on its three paths |
| `Scroll`, `Resize`, `ClosePager` | `ui_pager` and `ui_message` |

A command is the number of lines it prints, and all lines have one size. That
stdio holds bytes back changes nothing about what fits: `cap_end` flushes them into the
pipe before it reads. `TerminalKept` and `ShownIsPrinted` speak about sessions in which
calls of the capture fail. The one failure they except is that of `fdopen` on the write
end (`ui.c:95`): `g_orig_stdout` stays set, `cap_end` then closes the standard
output itself, and the model ends in the label `"undefined"`. The menu's restore
asks for RESTORE twice, the second time on standard input with its prompt in the
pipe (`ui.c:914`); the user is assumed to answer. What runs under `#if 0`
(`ui.c:703-854`) is left out.

### HostTree, Editor, HostWalk and HostFiles (`editor.c`, `analyzer.c`)

`HostTree` is the kernel's: directories, names, files' bytes, and what a successful
call does to them, all of it external. It is atomic call by call. A link at
the end of a path is followed once, and one in the middle leads nowhere. An object
is not used again after it is gone.

| action | code |
|---|---|
| `OneCall`, `FirstCallFails` | delete, rename, link, symlink; the first call of any command fails |
| `OpenNew`, `OpenOld` | the `open` of read, write, append and create |
| `WriteSome`, `WriteEnds`, `WriteFails` | `write_all` |
| `ReadSome`, `ReadEnds`, `ReadFails` | `editor_read_file` with its growing buffer |
| `Close`, `Die` | close, whose failure is an error; the process is killed |
| `Begin`, `LstatFails`, `CountFile`, `CountDirectory`, `PrintEntry`, `ReadLink` | `calculate_disk_usage_recursive` and `print_tree_recursive` up to the directory, with the overflow tests of the sums |
| `OpenDir`, `OpenDirFails`, `ReadName`, `ReaddirEnds`, `ReaddirFails`, `CloseDir` | the loop of du; `read_directory_entries` of tree |
| `NextEntry`, `EntriesEnd`, `EntriesBreak` | the loop of tree over the names it read |

Every call of an editor may fail at any time. Failures in a walk that nothing in the
tree explains are counted (`MaxFaults`); a file of negative size is one of them.
`readdir` is what POSIX leaves open: a name that is added or removed after
`opendir` may be returned or not, and a name that was changed may be returned once
more; `Disturb` applies that, whenever an editor changes the tree, to the streams
that are open. The text tree prints is the sequence `reported`.

* `EditsAreKept`: appends of several processes are all kept; a write leaves a
  beginning of its content and nothing else, all of it if it returns 0; one of
  several creations of a name succeeds; a read is what the file once held. The premises
  name the one sharing the code does not protect: two writes from the beginning
  of one file.
* `ReportIsTrue`: a walk that returns 0 has reported every path that named one
  object all the time (`steady`) exactly once, as what it is, with its size unless a
  process has opened it to write it; and the totals of du are the sums of what it counted.
* `FailureHasReason`: a walk that returns 1 although no call failed and nobody changed
  anything found no object at its path, or totals that do not fit.

`chmod`, `stat` and `analyze` are single calls on metadata without any state and are
left out.

## 3. The runs

| run | instance | states | what it shows |
|---|---|---|---|
| `recovery` | 1 process, 2 commands, backup index 0..2, 10 images | 37 536 | `TypeOK RetryFindsBackups DescriptorClosed VerifiedIsWhole Terminates` (`PrimaryTrusted` is checked in `shared` and proved for all images) |
| `shared` | 2 processes (symmetric), one command each or two of one, index 0..1, 2 images | 658 723 | `PrimaryTrusted RetryFindsBackups OnlyConfirmedWrites` under every interleaving of two restores |
| `cancel` | as `recovery` | - | violates `SuccessIsTrue` |
| `dirwalk` | 3 inodes, 2 names, depth limit 2, all graphs of `MCImages` | 256 722 | `TypeOK ListedOnce CleanIsComplete StatusIsHonest OnlyBelow Terminates` |
| `blockchain` | 3 inodes, 5 blocks, all contents of `MCImages` | 31 870 | `TypeOK ChainIsExact OnlyRealSharing OneEntryPerBlock SharingIsFound CleanScanIsComplete ScanEndsAtLast` |
| `blockchainfull` | 3 inodes with `W32 = 4`, so the inode space is full | - | violates `ScanEndsAtLast` |
| `inodeaccess` | 9 inode numbers, 2 requests, all images of `MCVolumes` | 109 651 | `TypeOK InodesInPlace GroupsAreExact VisitIsExact EndsClosed` |
| `pathlookup` | 3 inodes, 3 names, 9 paths, all images of `MCImages` | 133 881 | `TypeOK LeadsThere ErrorIsReal` |
| `menu` | 2 commands, pipe of 3 lines, buffer of 2, up to 4 printed | 12 064 | `TypeOK TerminalKept ShownIsPrinted` with every failure of the capture |
| `menupipe` | 1 command, no failures | - | violates `CommandComesBack` |
| `hostfiles` | 2 editors, 3 walks, 9 pairs of commands, 8 objects | 1 087 039 | `TypeOK EditsAreKept ReportIsTrue FailureHasReason` |
| `rawio` | 4-byte image, 2-byte blocks, largest offset 7 | 15 472 | `TypeOK RefusedExactly ImplementsTransfer RequestReturns` |

Why the bounds are enough:

* `MaxRuns = 2` gives every first command that can fail, crash or be torn a
  second one that meets what it left: the retry. `MaxIndex = 2` is one more than the
  two backups of the image, so that a bad index occurs.
* The images of `MCRecovery` have good, magic-less and geometry-less primaries,
  a primary whose geometry points at file data, one whose last group overflows
  `off_t`, and a second backup that is sound or has a bad structure. `W32 = 4096`
  and a small `OffMax` bring the overflows within reach.
* `MaxDepth = 2` with three directories has the limit met, missed, and met
  again higher up. The graphs have subdirectories in either order, self links,
  links back, two parents, `..`, unused records, both defects, and a block beyond
  the directory's size. Each kind of failure strikes at most once per run
  (`MayFail`), at any place.
* Three inodes and five blocks suffice for a block owned once, twice, by a
  table and as data; 5 is out of range; tables 3 and 4 hold each other, themselves,
  repetitions and holes. Each kind of failure strikes at most once (`Fails`).
* In `rawio` requests begin and end on both sides of the end of the image and
  of the largest offset, by offset and by block; the block indices go through all of
  the 16 values of the width, so that half of the products wrap; `MaxInterrupts = 1`.
* The images of `MCInodeAccess` come in two families. The first varies the
  superblock and the descriptors, with `W32 = 4096` (and so `W64 = W32 * W32`) and
  an `OffMax` of half of `W64`: block counts whose sum wraps, tables at the end of the image, of
  the widths and of `off_t`, images too short for what they announce. The second
  varies the directory inode: extents of 15-bit lengths scaled to `LenMask = 3`,
  and trees up to one level more than `MaxDepth = 2` with nodes that are
  shared, cyclic, foreign, out of range or over-full. `RootEntries = 2` and
  `MaxEntries = 3` are exceeded by one. Two requests let a success follow a failure.
* In `pathlookup` a name is in one block, in two with the same inode or with
  two, behind corrupt and unused records, and in a block beyond the directory's size;
  paths go up, round, through a file and over the length.
* In `menu` four lines overfill the pipe, three the buffer of two; pages of one and of three
  rows are shorter and longer than what is shown; the second command meets what
  the first left. In `menupipe` only the pipe is too small.
* In `hostfiles` the editors overwrite, append through a link, read, create, delete,
  rename a file and a directory, and link, while du or tree walks a tree of two directories,
  so that a walk can be inside a directory that is renamed. `MaxTotal = 3`
  overflows the sizes and the number of files. (Two directories never overflow
  their own sum; it uses the same test.) Every command starts once, each call of
  an editor may fail, and one of the walk's may.

`CHECK_DEADLOCK FALSE` is given where the command ends in a final state:
`dirwalk`, `blockchain`, `blockchainfull`, `inodeaccess`, `pathlookup`, `hostfiles`
and, when the menu is left, `menu` and `menupipe`. The other runs check for deadlock;
in those of `Recovery` power can always fail, so there it is `Terminates` that
excludes a command that is stuck.

Every property has a mutant: an operator next to the one it changes ("Mutated
form of ...") that puts a plausible bug in, and that the property catches.

### Fairness

`Recovery` assumes weak fairness of the steps of each process, that is, the
scheduler runs a process that can run, and the user who is asked for RESTORE
answers or closes the terminal. Nothing is assumed about crashes, write-back
or starting commands. `DirWalk`, `BlockChain` and `InodeAccess` are one thread that runs on
(`WF_vars(Next)`; requests are bounded, and each ends by itself). `Menu` assumes it
of the program and of the user's answer to a question, not of anything else the user does.
`RawIO` assumes it of the steps of a request, not of `Call` or `Kill`;
interruptions are finite (`MaxInterrupts`), which the code itself does not
ensure: an unending series of EINTR would keep `fs_pread` in its loop.

### Findings

* *A cancelled restore says it was done* (`ext4_recovery.c:70`, `ui.c:910`): the
  user who does not type RESTORE, and is told that "anything else cancels"
  (`ui.c:903`), reads "Restore successfully done". Run `cancel`.
* *The scan of a full inode space never ends* (`ext4_chain.c:242`): the loop
  `for (uint32_t i = 1; i <= s_inodes_count; ++i)` is endless when
  `s_inodes_count` is `UINT32_MAX`, which validation accepts. Run
  `blockchainfull`; the README of the tool shows the scan as complete.

* *A command with much output never comes back to the menu* (`ui.c:111`): standard
  output is a pipe that is read only after the command has returned, and `cap_end`
  itself flushes and closes the stream before the first read. With more output
  than the pipe holds (65 536 bytes on Linux) the write blocks for ever. Run
  `menupipe`; `ui.c:461` says "run a captured operation and show pager".

Observations that are no findings because nothing documents otherwise: the
restore never calls `fsync`, so "restored and verified" can be undone by a
power failure (still safely: `PrimaryTrusted` and `RetryFindsBackups` speak of the
medium too); and a restore whose discovery fails returns without closing its
report (`ext4_recovery.c:90-92`), the one exception `DescriptorClosed` names; a
failing `fdopen` costs the menu its terminal (`ui.c:95`); the menu's second
question for RESTORE is invisible (`ui.c:914`); a node of 340 entries in a small block is read
beyond its buffer (`ext4_dir.c:210`); and where a damaged directory has a name in two
blocks, the later one counts (`ext4_dir.c:190`).

## 4. What is proved

In `DirWalk`, `BlockChain`, `InodeAccess` and `PathLookup` each kind of failure strikes
at most once (`faults`), and their theorems inherit that: images, graphs and
widths are arbitrary, the number of failures of one kind is not. In `HostWalk` it
is the constant `MaxFaults`, which is arbitrary too. `Recovery`, `RawIO`, `Menu` and `Editor`
count no failures; only `MaxInterrupts`, a constant, bounds the interrupts of a request.

### RecoveryProofs

From `WidthAssumption` and `RecoveryAssumption` alone: any processes, images,
widths and bounds.

* `TypeAndControl`, `TypeCorrect`. `TypeOK` is not inductive: `Chosen(p)` is in
  the report only because the command got past `Select`. `ControlInv` says what
  each label implies: past `Select` the command is a restore with a selected,
  usable backup; past `Confirm` it is confirmed. `TypeOK /\ ControlInv` is inductive.
* `WritesConfirmed` (`OnlyConfirmedWrites`) follows step by step from it.
* `DescriptorsClosed` (`DescriptorClosed`) needs where a descriptor may be open (`DescriptorAt`).
* `PrimaryStaysTrusted` (`PrimaryTrusted`). A write takes bytes from a report, so
  the invariant is strengthened by `ReportTrusted`: every readable item is a
  backup as it was before any command, or, for degenerate geometry, a trusted
  primary. `OverlayTrusted` is the key lemma: a prefix of trusted parts over
  trusted parts is trusted.
* `RetryPossible` (`RetryFindsBackups`): trusted parts of agreeing geometry give the
  same geometry (`TrustedGeometry`), and the same geometry reaches the same offsets
  (`SameGeometrySameReach`).
* `VerifiedMeansWhole` (`VerifiedIsWhole`), assuming one process: what has been written
  equals the chosen copy (`WholeAt`), and nothing else writes before verification.
* `SparseGroups`: the groups in which discovery looks are 1 and the powers of 3, 5 and 7,
  for every image. `PowersOf` is defined as the smallest set that has 1 and is closed under
  multiplication; `PowersFound` shows that the loop of `is_power_of` tests just that.

### RawIOProofs

From `RawIOAssumption`:

* `TypeCorrect`, `BlockOffsetFits` (the bound of `validate_block_request` leaves
  room for the last byte of the block).
* `ChecksAreExact` (`RefusedExactly`), for every block size and width. What the tests accept
  has not wrapped (`ValidInPlace`, by `BlockOffsetFits`), what ends within `off_t`
  passes them (`SmallIndexAccepted`), so together they are the comparison of whole
  numbers (`ValidIsExact`).
* `ProgressIsExact`: at every moment the first `total` bytes have been moved
  and nothing else has; the loop invariant of both C loops. It also says that
  what is transferred is at the place the caller means, which `ValidInPlace` gives.
* `Implementation` (`ImplementsTransfer`): `Init` maps to `T!Init`; `Call`
  maps to `T!Ask`, `Done` to `T!Succeed` (by `Progress` with `total = size`),
  a refused `Check`, `Stop` and `Kill` to `T!Fail`, and all else to a stutter.

### InodeAccessProofs

From `WidthAssumption` and `InodeAccessAssumption`; what the latter asks of the
superblock's fields is that each is a `uint32_t`.

* `GroupCountIsExact` (`GroupsAreExact`). A sum `blocks + per_group - 1` that wraps
  is smaller than `per_group`, so the quotient is zero, and a count of zero is
  refused: that is the hazard of `ext4_super.c:42` in two lines (`AcceptedCountIsCeiling`).
* `LocatedInPlace` (`InodesInPlace`), for `W32 >= EXT4_MAX_BLOCK_SIZE`, which 2^32 is.
  `InodeOffsetExact`: the two tests of `ext4_inode_offset` exclude every wrap of the product
  and of the sum. `EndOfTable`, `TableInFilesystem`: a validated descriptor has room for the
  last inode of the group. `SlotsApart`, `NumberFromPlace`: two places in
  tables are apart, and number and place determine each other. The invariant
  adds to these where the tables of the visited descriptors are (`TableOf`, `Placed`).
* `VisitExact` (`VisitIsExact`). What the visit of a node from an entry on hands over is
  `Left`, put together from what each entry stands for (`Portion`); `MapsJoined` unfolds
  the reference `Maps` into it, one level of the tree at a time. The invariant is
  `VisitInv`. `StackOn` says where the active calls of `visit_extent_node` stand: the
  depth falls by one from call to call, and no call is past its last entry.
  `HandedInv` says that `Mapped` is what has been handed over, followed by what the innermost call has left,
  what its caller has left, and so on outwards (`PendingOn`). A turn of the loop
  moves one portion from the second part to the first, a recursion replaces a portion
  by the call that stands for it, and a return drops an empty rest. That the innermost call
  is not past its end is why a success has missed nothing. `NodesHold` is the
  premise of the property and not of the model: the steps of `ReadBeyondNode` are
  excluded by it and by nothing else.
* `InodeTypes` (`TypeOK`) needs, besides, that a validated table lies in the file system
  (`TableType`) and that the calls are at most as deep as the limit on the root's depth allows.

### PathLookupProofs

From `PathLookupAssumption`, for every image, path and failure. `Inv` is `TypeOK` and

* `Trail`: the resolved components lead through a sequence of inodes, each from the one before
  by one unfolding of the reference `Leads` (`Step`), and the last is the current
  one. It is claimed, as the property is, when nothing has failed or when names are
  unique.
* `Finding`: a hit of the lookup is a record among those `Seen` in the visited
  blocks, and without a failure the `Best` of them: of the last block that has
  the name, the first. A stop that ended the whole visit, or a hit that is not overwritten,
  would break it; with unique names it is what makes failures harmless, because
  whichever record was seen has the same inode.
* `Cause`: without a failure, an error has its cause where the command stands: a component that
  leads nowhere, a file to be listed, a defective record in a block already listed.

They give `PathTypes`, `PathLeadsThere` (`LeadsThere`) and `PathErrorsAreReal` (`ErrorIsReal`).

### BlockChainProofs

From `ChainAssumption`, for images of any size and content and every failure. All safety
properties of the two runs are proved from one invariant, `IInv`:

* `ChainInv`: what the traversal has *met* at position `pos` (`MetDirect`, `MetAll`),
  cut to valid block numbers, is `seen`, and `refs` are `seen` with each block once.
  The key lemma is `EmitKeepsDistinct`, what `emit_block` does. It gives
  `TypeCorrect` and `ChainsAreExact` (`AllMet`: at the end all that the inode names has
  been met).
* `OwnersInv`: entries are unique and real, every complete chain is in the index, and
  of the chain being indexed the references before `pos`. `EntryAdded` and `InodeAdded`
  say what the two functions of the index keep. It gives `OwnersAreReal`,
  `OwnersCountedOnce` and `SharingFound`.
* `ScanInv`: as long as nothing failed and no corruption was counted, exactly the files below `next`
  have chains, and each was followed to its end. It gives `CleanScanComplete`, for every
  number of inodes up to the width of the counter, where a clean scan does not end at all.

### MenuProofs

From `MenuAssumption`: any sizes of pipe and buffer, any number of commands.

* `TypeCorrect`, `TerminalComesBack` (`TerminalKept`). `CaptureInv` says at each label where
  stdout goes, which ends of the pipe are open and what it holds; `CountInv`
  bounds the counters.
* `PagerShowsPrinted` (`ShownIsPrinted`), with `DrainedLines`: what the buffer takes of a
  drained pipe is a beginning of what was printed.

### DirWalkProofs

From `WalkAssumption`, for every image, depth limit and failure. All safety properties of
the run are proved, in two layers.

* `WalkInv`: no directory is in two frames or in the list twice, and all of them are
  visited (`Once`, `ListedOf`); a search notes failures in its one status and never in a
  frame, a walk the other way round (`Told`); and something has gone wrong if and only if
  the status or some frame knows (`Counted`). The last is what the exit status needs: a
  return passes the knowledge of its frame on to the next (`Returned`). It gives
  `TypeCorrect`, `DirectoriesListedOnce` and `HonestStatus`.
* `GraphInv`: all that is listed or handed over lies in the tree (`Reach`), and as long as
  nothing has failed every directory visited is being listed, with what lies before its
  position dealt with (`Looked`), or is complete (`Followed`). It gives
  `NothingOutside` and, at the end, `CleanMeansComplete`: with no listing left the visited set
  is closed, so it contains the tree. `Below` is defined as what every closed set
  contains, so neither direction needs an induction over the depth of the tree.

### HostFilesProofs

From `HostTreeAssumption`, `EditorAssumption`, `HostWalkAssumption` and
`HostShapeAssumption`: any processes, commands and tree. The assumptions that are more
than types: the bytes a process writes can be told from all others (a way to observe,
not a demand on the code), a file that is not empty has a name, and there are finitely
many directories. Only `FailuresHaveReason` and `TotalsExact` use `HostShapeAssumption`: there are finitely
many names, and no directory of the tree at the beginning is below itself, as the kernel
sees to. In a tree with such a cycle du would count until its totals overflow, while
`PathsFrom` stops at the number of the directories.

* `EditsKeptAlways` (`EditsAreKept`). `EditInv` has a part for each promise (`Appended`,
  `Overwritten`, `Created`, `Beginning`, `OldIsKept`), stated for every moment
  of a command and not only for its end, and what they lean on: an object not in use has
  no name, no descriptor and no bytes (`InUse`, so that a new name never gets a file
  somebody is writing), what a descriptor and `written` say at each label
  (`Standing`), and that the bytes of a process are nowhere it has not put them (`OwnBytes`,
  without which the write of one process could seem to keep the order of another's).
* `HostTypes` (`TypeOK`). `WalkInv` ties the number of open streams to the active
  calls: one for each in du, at most one in tree.
* `ReportsTrue` (`ReportIsTrue`). The obstacle is that the walk works on paths while
  others change the tree under it. `TellInv` therefore speaks of the steady paths
  only. With a path, `steady` contains the directories on the way to it
  (`SteadyInv`), and a step of an editor can only remove paths from it; so each part
  that claims something of all steady paths survives the step, once it is shown that
  the name in a directory of a steady path is what it was (`SteadyLeft`, `NameLeft`) and so is the
  size of a file nobody opened to write (`UnwrittenKept`). The parts:
  `LineInv` and `FreshInv`, the active calls are on the way down to the path at hand,
  and no name that a call has left is on that way, which is why nothing is told
  twice; `StreamInv`, the stream of a call is on the directory its path names, owes
  every steady name in it and returns it once; `DrainedInv`, when it has been
  read without a failure it owes nothing; `ToldInv`, of the steady paths those still
  ahead of the walk have not been told, and all others once and rightly;
  `TotalInv`, the sums. The last three hold only as long as no failure has been noted
  (`Clean`), and a call that ends notes its failure in its caller (`ReturnedLike`). At
  the end nothing is ahead.
* `FailuresHaveReason` (`FailureHasReason`). While nobody has changed the tree (`Quiet`), a
  failure has to be excused at the step that notes it (`Excused`), and from then
  on the excuse stays (`ReasonInv`). `QuietInv` says what the walk then knows:
  the tree is the one at the beginning, the path at hand, those of the active calls and
  those reported are in `PathsFrom(walk.path)`, and every name that a stream or tree's array
  of names still holds is in its directory (`Settled`). That a name found in a directory
  leads to another path of this set (`PathsClosed`) is where the tree must have no cycle: the
  level of the directories bounds the depth of the paths. So an lstat fails only at the
  path of the command, an opendir or readlink not at all, and what is left are the
  sums. At the step where one does not fit, the paths reported before, each once by `ToldInv`,
  and the one at hand are different elements of `PathsFrom`. For the counts this
  compares cardinalities (`TooManyFiles`, `TooManyDirectories`); for the sizes
  it compares a sum in the order of the walk with one in the order of `SetToSeq`: a sequence
  whose non-zero elements occur at different places of another has no larger total (`Covered`,
  `TotalAtMost`, `TooMuchSize`).
* `TotalsExact` (`TotalsAreExact`, stated in the proof module): a du that returns 0 in a tree
  nobody changed returns the number of its files, the number of its directories
  and the sum of all sizes. By `QuietInv` and `ToldInv` the reports and the paths of the tree
  correspond one to one, so the counts agree (`Matched`) and each of the two sums is
  at most the other.

### What stays with TLC

Liveness: `Terminates`, `RequestReturns`, `ScanEndsAtLast`, `EndsClosed` and
`CommandComesBack`. Fairness and ENABLED are out of the provers' reach. Every other
property of a passing run has its theorem.

The definitions `IsPowerOf`, `Leads`, `Maps`, `Lookup`, `TotalOf` and the closure of `PathsFrom`
use recursive functions. Where a proof needs one for every input it has a lemma
that the function exists and satisfies its equations, proved by an induction over
the set of the numbers for which that may fail (`Smallest`, `Induction`: each such set that is not
empty has a least element, because the subset ordering of finite sets is well-founded). The four modules that need
it each prove it.

## 5. Not modelled

* Text, formatting, UUIDs and checksums as bytes; CRC32C.
* `main.c`: the number of arguments and the choice of a command. It keeps no state;
  each module's Init or first action is what it calls.
* `utils.c`: formatting of modes, times and sizes.
* Times, owners, xattrs and permission bits of inodes, and `chmod`, `stat` and
  `analyze`: nothing the program decides depends on them.
* Drawing with curses, the keys of a prompt's line, and code under `#if 0`.
* The wrappers of `errors.c` other than `fs_pread` and `fs_pwrite`, one by one: a
  call and a message.
* The tests and build files.

## 6. Plan

All modules planned are written, and every invariant and every action or refinement
property of the passing runs has a proof. Liveness stays with TLC.

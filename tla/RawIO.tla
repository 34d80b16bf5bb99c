------------------------------- MODULE RawIO -------------------------------
(***************************************************************************)
(* Raw checked I/O (ext4_io.c over the pread/pwrite wrappers of errors.c): *)
(* one process moves bytes between a buffer and the image with system      *)
(* calls that may be interrupted, move fewer bytes than asked for, meet    *)
(* the end of the image, or fail; the process may be killed between two.   *)
(*                                                                         *)
(* OffMax is LLONG_MAX, the largest off_t and ssize_t; block indices, byte *)
(* offsets and sizes are of 64 bits without a sign, and wrap at Width.     *)
(* The image has a fixed length: the only writer of the program,           *)
(* ext4_backup_write_primary, overwrites bytes that have been read before. *)
(***************************************************************************)
EXTENDS Integers

CONSTANTS
    Byte,
    Stale,          \* what an uninitialized buffer holds
    Length,         \* bytes in the image
    OffMax,
    BlockSize,
    Requests,       \* the requests to make
    MaxInterrupts   \* bound: interrupted system calls in one request

Width == 2 * (OffMax + 1)

(* block: at is a block index, as in read_block and write_block, and not a *)
(* byte offset.                                                            *)
Request(r) ==
    /\ r \in [op : {"read", "write"}, block : BOOLEAN, at : 0..(Width - 1),
              size : 1..(Width - 1), data : {r.data}]
    /\ r.data \in [0..(r.size - 1) -> Byte]
    /\ r.block => r.size = BlockSize

ASSUME RawIOAssumption ==
    /\ Stale \notin Byte
    /\ Length \in Nat /\ OffMax \in Nat /\ Length <= OffMax
    /\ BlockSize \in 1..(Width - 1)
    /\ MaxInterrupts \in Nat
    /\ \A r \in Requests : Request(r)

VARIABLES
    disk,           \* the image
    request,        \* the request in progress or last made
    pc,             \* "idle", "check" or "move"
    total,          \* bytes moved by this request
    buffer,         \* the caller's buffer
    outcome,        \* "none", "ok" or "failed": what the last request returned
    interrupts,     \* EINTRs met by this request
    before          \* history: the image when the request was made

vars == <<disk, request, pc, total, buffer, outcome, interrupts, before>>

Position == 0..(Length - 1)

(* Where the caller means the request to start, and the offset the code    *)
(* computes for it: the product of an index and the block size wraps.      *)
Place(r) == IF r.block THEN r.at * BlockSize ELSE r.at
Offset(r) == Place(r) % Width

(* Type correctness. *)
TypeOK ==
    /\ disk \in [Position -> Byte] /\ before \in [Position -> Byte]
    /\ request \in Requests
    /\ pc \in {"idle", "check", "move"}
    /\ total \in 0..request.size
    /\ buffer \in [0..(request.size - 1) -> Byte \cup {Stale}]
    /\ outcome \in {"none", "ok", "failed"}
    /\ interrupts \in 0..MaxInterrupts

Unread(r) == [i \in 0..(r.size - 1) |-> Stale]

Init ==
    /\ disk \in [Position -> Byte] /\ before = disk
    /\ request \in Requests
    /\ pc = "idle" /\ total = 0
    /\ buffer = Unread(request)
    /\ outcome = "none" /\ interrupts = 0

-----------------------------------------------------------------------------
(* Mutated form of Call: the count of the last request is kept. *)
CallAgain ==
    /\ pc = "idle" /\ pc' = "check"
    /\ request' \in Requests
    /\ buffer' = Unread(request')
    /\ interrupts' = 0
    /\ before' = disk
    /\ UNCHANGED <<disk, total, outcome>>

Call ==
    /\ pc = "idle" /\ pc' = "check"
    /\ request' \in Requests
    /\ buffer' = Unread(request')
    /\ total' = 0 /\ interrupts' = 0
    /\ before' = disk
    /\ UNCHANGED <<disk, outcome>>

MaxIndex == (OffMax - (BlockSize - 1)) \div BlockSize

(* Mutated form of BlockRequestValid: of the product, only the sign of the *)
(* off_t is looked at.                                                     *)
BlockRequestPositive(r) == r.block => BlockSize <= OffMax /\ Offset(r) <= OffMax

(* validate_block_request *)
BlockRequestValid(r) ==
    r.block =>
        /\ BlockSize <= OffMax
        /\ r.at <= MaxIndex
        /\ Offset(r) \div BlockSize = r.at

(* validate_offset_request *)
OffsetRequestValid(r) ==
    /\ r.size <= OffMax
    /\ Offset(r) <= OffMax /\ r.size <= OffMax - Offset(r)

Return(o) == pc' = "idle" /\ outcome' = o

Check ==
    /\ pc = "check"
    /\ IF BlockRequestValid(request) /\ OffsetRequestValid(request)
       THEN pc' = "move" /\ UNCHANGED outcome
       ELSE Return("failed")
    /\ UNCHANGED <<disk, request, total, buffer, interrupts, before>>

(* The system call is interrupted before it moves a byte; fs_pread and     *)
(* fs_pwrite repeat it.                                                    *)
Interrupt ==
    /\ pc = "move" /\ total < request.size
    /\ interrupts < MaxInterrupts
    /\ interrupts' = interrupts + 1
    /\ UNCHANGED <<disk, request, pc, total, buffer, outcome, before>>

(* Mutated form of Here: every system call starts at the first byte. *)
HereAgain == Offset(request)

(* The place of the next system call: pos + total. *)
Here == Offset(request) + total

(* The bytes total .. total + k - 1 of the request. *)
Chunk(k) == total..(total + k - 1)

Move ==
    /\ pc = "move" /\ total < request.size
    /\ \E k \in 1..(request.size - total) :
        /\ Here + k <= Length
        /\ total' = total + k
        /\ IF request.op = "read"
           THEN /\ buffer' = [i \in DOMAIN buffer |->
                                IF i \in Chunk(k) THEN disk[Here + (i - total)] ELSE buffer[i]]
                /\ UNCHANGED disk
           ELSE /\ disk' = [p \in Position |->
                                IF Here <= p /\ p < Here + k
                                THEN request.data[total + (p - Here)] ELSE disk[p]]
                /\ UNCHANGED buffer
    /\ UNCHANGED <<request, pc, outcome, interrupts, before>>

Done ==
    /\ pc = "move" /\ total = request.size
    /\ Return("ok")
    /\ UNCHANGED <<disk, request, total, buffer, interrupts, before>>

(* Mutated form of Stop: a system call that moves no byte is repeated. *)
StopOnError ==
    /\ pc = "move" /\ total < request.size
    /\ IF Here < Length THEN Return("failed") ELSE UNCHANGED <<pc, outcome>>
    /\ UNCHANGED <<disk, request, total, buffer, interrupts, before>>

(* The system call fails, or moves no byte (the end of the image). *)
Stop ==
    /\ pc = "move" /\ total < request.size
    /\ Return("failed")
    /\ UNCHANGED <<disk, request, total, buffer, interrupts, before>>

(* The process is killed. *)
Kill ==
    /\ pc # "idle"
    /\ Return("failed")
    /\ UNCHANGED <<disk, request, total, buffer, interrupts, before>>

Step == Check \/ Interrupt \/ Move \/ Done \/ Stop

Next == Call \/ Step \/ Kill

Spec == Init /\ [][Next]_vars

(* The thread runs on; a system call that can neither move a byte nor be   *)
(* interrupted returns an error or zero.                                   *)
FairSpec == Spec /\ WF_vars(Step)

-----------------------------------------------------------------------------
(* The checks let a request through exactly if off_t can hold the end of   *)
(* the bytes the caller means.  None is let through whose offset has       *)
(* wrapped on to another block, and no block or range below the limit is   *)
(* refused, although the tests are made on the wrapped product, on a       *)
(* rounded largest index and on differences of the limits.                 *)
RefusedExactly ==
    [][Check => (pc' = "move" <=> Place(request) + request.size <= OffMax)]_vars

(* A request in progress returns, however it is interrupted. *)
RequestReturns == pc # "idle" ~> pc = "idle"

(* The promise: seen from outside, a request happens at once when it       *)
(* returns.  Until then the image is what it was before.                   *)
SeenRequest == [op |-> request.op, offset |-> Place(request),
                size |-> request.size, data |-> request.data]
SeenDisk == IF pc = "idle" THEN disk ELSE before
SeenOutcome == IF pc = "idle" THEN outcome ELSE "pending"
SeenGot == IF pc = "idle" /\ outcome = "ok" /\ request.op = "read" THEN buffer ELSE << >>

T == INSTANCE Transfer WITH
        disk <- SeenDisk, request <- SeenRequest, outcome <- SeenOutcome, got <- SeenGot

ImplementsTransfer == T!Spec
=============================================================================

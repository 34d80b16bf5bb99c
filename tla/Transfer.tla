------------------------------ MODULE Transfer ------------------------------
(***************************************************************************)
(* What ext4_io_read_exact_at, ext4_io_write_exact_at, read_block and      *)
(* write_block promise their callers (ext4_io.c): a call that returns 0    *)
(* has moved exactly the bytes asked for, from or to exactly the place     *)
(* asked for.  A call that fails, or dies with its process, has left the   *)
(* image as it was, or with a prefix of the data written and no byte       *)
(* outside it touched.                                                     *)
(***************************************************************************)
EXTENDS Integers

CONSTANTS Byte, Length

VARIABLES
    disk,       \* the image, Length bytes
    request,    \* the last request
    outcome,    \* "none", "pending", "ok" or "failed"
    got         \* what a successful read returned

Position == 0..(Length - 1)
Nothing == << >>

Written(d, r, n) ==
    [p \in Position |->
        IF r.offset <= p /\ p < r.offset + n THEN r.data[p - r.offset] ELSE d[p]]

Init ==
    /\ disk \in [Position -> Byte]
    /\ outcome = "none" /\ got = Nothing

Ask ==
    /\ outcome # "pending"
    /\ outcome' = "pending" /\ got' = Nothing
    /\ request'.op \in {"read", "write"}
    /\ UNCHANGED disk

Succeed ==
    /\ outcome = "pending" /\ outcome' = "ok"
    /\ request.offset + request.size <= Length
    /\ IF request.op = "read"
       THEN /\ got' = [i \in 0..(request.size - 1) |-> disk[request.offset + i]]
            /\ UNCHANGED disk
       ELSE disk' = Written(disk, request, request.size) /\ UNCHANGED got
    /\ UNCHANGED request

Fail ==
    /\ outcome = "pending" /\ outcome' = "failed"
    /\ \/ UNCHANGED disk
       \/ /\ request.op = "write"
          /\ \E n \in 0..request.size : disk' = Written(disk, request, n)
    /\ UNCHANGED <<request, got>>

Next == Ask \/ Succeed \/ Fail

Spec == Init /\ [][Next]_<<disk, request, outcome, got>>
=============================================================================

------------------------------- MODULE MCRawIO -------------------------------
(***************************************************************************)
(* A four byte image with blocks of two bytes; OffMax is 7, so that        *)
(* requests start and end on both sides of the end of the image and of the *)
(* largest offset, and the blocks from 8 to 15 are at products that wrap   *)
(* on to the offsets from 0 to 14.                                         *)
(***************************************************************************)
EXTENDS RawIO

MCByte == {0, 1}

Ask(op, block, at, size, data) ==
    [op |-> op, block |-> block, at |-> at, size |-> size,
     data |-> [i \in 0..(size - 1) |-> data[i + 1]]]

MCRequests ==
    {Ask("read", FALSE, at, size, <<0, 0, 0>>) : at \in 0..9 \cup {15}, size \in 1..3} \cup
    {Ask("write", FALSE, at, size, <<1, 0, 1>>) : at \in {0, 1, 5, 15}, size \in 1..3} \cup
    {Ask(op, TRUE, at, 2, <<0, 1, 0>>) : op \in {"read", "write"}, at \in 0..15}
=============================================================================

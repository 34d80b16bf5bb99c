------------------------------- MODULE MCMenu -------------------------------
(***************************************************************************)
(* A session of two commands with a pipe of three lines and a buffer of    *)
(* two.                                                                    *)
(***************************************************************************)
EXTENDS Menu

MCFailures == {"pipe", "fdopen_write", "fdopen_read"}
MCPageSizes == {1, 3}
=============================================================================

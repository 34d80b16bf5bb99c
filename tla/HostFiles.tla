----------------------------- MODULE HostFiles ------------------------------
(***************************************************************************)
(* A du or tree command while editor commands change the tree under it.    *)
(***************************************************************************)
EXTENDS Editor, HostWalk, SequencesExt

vars == <<host, edit, walker>>

(* Type correctness of the parts, and no stream is left open. *)
TypeOK == HostTypeOK /\ EditorTypeOK /\ HostWalkTypeOK

Init == HostInit /\ EditorInit /\ HostWalkInit

Next ==
    \/ EditorNext /\ Disturb
    \/ HostWalkNext /\ UNCHANGED edit

Spec == Init /\ [][Next]_vars

-----------------------------------------------------------------------------
(* Properties *)

Reports(q) == {k \in DOMAIN reported : reported[k][1] = q}
FileReports == {k \in DOMAIN reported : ~reported[k][2]}
Sizes == [k \in DOMAIN reported |-> reported[k][3]]

TotalOf(sizes) ==
    LET upTo[n \in 0..Len(sizes)] == IF n = 0 THEN 0 ELSE upTo[n - 1] + sizes[n]
    IN  upTo[Len(sizes)]

(* No process has opened the file to write it. *)
Unwritten(o) == Writers(o) = {}

(* A walk that returns 0 has reported every path that named the same       *)
(* object all the time, once, for what it is, and with the size it has     *)
(* unless it was written; and the totals are the sums of what was          *)
(* reported, without overflow.                                             *)
ReportIsTrue ==
    step = "done" /\ result = 0 =>
        /\ \A q \in steady :
            /\ Cardinality(Reports(q)) = 1
            /\ \A k \in Reports(q) :
                /\ reported[k][2] <=> Lookup(q) \in Directory
                /\ Du /\ ~reported[k][2] /\ (Lookup(q) \in Link \/ Unwritten(Lookup(q))) =>
                       reported[k][3] = SizeOf(Lookup(q))
        /\ Du => /\ usage.files = Cardinality(FileReports)
                 /\ usage.directories = Len(reported) - Cardinality(FileReports)
                 /\ usage.size = TotalOf(Sizes)

(* Nobody has changed anything. *)
Quiet == \A p \in Process : pc[p] = "start" \/ command[p].op = "read"

(* The sum of all sizes, or the number of files or of directories.         *)
TooMuch ==
    LET paths == PathsFrom(walk.path)
        files == SetToSeq({q \in paths : Lookup(q) \notin Directory})
    IN  \/ Len(files) > MaxTotal \/ Cardinality(paths) - Len(files) > MaxTotal
        \/ TotalOf([k \in DOMAIN files |-> SizeOf(Lookup(files[k]))]) > MaxTotal

(* A walk that returns 1 had a reason: a call that failed, a change by     *)
(* others, no object at its path, or totals that do not fit.               *)
FailureHasReason ==
    step = "done" /\ result = 1 /\ Quiet /\ faults = 0 =>
        Lookup(walk.path) = None \/ (Du /\ TooMuch)
=============================================================================

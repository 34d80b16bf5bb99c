------------------------------- MODULE Editor -------------------------------
(***************************************************************************)
(* The editor commands (editor.c), each run by a process of its own: read  *)
(* into a growing buffer that is printed at the end, write and append by   *)
(* write_all, create, delete, rename, link and symlink.  The processes     *)
(* share the tree, each may be killed between two system calls, and every  *)
(* call may fail, because it has to or for a reason of its own.            *)
(***************************************************************************)
EXTENDS HostTree

CONSTANTS
    Process,    \* the processes that run editor commands
    Sessions    \* the commands they may be given together

Operation == {"read", "write", "append", "create", "delete", "rename", "link", "symlink"}

(* The n-th byte of the content a process was given. *)
Stamp(p, n) == <<p, n>>

Command == [op : Operation, path : Seq(Name), to : Seq(Name), length : Nat]

(* The bytes of a process are its own: nobody else's, in no file before.   *)
ASSUME EditorAssumption ==
    /\ Sessions \subseteq [Process -> Command]
    /\ \A s \in Sessions, p \in Process : \A n \in 1..s[p].length :
            /\ Stamp(p, n) \in Byte \ {Hole}
            /\ \A o \in File : \A k \in 1..Len(Old[o]) : Old[o][k] # Stamp(p, n)

VARIABLES
    command,    \* what each process was given
    pc,         \* "start", "write", "read", "close", "done" or "dead"
    file,       \* the object its descriptor is, or was, open on
    written,    \* write_all: bytes written
    buffer,     \* editor_read_file: bytes read
    status      \* the status it returns

edit == <<command, pc, file, written, buffer, status>>

EditorTypeOK ==
    /\ command \in Sessions
    /\ pc \in [Process -> {"start", "write", "read", "close", "done", "dead"}]
    /\ file \in [Process -> File \cup {None}]
    /\ written \in [Process -> Nat]
    /\ \A p \in Process : written[p] <= command[p].length
    /\ buffer \in [Process -> Seq(Byte)]
    /\ status \in [Process -> {0, 1}]
    /\ \A p \in Process : pc[p] \in {"write", "read", "close"} => file[p] # None

EditorInit ==
    /\ command \in Sessions
    /\ pc = [p \in Process |-> "start"]
    /\ file = [p \in Process |-> None]
    /\ written = [p \in Process |-> 0]
    /\ buffer = [p \in Process |-> << >>]
    /\ status = [p \in Process |-> 0]

-----------------------------------------------------------------------------
Path(p) == command[p].path
To(p) == command[p].to
At(p, place, ops) == pc[p] = place /\ command[p].op \in ops

Goes(p, place) == pc' = [pc EXCEPT ![p] = place]
Fails(p) == status' = [status EXCEPT ![p] = 1]

(* editor_delete, editor_rename_file, editor_link, editor_symlink *)
OneCall(p) ==
    /\ \/ At(p, "start", {"delete"}) /\ Unlink(Path(p))
       \/ At(p, "start", {"rename"}) /\ Rename(Path(p), To(p))
       \/ At(p, "start", {"link"}) /\ AddLink(Path(p), To(p))
       \/ /\ At(p, "start", {"symlink"})
          /\ \E o \in Link : Target[o] = Path(p) /\ Make(To(p), o)
          /\ UNCHANGED content
    /\ Goes(p, "done")
    /\ UNCHANGED <<command, file, written, buffer, status>>

(* Any first call, open included, fails: nothing has happened. *)
FirstCallFails(p) ==
    /\ pc[p] = "start"
    /\ Goes(p, "done") /\ Fails(p)
    /\ UNCHANGED <<host, command, file, written, buffer>>

-----------------------------------------------------------------------------
(* open *)

(* Mutated form of Exclusive: create opens a file that is there. *)
ExclusiveNever(op) == FALSE

(* O_EXCL: the file must be new, and a link is not followed. *)
Exclusive(op) == op = "create"

(* O_CREAT of a name that is not there; *)
OpenNew(p) ==
    /\ At(p, "start", {"write", "append", "create"})
    /\ LET path == IF Exclusive(command[p].op) THEN Path(p) ELSE Follow(Path(p))
       IN  \E o \in File : Make(path, o) /\ file' = [file EXCEPT ![p] = o]
    /\ Goes(p, IF command[p].op = "create" THEN "close" ELSE "write")
    /\ UNCHANGED <<content, command, written, buffer, status>>

(* a file that is there, which O_TRUNC empties. *)
OpenOld(p) ==
    /\ pc[p] = "start"
    /\ LET op == command[p].op
           o == Lookup(Follow(Path(p)))
       IN  /\ op \in {"read", "write", "append", "create"} /\ ~Exclusive(op)
           /\ o \in File /\ file' = [file EXCEPT ![p] = o]
           /\ content' = IF op = "write" THEN [content EXCEPT ![o] = << >>] ELSE content
           /\ Goes(p, CASE op = "read" -> "read" [] op = "create" -> "close" [] OTHER -> "write")
    /\ UNCHANGED <<at, used, command, written, buffer, status>>

-----------------------------------------------------------------------------
(* write_all *)

Left(p) == command[p].length - written[p]

(* Where write puts its bytes: at the end with O_APPEND, else at the       *)
(* offset of the descriptor.                                               *)
Offset(p) == IF command[p].op = "append" THEN Len(content[file[p]]) ELSE written[p]

WriteSome(p) ==
    /\ pc[p] = "write"
    /\ \E n \in 1..Left(p) :
        /\ content' = [content EXCEPT ![file[p]] =
                           Put(@, Offset(p), [k \in 1..n |-> Stamp(p, written[p] + k)])]
        /\ written' = [written EXCEPT ![p] = @ + n]
    /\ UNCHANGED <<at, used, command, pc, file, buffer, status>>

(* Mutated form of Enough: one write is taken for all of it. *)
EnoughAtOnce(p) == Left(p) = 0 \/ written[p] > 0

Enough(p) == Left(p) = 0

WriteEnds(p) ==
    /\ pc[p] = "write" /\ Enough(p)
    /\ Goes(p, "close")
    /\ UNCHANGED <<host, command, file, written, buffer, status>>

(* write returns an error, or 0. *)
WriteFails(p) ==
    /\ pc[p] = "write" /\ ~Enough(p)
    /\ Goes(p, "close") /\ Fails(p)
    /\ UNCHANGED <<host, command, file, written, buffer>>

-----------------------------------------------------------------------------
(* editor_read_file *)

ReadSome(p) ==
    /\ pc[p] = "read"
    /\ LET old == content[file[p]]
           from == Len(buffer[p])
       IN  \E n \in (from + 1)..Len(old) :
               buffer' = [buffer EXCEPT ![p] = @ \o SubSeq(old, from + 1, n)]
    /\ UNCHANGED <<host, command, pc, file, written, status>>

ReadEnds(p) ==
    /\ pc[p] = "read"
    /\ Len(buffer[p]) >= Len(content[file[p]])
    /\ Goes(p, "close")
    /\ UNCHANGED <<host, command, file, written, buffer, status>>

(* read, the allocation of the buffer or the output of it fails. *)
ReadFails(p) ==
    /\ pc[p] = "read"
    /\ Goes(p, "close") /\ Fails(p)
    /\ UNCHANGED <<host, command, file, written, buffer>>

-----------------------------------------------------------------------------
Close(p) ==
    /\ pc[p] = "close"
    /\ Goes(p, "done")
    /\ UNCHANGED status \/ Fails(p)
    /\ UNCHANGED <<host, command, file, written, buffer>>

(* The process is killed. *)
Die(p) ==
    /\ pc[p] \in {"write", "read", "close"}
    /\ Goes(p, "dead")
    /\ UNCHANGED <<host, command, file, written, buffer, status>>

EditorNext ==
    \E p \in Process :
        \/ OneCall(p) \/ FirstCallFails(p) \/ OpenNew(p) \/ OpenOld(p)
        \/ WriteSome(p) \/ WriteEnds(p) \/ WriteFails(p)
        \/ ReadSome(p) \/ ReadEnds(p) \/ ReadFails(p)
        \/ Close(p) \/ Die(p)

-----------------------------------------------------------------------------
(* Properties *)

Finished(p) == pc[p] = "done" /\ status[p] = 0

(* What p has written; and once it has returned 0, all it was given. *)
Bytes(p) == [n \in 1..(IF Finished(p) THEN command[p].length ELSE written[p]) |-> Stamp(p, n)]

(* Those who have opened a file to write it from the beginning. *)
Overwriters(o) == {q \in Process : file[q] = o /\ command[q].op = "write"}

(* Those who have opened it to write. *)
Writers(o) == Overwriters(o) \cup {q \in Process : file[q] = o /\ command[q].op = "append"}

IsPrefixOf(a, b) == Len(a) <= Len(b) /\ SubSeq(b, 1, Len(a)) = a

(* Bytes are in a content, each once and in their order, and among them    *)
(* and around them nothing else that could be of the process.              *)
InOrder(p, bytes, old) ==
    \E place \in [1..Len(bytes) -> 1..Len(old)] :
        /\ \A n \in 1..Len(bytes) : old[place[n]] = bytes[n]
        /\ \A n \in 2..Len(bytes) : place[n - 1] < place[n]
        /\ \A k \in 1..Len(old) : (\E n \in 1..command[p].length : old[k] = Stamp(p, n)) =>
                                      \E n \in 1..Len(bytes) : k = place[n]

AppendIsKept(p, o) ==
    command[p].op = "append" /\ Overwriters(o) = {} =>
        /\ IsPrefixOf(Old[o], content[o])
        /\ InOrder(p, Bytes(p), content[o])

WriteIsKept(p, o) ==
    /\ Overwriters(o) = {p} => IsPrefixOf(Bytes(p), content[o])
    /\ Overwriters(o) = {p} /\ Writers(o) = {p} => content[o] = Bytes(p)

CreateIsAlone(p, o) ==
    command[p].op = "create" /\ Finished(p) =>
        /\ \A d \in Directory, n \in Name : Tree[d][n] # o
        /\ \A q \in Process \ {p} : file[q] = o => command[q].op # "create"

ReadIsReal(p, o) ==
    command[p].op = "read" /\ Overwriters(o) = {} =>
        /\ IsPrefixOf(buffer[p], content[o])
        /\ Finished(p) => Len(buffer[p]) >= Len(Old[o])

(* What the processes do to a file together, with any of them failing or   *)
(* killed on the way.  An append never loses what was there nor what       *)
(* others append, and its own bytes are all in the file, in order, when it *)
(* returns 0.  A write leaves a beginning of its content and nothing else, *)
(* all of it when it returns 0.  Of several that create a name one alone   *)
(* does, and never opens a file that was there.  A read returns what the   *)
(* file held at one time, while nobody writes it from the beginning.       *)
EditsAreKept ==
    \A p \in Process : file[p] # None =>
        /\ AppendIsKept(p, file[p]) /\ WriteIsKept(p, file[p])
        /\ CreateIsAlone(p, file[p]) /\ ReadIsReal(p, file[p])
=============================================================================

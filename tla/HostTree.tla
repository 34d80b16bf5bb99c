------------------------------ MODULE HostTree ------------------------------
(***************************************************************************)
(* The file tree of the host, as the editor and analyzer commands use it   *)
(* through the wrappers of errors.c: names in directories, the files they  *)
(* name, and what a system call that succeeds does to them.  All of this   *)
(* is the kernel's; a call is atomic, and between two calls of a program   *)
(* others run.                                                             *)
(***************************************************************************)
EXTENDS Integers, Sequences

CONSTANTS
    Object,     \* inodes of the host
    Kind,       \* what each is: "dir", "file" or "link"
    Target,     \* where each link points: a path
    Name,       \* names
    None,       \* no inode
    Top,        \* the directory where paths begin
    Tree,       \* the names at the beginning: Tree[d][n] for a directory d
    Byte,       \* bytes, marked by who wrote them
    Old,        \* the bytes of each file at the beginning
    Hole        \* a byte nobody wrote

Directory == {o \in Object : Kind[o] = "dir"}
File == {o \in Object : Kind[o] = "file"}
Link == {o \in Object : Kind[o] = "link"}

ASSUME HostTreeAssumption ==
    /\ Kind \in [Object -> {"dir", "file", "link"}]
    /\ None \notin Object /\ Top \in Directory
    /\ Target \in [Link -> Seq(Name)]
    /\ Tree \in [Directory -> [Name -> Object \cup {None}]]
    /\ Old \in [File -> Seq(Byte)] /\ Hole \in Byte
    /\ \A o \in File : Old[o] # << >> => \E d \in Directory, n \in Name : Tree[d][n] = o

VARIABLES
    at,         \* the object each directory has under each name
    content,    \* the bytes of each file
    used        \* objects that exist or existed: one is not used twice

host == <<at, content, used>>

HostTypeOK ==
    /\ at \in [Directory -> [Name -> Object \cup {None}]]
    /\ content \in [File -> Seq(Byte)]
    /\ used \subseteq Object

HostInit ==
    /\ at = Tree /\ content = Old
    /\ used = {Top} \cup {o \in Object : \E d \in Directory, n \in Name : Tree[d][n] = o}

-----------------------------------------------------------------------------
(* Paths *)

(* What a path names.  Bound: a link on the way leads nowhere. *)
Lookup(path) ==
    LET upTo[n \in 0..Len(path)] ==
            IF n = 0 THEN Top
            ELSE IF upTo[n - 1] \in Directory THEN at[upTo[n - 1]][path[n]]
            ELSE None
    IN  upTo[Len(path)]

(* open, opendir: a link at the end is followed, once. *)
Follow(path) == IF Lookup(path) \in Link THEN Target[Lookup(path)] ELSE path

Parent(path) == SubSeq(path, 1, Len(path) - 1)
LastName(path) == path[Len(path)]

(* A name can be entered here. *)
Enterable(path) == path # << >> /\ Lookup(Parent(path)) \in Directory

Entries(d) == {n \in Name : at[d][n] # None}

(* b is a or below it. *)
Below(a, b) == Len(a) <= Len(b) /\ SubSeq(b, 1, Len(a)) = a

-----------------------------------------------------------------------------
(* System calls that succeed *)

Enter(path, object) == at' = [at EXCEPT ![Lookup(Parent(path))][LastName(path)] = object]

(* A new file or link. *)
Make(path, object) ==
    /\ Enterable(path) /\ Lookup(path) = None
    /\ object \notin used /\ used' = used \cup {object}
    /\ Enter(path, object)

Unlink(path) ==
    /\ Lookup(path) \in File \cup Link
    /\ Enter(path, None)
    /\ UNCHANGED <<content, used>>

(* A directory goes over an empty one only, never below itself; two names  *)
(* of one file stay as they are.                                           *)
Rename(from, to) ==
    LET source == Lookup(from)
        dest == Lookup(to)
    IN  /\ source # None /\ from # << >> /\ Enterable(to)
        /\ source \in Directory =>
               /\ dest = None \/ dest = source \/ (dest \in Directory /\ Entries(dest) = {})
               /\ ~Below(from, Parent(to))
        /\ source \notin Directory => dest \notin Directory
        /\ at' = IF source = dest THEN at
                 ELSE LET gone == [at EXCEPT ![Lookup(Parent(from))][LastName(from)] = None]
                      IN  [gone EXCEPT ![Lookup(Parent(to))][LastName(to)] = source]
        /\ UNCHANGED <<content, used>>

AddLink(from, to) ==
    /\ Lookup(from) \in File \cup Link
    /\ Enterable(to) /\ Lookup(to) = None
    /\ Enter(to, Lookup(from))
    /\ UNCHANGED <<content, used>>

(* Bytes put into a file at an offset, behind its end with a hole.         *)
Put(old, offset, bytes) ==
    LET end == offset + Len(bytes)
    IN  [k \in 1..(IF Len(old) > end THEN Len(old) ELSE end) |->
            IF k \in (offset + 1)..end THEN bytes[k - offset]
            ELSE IF k <= Len(old) THEN old[k] ELSE Hole]

(* lstat: st_size *)
SizeOf(object) ==
    CASE object \in File -> Len(content[object])
      [] object \in Link -> Len(Target[object])
=============================================================================

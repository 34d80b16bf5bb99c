-------------------------------- MODULE Menu --------------------------------
(***************************************************************************)
(* The menu interface (ui.c).  The user picks a command, is prompted for   *)
(* its arguments, the command runs in the same thread with its standard    *)
(* output redirected into a pipe (cap_begin), and when it has returned the *)
(* pipe is drained into a buffer of lines (cap_end) that a pager shows.    *)
(*                                                                         *)
(* All lines have the same size here; what the stdio buffer holds back is  *)
(* written out by cap_end before anything is read, so that a command's     *)
(* whole output has to fit the pipe.                                       *)
(***************************************************************************)
EXTENDS Integers, Sequences

CONSTANTS
    PipeLines,  \* what the pipe holds: 65536 bytes on Linux
    MaxLines,   \* UI_MAX_LINES, 4096
    MaxOutput,  \* bound: the most lines a command prints
    MaxRuns,    \* bound: commands run in one session
    Failures,   \* the calls that may fail: a subset of {"pipe", "fdopen_write", "fdopen_read"}
    PageSizes   \* bound: the heights the pager may have

ASSUME MenuAssumption ==
    /\ PipeLines \in Nat /\ MaxLines \in Nat \ {0}
    /\ MaxOutput \in Nat /\ MaxRuns \in Nat
    /\ Failures \subseteq {"pipe", "fdopen_write", "fdopen_read"}
    /\ PageSizes \subseteq Nat \ {0} /\ PageSizes # {}

Submenu == {"nav", "ext4dir", "backup"}

(* menu_main, menu_nav, menu_ext4dir and menu_backup. *)
Items(menu) ==
    CASE menu = "main" -> Submenu \cup {"superblock"}
      [] menu = "nav" -> {"analyze", "tree", "du", "stat"}
      [] menu = "ext4dir" -> {"ls", "walk", "find_name", "find_inode", "find_corrupt", "inode_info"}
      [] menu = "backup" -> {"discover", "compare", "preview", "restore"}

Command == {"superblock"} \cup UNION {Items(m) : m \in Submenu}

(* How often a command asks; only the find and restore commands ask     *)
(* three times.                                                            *)
Prompts(c) ==
    CASE c \in {"analyze", "tree", "du", "stat", "discover", "compare", "superblock"} -> 1
      [] c \in {"ls", "walk", "find_corrupt", "inode_info", "preview"} -> 2
      [] OTHER -> 3

(* run_and_show: a message stands in for a command that printed nothing. *)
ShownByMessage(c) == c \in {"analyze", "tree", "du", "discover", "compare", "superblock"}

VARIABLES
    menus,      \* the menus entered, innermost last
    pc,         \* the place in the code
    command,    \* the command picked last
    answered,   \* prompts answered, or whether "restore" has asked again
    out,        \* stdout: "terminal" or "pipe"
    saved,      \* g_orig_stdout # NULL
    ends,       \* the ends of the pipe that are open
    pipe,       \* the lines in the pipe
    captured,   \* g_cap
    todo,       \* lines the command has still to print
    top,        \* the first line the pager shows
    rows,       \* content_rows
    run,        \* history: commands run
    printed,    \* history: lines the last command has printed
    failed      \* history: the calls that failed in the last capture

capture == <<out, saved, ends, pipe, captured>>
pager == <<top, rows>>
vars == <<menus, pc, command, answered, capture, todo, pager, run, printed, failed>>

Label == {"menu", "prompt", "begin", "run", "stdin", "end", "pager", "message", "undefined", "exit"}

Line == (1..MaxRuns) \X (1..MaxOutput)

(* ui_message shows one line. *)
Count == IF pc = "message" THEN 1 ELSE Len(captured)

(* Type correctness; through scrolling and resizing the first line of the  *)
(* pager is a line of the buffer.                                          *)
TypeOK ==
    /\ menus \in Seq(Submenu \cup {"main"})
    /\ pc \in Label /\ (menus = << >> <=> pc = "exit")
    /\ command \in Command /\ answered \in 0..3
    /\ out \in {"terminal", "pipe"} /\ saved \in BOOLEAN
    /\ ends \subseteq {"read", "write"}
    /\ pipe \in Seq(Line) /\ Len(pipe) <= PipeLines
    /\ captured \in Seq(Line) /\ Len(captured) <= MaxLines
    /\ todo \in 0..MaxOutput
    /\ rows \in PageSizes
    /\ top \in Nat /\ (pc \in {"pager", "message"} /\ Count > 0 => top < Count)
    /\ run \in 0..MaxRuns /\ printed \in 0..MaxOutput
    /\ failed \subseteq Failures

Init ==
    /\ menus = <<"main">> /\ pc = "menu" /\ command = "superblock" /\ answered = 0
    /\ out = "terminal" /\ saved = FALSE /\ ends = {} /\ pipe = << >> /\ captured = << >>
    /\ todo = 0 /\ top = 0 /\ rows \in PageSizes
    /\ run = 0 /\ printed = 0 /\ failed = {}

-----------------------------------------------------------------------------
(* ui_menu_loop over ui_menu_run *)

Menu == menus[Len(menus)]

EnterSubmenu(m) ==
    /\ pc = "menu" /\ m \in Items(Menu)
    /\ menus' = Append(menus, m)
    /\ UNCHANGED <<pc, command, answered, capture, todo, pager, run, printed, failed>>

Pick(c) ==
    /\ pc = "menu" /\ c \in Items(Menu)
    /\ run < MaxRuns
    /\ command' = c /\ answered' = 0 /\ pc' = "prompt"
    /\ UNCHANGED <<menus, capture, todo, pager, run, printed, failed>>

Leave ==
    /\ pc = "menu"
    /\ menus' = SubSeq(menus, 1, Len(menus) - 1)
    /\ pc' = IF Len(menus) = 1 THEN "exit" ELSE "menu"
    /\ UNCHANGED <<command, answered, capture, todo, pager, run, printed, failed>>

(* ui_prompt is cancelled, or answered with nothing. *)
Cancel ==
    /\ pc = "prompt"
    /\ pc' = "menu"
    /\ UNCHANGED <<menus, command, answered, capture, todo, pager, run, printed, failed>>

Answer ==
    /\ pc = "prompt"
    /\ answered' = answered + 1
    /\ pc' = IF answered + 1 = Prompts(command) THEN "begin" ELSE "prompt"
    /\ UNCHANGED <<menus, command, capture, todo, pager, run, printed, failed>>

(* The last prompt of the restore is answered with anything but RESTORE. *)
AnswerOther ==
    /\ pc = "prompt" /\ command = "restore" /\ answered = 2
    /\ pc' = "message" /\ top' = 0
    /\ UNCHANGED <<menus, command, answered, capture, todo, rows, run, printed, failed>>

-----------------------------------------------------------------------------
(* Mutated form of Cleared: the buffer keeps the lines it has. *)
ClearedNever == captured

(* g_cap.count = 0 *)
Cleared == << >>

(* cap_begin, up to the start of the command. *)
CapBegin ==
    /\ pc = "begin"
    /\ captured' = Cleared
    /\ \/ out' = "pipe" /\ saved' = TRUE /\ ends' = {"read", "write"} /\ failed' = {}
       \/ /\ "pipe" \in Failures
          /\ failed' = {"pipe"}
          /\ UNCHANGED <<out, saved, ends>>
       \/ /\ "fdopen_write" \in Failures
          /\ saved' = TRUE /\ failed' = {"fdopen_write"}
          /\ UNCHANGED <<out, ends>>
    /\ pc' = "run" /\ answered' = 0
    /\ todo' \in 0..MaxOutput
    /\ run' = run + 1 /\ printed' = 0
    /\ UNCHANGED <<menus, command, pipe, pager>>

(* A line goes to the terminal, or into the pipe once there is room; but   *)
(* nobody reads the pipe while the command runs.                           *)
PrintLine ==
    /\ pc = "run" /\ todo > 0
    /\ \/ out = "terminal" /\ UNCHANGED pipe
       \/ out = "pipe" /\ Len(pipe) < PipeLines /\ pipe' = Append(pipe, <<run, printed + 1>>)
    /\ todo' = todo - 1 /\ printed' = printed + 1
    /\ UNCHANGED <<menus, pc, command, answered, out, saved, ends, captured, pager, run, failed>>

(* confirm_restore asks again, with its prompt in the pipe, ... *)
AskAgain ==
    /\ pc = "run" /\ command = "restore" /\ answered = 0
    /\ pc' = "stdin" /\ answered' = 1
    /\ UNCHANGED <<menus, command, capture, todo, pager, run, printed, failed>>

(* ... and takes a line of keys from the user. *)
TypeLine ==
    /\ pc = "stdin"
    /\ pc' = "run"
    /\ UNCHANGED <<menus, command, answered, capture, todo, pager, run, printed, failed>>

CommandReturns ==
    /\ pc = "run" /\ todo = 0
    /\ pc' = "end"
    /\ UNCHANGED <<menus, command, answered, capture, todo, pager, run, printed, failed>>

-----------------------------------------------------------------------------
(* What is shown next, given the buffer. *)
Show(lines) ==
    /\ pc' = IF lines = << >> /\ ShownByMessage(command) THEN "message" ELSE "pager"
    /\ top' = 0

Drained ==
    LET room == MaxLines - Len(captured)
    IN  captured \o SubSeq(pipe, 1, IF Len(pipe) <= room THEN Len(pipe) ELSE room)

(* Mutated form of ClosedByEnd: the read end is left open on the error.    *)
ClosedIfRead(ok) == IF ok THEN {} ELSE {"read"}

ClosedByEnd(ok) == {}

(* cap_end: nothing to restore; *)
CapEndNothing ==
    /\ pc = "end" /\ ~saved
    /\ Show(captured)
    /\ UNCHANGED <<menus, command, answered, capture, todo, rows, run, printed, failed>>

(* the write end is closed, stdout is the terminal again, the read end is  *)
(* drained, up to MaxLines, and closed;                                    *)
CapEnd ==
    /\ pc = "end" /\ saved /\ out = "pipe"
    /\ out' = "terminal" /\ saved' = FALSE /\ pipe' = << >>
    /\ \/ captured' = Drained /\ ends' = ClosedByEnd(TRUE) /\ UNCHANGED failed
       \/ /\ "fdopen_read" \in Failures
          /\ failed' = failed \cup {"fdopen_read"}
          /\ ends' = ClosedByEnd(FALSE) /\ UNCHANGED captured
    /\ Show(captured')
    /\ UNCHANGED <<menus, command, answered, todo, rows, run, printed>>

(* or, after cap_begin failed to open the write end, g_orig_stdout is set  *)
(* and stdout is the terminal itself: fclose(stdout) closes it for good,   *)
(* and whatever uses stdout from now on uses a closed stream.              *)
CapEndClosesTerminal ==
    /\ pc = "end" /\ saved /\ out = "terminal"
    /\ saved' = FALSE /\ pc' = "undefined"
    /\ UNCHANGED <<menus, command, answered, out, ends, pipe, captured, todo, pager, run, printed, failed>>

-----------------------------------------------------------------------------
(* ui_pager *)

AtLeastZero(n) == IF n < 0 THEN 0 ELSE n

(* Mutated form of PageDown: not held at the first line. *)
PageDownOnly == IF top + 2 * rows > Count THEN Count - rows ELSE top + rows

PageDown == AtLeastZero(IF top + 2 * rows > Count THEN Count - rows ELSE top + rows)

Scroll ==
    /\ pc \in {"pager", "message"}
    /\ top' \in {IF top + rows < Count THEN top + 1 ELSE top,
                 AtLeastZero(top - 1),
                 PageDown,
                 AtLeastZero(top - rows),
                 0,
                 AtLeastZero(Count - rows)}
    /\ UNCHANGED <<menus, pc, command, answered, capture, todo, rows, run, printed, failed>>

(* KEY_RESIZE: the first line stays where it is. *)
Resize ==
    /\ pc \in {"menu", "pager", "message"}
    /\ rows' \in PageSizes
    /\ UNCHANGED <<menus, pc, command, answered, capture, todo, top, run, printed, failed>>

ClosePager ==
    /\ pc \in {"pager", "message"}
    /\ pc' = "menu" /\ top' = 0
    /\ UNCHANGED <<menus, command, answered, capture, todo, rows, run, printed, failed>>

User ==
    \/ \E m \in Submenu : EnterSubmenu(m)
    \/ \E c \in Command : Pick(c)
    \/ Leave \/ Cancel \/ Answer \/ AnswerOther \/ TypeLine
    \/ Scroll \/ Resize \/ ClosePager

Program ==
    \/ CapBegin \/ PrintLine \/ AskAgain \/ CommandReturns
    \/ CapEndNothing \/ CapEnd \/ CapEndClosesTerminal

Next == User \/ Program

Spec == Init /\ [][Next]_vars

(* The program runs on; the user may stop anywhere, but answers a question *)
(* a command asks.                                                         *)
FairSpec == Spec /\ WF_vars(Program) /\ WF_vars(TypeLine)

-----------------------------------------------------------------------------
(* Properties *)

(* Between commands the terminal is stdout, nothing is saved and no end of *)
(* the pipe is open, whatever failed in the captures before; and the one   *)
(* way to lose the terminal is a cap_begin that could not open its end.    *)
TerminalKept ==
    /\ pc \in {"menu", "prompt", "pager", "message", "exit"} =>
           out = "terminal" /\ ~saved /\ ends = {} /\ pipe = << >>
    /\ pc = "undefined" => "fdopen_write" \in failed

(* What the pager shows are lines of the command just run, never of one    *)
(* before it, in order, and unless a call of the capture failed all of     *)
(* them that the buffer holds.                                             *)
ShownIsPrinted ==
    pc = "pager" =>
        LET most == IF printed < MaxLines THEN printed ELSE MaxLines
        IN  captured = IF failed = {} THEN [n \in 1..most |-> <<run, n>>] ELSE << >>

(* "Run a captured operation and show pager": every command the menu runs  *)
(* comes back, and its output is shown.                                    *)
CommandComesBack == pc = "run" ~> pc \in {"pager", "message"}
=============================================================================

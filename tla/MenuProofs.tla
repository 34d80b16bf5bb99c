----------------------------- MODULE MenuProofs -----------------------------
(***************************************************************************)
(* Proofs about Menu for every size of the pipe, of the buffer and of the  *)
(* pager, any number of commands and any failing calls: types, the         *)
(* terminal comes back, and the pager shows what the command printed.      *)
(***************************************************************************)
EXTENDS Menu, SequenceTheorems, TLAPS

(* A command is being captured. *)
Running == {"run", "stdin", "end"}

(* The lines 1 to n of a command. *)
Lines(r, n) == [k \in 1..n |-> <<r, k>>]

(* What a capture may be in the middle of: nothing, because the pipe could *)
(* not be made; a terminal that will be closed, because the write end      *)
(* could not be opened; or a pipe that holds what has been printed.        *)
Capturing ==
    \/ out = "terminal" /\ ~saved /\ ends = {} /\ pipe = << >> /\ failed = {"pipe"}
    \/ out = "terminal" /\ saved /\ failed = {"fdopen_write"}
    \/ out = "pipe" /\ saved /\ failed = {} /\ pipe = Lines(run, printed)

(* The stage of a capture at each label. *)
CaptureInv ==
    /\ pc \notin Running \cup {"undefined"} =>
           out = "terminal" /\ ~saved /\ ends = {} /\ pipe = << >>
    /\ pc \in Running => captured = << >> /\ Capturing
    /\ pc = "undefined" => "fdopen_write" \in failed

(* What the counters of prompts, commands and lines are bounded by. *)
CountInv ==
    /\ pc \in {"prompt", "begin"} => run < MaxRuns
    /\ pc = "prompt" => answered < Prompts(command)
    /\ pc \in Running => 1 <= run /\ printed + todo <= MaxOutput
    /\ pc = "end" => todo = 0

IInv == TypeOK /\ CaptureInv /\ CountInv

-----------------------------------------------------------------------------
(* No line has been printed.                                               *)
LEMMA NoLines == ASSUME NEW r PROVE Lines(r, 0) = << >>
    BY DEF Lines

(* A line that is printed extends the output by one.                       *)
LEMMA OneLineMore ==
    ASSUME NEW r \in Nat, NEW n \in Nat
    PROVE  Append(Lines(r, n), <<r, n + 1>>) = Lines(r, n + 1)
    BY DEF Lines

(* A beginning of the output is again lines of the same command.           *)
LEMMA LinesCut ==
    ASSUME NEW r \in Nat, NEW n \in Nat, NEW m \in Nat, m <= n
    PROVE  /\ Len(Lines(r, n)) = n
           /\ SubSeq(Lines(r, n), 1, m) = Lines(r, m)
    BY DEF Lines

(* Lines of a command are lines of the model while the bounds hold.        *)
LEMMA LinesType ==
    ASSUME NEW r \in 1..MaxRuns, NEW n \in 0..MaxOutput
    PROVE  Lines(r, n) \in Seq(Line)
<1>1. n \in Nat /\ \A k \in 1..n : <<r, k>> \in Line
    BY MenuAssumption DEF Line
<1>2. Lines(r, n) \in [1..n -> Line]
    BY <1>1 DEF Lines
<1> QED
    BY <1>1, <1>2

(* Leaving a menu leaves a sequence of menus, empty after the last.        *)
LEMMA FrontOfMenus ==
    ASSUME NEW S, NEW s \in Seq(S), s # << >>
    PROVE  /\ SubSeq(s, 1, Len(s) - 1) \in Seq(S)
           /\ (SubSeq(s, 1, Len(s) - 1) = << >>) <=> (Len(s) = 1)
<1> DEFINE front == SubSeq(s, 1, Len(s) - 1)
<1>1. Len(s) \in Nat /\ Len(s) # 0 /\ \A k \in 1..Len(s) : s[k] \in S
    BY EmptySeq, LenProperties
<1>2. \A k \in 1..(Len(s) - 1) : s[k] \in S
    BY <1>1
<1>3. front \in Seq(S) /\ Len(front) = IF 1 <= Len(s) - 1 THEN Len(s) - 1 - 1 + 1 ELSE 0
    BY <1>1, <1>2, SubSeqProperties
<1>4. (front = << >>) <=> (Len(front) = 0)
    BY <1>3, EmptySeq
<1>5. ASSUME NEW n \in Nat, NEW k \in Nat, n # 0, k = IF 1 <= n - 1 THEN n - 1 - 1 + 1 ELSE 0
      PROVE  (k = 0) <=> (n = 1)
    BY <1>5
<1> QED
  <2> HIDE DEF front
  <2>1. Len(front) \in Nat
      BY <1>3, LenProperties
  <2>2. (Len(front) = 0) <=> (Len(s) = 1)
      BY <1>1, <1>3, <1>5, <2>1
  <2>3. front \in Seq(S) /\ ((front = << >>) <=> (Len(s) = 1))
      BY <1>3, <1>4, <2>2
  <2> QED
      BY <2>3 DEF front

(* Every command asks for one to three lines.                              *)
LEMMA PromptCounts == ASSUME NEW c \in Command PROVE Prompts(c) \in 1..3
<1>1. Prompts(c) = 1 \/ Prompts(c) = 2 \/ Prompts(c) = 3
    BY Zenon DEF Prompts
<1> QED
    BY <1>1

(* Of the drained pipe the buffer takes the lines it has room for. *)
LEMMA DrainedLines ==
    ASSUME TypeOK, captured = << >>, pipe = Lines(run, printed)
    PROVE  Drained = Lines(run, IF printed < MaxLines THEN printed ELSE MaxLines)
<1>1. run \in Nat /\ printed \in Nat /\ MaxLines \in Nat
    BY MenuAssumption DEF TypeOK
<1>2. Len(pipe) = printed
    BY <1>1, LinesCut
<1>3. Drained = SubSeq(pipe, 1, IF printed < MaxLines THEN printed ELSE MaxLines)
    BY <1>1, <1>2 DEF Drained, TypeOK
<1> QED
    BY <1>1, <1>3, LinesCut

-----------------------------------------------------------------------------
LEMMA InitInv == Init => IInv
<1> SUFFICES ASSUME Init PROVE IInv
    OBVIOUS
<1>1. <<"main">> \in Seq(Submenu \cup {"main"}) /\ <<"main">> # << >>
    OBVIOUS
<1>2. "superblock" \in Command /\ << >> \in Seq(Line) /\ Len(<< >>) = 0
    BY DEF Command
<1>4. 0 \in 0..MaxRuns /\ 0 \in 0..MaxOutput /\ 0 <= PipeLines /\ 0 <= MaxLines
    BY MenuAssumption
<1>5. TypeOK
  <2>1. /\ menus \in Seq(Submenu \cup {"main"})
        /\ pc \in Label /\ (menus = << >> <=> pc = "exit")
      BY <1>1 DEF Init, Label
  <2>2. command \in Command /\ answered \in 0..3 /\ out \in {"terminal", "pipe"}
      BY <1>2 DEF Init
  <2>3. pipe \in Seq(Line) /\ Len(pipe) <= PipeLines /\ captured \in Seq(Line) /\ Len(captured) <= MaxLines
      BY <1>2, <1>4 DEF Init
  <2>4. todo \in 0..MaxOutput /\ run \in 0..MaxRuns /\ printed \in 0..MaxOutput
      BY <1>4 DEF Init
  <2>5. rows \in PageSizes /\ top \in Nat /\ pc \notin {"pager", "message"}
      BY DEF Init
  <2> QED
      BY <2>1, <2>2, <2>3, <2>4, <2>5 DEF Init, TypeOK
<1>3. CaptureInv /\ CountInv
    BY DEF Init, CaptureInv, CountInv, Running
<1> QED
    BY <1>3, <1>5 DEF IInv

(* What the user does: menus, prompts, the pager. *)
LEMMA UserStep == IInv /\ User => IInv'
<1> SUFFICES ASSUME IInv, User PROVE IInv'
    OBVIOUS
<1> USE DEF IInv, capture, pager
<1>1. ASSUME NEW m \in Submenu, EnterSubmenu(m) PROVE IInv'
  <2>1. menus' \in Seq(Submenu \cup {"main"}) /\ menus' # << >>
      BY <1>1 DEF EnterSubmenu, TypeOK
  <2>2. TypeOK'
      BY <1>1, <2>1 DEF EnterSubmenu, TypeOK, Count
  <2>3. CaptureInv' /\ CountInv'
      BY <1>1 DEF EnterSubmenu, CaptureInv, Capturing, Lines, CountInv, Running
  <2> QED
      BY <2>2, <2>3
<1>2. ASSUME NEW c \in Command, Pick(c) PROVE IInv'
  <2>1. TypeOK'
      BY <1>2 DEF Pick, TypeOK, Label
  <2>2. CountInv'
      BY <1>2, PromptCounts DEF Pick, CountInv, Running
  <2>3. CaptureInv'
      BY <1>2 DEF Pick, CaptureInv, Running
  <2> QED
      BY <2>1, <2>2, <2>3
<1>3. CASE Leave
  <2>1. menus \in Seq(Submenu \cup {"main"}) /\ menus # << >>
      BY <1>3 DEF Leave, TypeOK
  <2>2. menus' \in Seq(Submenu \cup {"main"})
      BY <1>3, <2>1, FrontOfMenus DEF Leave
  <2>5. menus' = << >> <=> pc' = "exit"
      BY <1>3, <2>1, FrontOfMenus DEF Leave
  <2>3. TypeOK'
      BY <1>3, <2>2, <2>5 DEF Leave, TypeOK, Label
  <2>4. CaptureInv' /\ CountInv'
      BY <1>3 DEF Leave, CaptureInv, CountInv, Running
  <2> QED
      BY <2>3, <2>4
<1>4. CASE Cancel
    BY <1>4 DEF Cancel, TypeOK, Label, CaptureInv, CountInv, Running
<1>5. CASE Answer
  <2>1. answered' \in 0..3 /\ (pc' = "prompt" => answered' < Prompts(command'))
      BY <1>5, PromptCounts DEF Answer, TypeOK, CountInv
  <2>2. TypeOK'
      BY <1>5, <2>1 DEF Answer, TypeOK, Label
  <2>3. CaptureInv' /\ CountInv'
      BY <1>5, <2>1 DEF Answer, CaptureInv, CountInv, Running
  <2> QED
      BY <2>2, <2>3
<1>6. CASE AnswerOther
    BY <1>6 DEF AnswerOther, TypeOK, Label, Count, CaptureInv, CountInv, Running
<1>7. CASE TypeLine
    BY <1>7 DEF TypeLine, TypeOK, Label, CaptureInv, Capturing, Lines, CountInv, Running
<1>8. CASE Scroll
  <2>1. Count \in Nat /\ Count' = Count /\ rows \in Nat \ {0} /\ top \in Nat
      BY <1>8, MenuAssumption DEF Scroll, Count, TypeOK
  <2>2. top' >= 0 /\ (Count' > 0 => top' < Count')
      BY <1>8, <2>1 DEF Scroll, AtLeastZero, PageDown, TypeOK
  <2>3. TypeOK'
      BY <1>8, <2>2 DEF Scroll, TypeOK
  <2>4. CaptureInv' /\ CountInv'
      BY <1>8 DEF Scroll, CaptureInv, CountInv, Running
  <2> QED
      BY <2>3, <2>4
<1>9. CASE Resize
    BY <1>9 DEF Resize, TypeOK, Count, CaptureInv, CountInv, Running
<1>10. CASE ClosePager
    BY <1>10 DEF ClosePager, TypeOK, Label, CaptureInv, CountInv, Running
<1> QED
    BY <1>1, <1>2, <1>3, <1>4, <1>5, <1>6, <1>7, <1>8, <1>9, <1>10 DEF User

(* What the program does: the capture and the command in it. *)
LEMMA ProgramStep == IInv /\ Program => IInv'
<1> SUFFICES ASSUME IInv, Program PROVE IInv'
    OBVIOUS
<1> USE DEF IInv, capture, pager
<1>1. CASE CapBegin
  <2>1. /\ run' \in 1..MaxRuns /\ printed' = 0 /\ todo' \in 0..MaxOutput /\ printed' \in 0..MaxOutput
        /\ printed' + todo' <= MaxOutput
    <3>1. run \in 0..MaxRuns /\ run < MaxRuns /\ run' = run + 1
        BY <1>1 DEF CapBegin, CountInv, TypeOK
    <3>2. printed' = 0 /\ todo' \in 0..MaxOutput
        BY <1>1 DEF CapBegin
    <3>3. run' \in 1..MaxRuns
        BY <3>1, MenuAssumption
    <3>4. printed' \in 0..MaxOutput /\ printed' + todo' <= MaxOutput
      <4>1. ASSUME NEW t \in 0..MaxOutput PROVE 0 \in 0..MaxOutput /\ 0 + t <= MaxOutput
          BY MenuAssumption
      <4> QED
          BY <3>2, <4>1
    <3> QED
        BY <3>2, <3>3, <3>4
  <2>2. captured' = << >> /\ captured' \in Seq(Line) /\ Len(captured') <= MaxLines
      BY <1>1, MenuAssumption DEF CapBegin, Cleared
  <2>3. out = "terminal" /\ ~saved /\ ends = {} /\ pipe = << >> /\ pipe' = pipe
      BY <1>1 DEF CapBegin, CaptureInv, Running
  <2>4. /\ out' \in {"terminal", "pipe"} /\ saved' \in BOOLEAN
        /\ ends' \subseteq {"read", "write"} /\ failed' \subseteq Failures
      BY <1>1, <2>3 DEF CapBegin, TypeOK
  <2>5. Capturing'
      BY <1>1, <2>1, <2>3, NoLines DEF CapBegin, Capturing
  <2>6. TypeOK'
      BY <1>1, <2>1, <2>2, <2>4 DEF CapBegin, TypeOK, Label
  <2>7. CaptureInv' /\ CountInv'
      BY <1>1, <2>1, <2>2, <2>5 DEF CapBegin, CaptureInv, CountInv, Running
  <2> QED
      BY <2>6, <2>7
<1>2. CASE PrintLine
  <2>1. /\ run \in 1..MaxRuns /\ printed \in Nat /\ todo \in Nat /\ printed' = printed + 1
        /\ todo' = todo - 1 /\ todo > 0 /\ printed + todo <= MaxOutput
      BY <1>2, MenuAssumption DEF PrintLine, CountInv, Running, TypeOK
  <2>2. printed' \in 1..MaxOutput /\ todo' \in 0..MaxOutput /\ printed' + todo' <= MaxOutput
      BY <2>1, MenuAssumption
  <2>3. CASE out = "terminal"
    <3>1. TypeOK'
        BY <1>2, <2>2, <2>3 DEF PrintLine, TypeOK
    <3>2. CaptureInv' /\ CountInv'
        BY <1>2, <2>2, <2>3 DEF PrintLine, CaptureInv, Capturing, CountInv, Running
    <3> QED
        BY <3>1, <3>2
  <2>4. CASE out = "pipe"
    <3>1. pipe = Lines(run, printed) /\ pipe' = Append(pipe, <<run, printed + 1>>)
        BY <1>2, <2>4 DEF PrintLine, CaptureInv, Capturing, Running
    <3>2. pipe' = Lines(run', printed')
      <4>1. run' = run
          BY <1>2 DEF PrintLine
      <4>2. Append(Lines(run, printed), <<run, printed + 1>>) = Lines(run, printed + 1)
        <5>1. run \in Nat
            BY <2>1, MenuAssumption
        <5> QED
            BY <2>1, <5>1, OneLineMore
      <4> QED
          BY <2>1, <3>1, <4>1, <4>2
    <3>3. pipe' \in Seq(Line)
        BY <1>2, <2>1, <2>2, <3>2, LinesType DEF PrintLine
    <3>4. Len(pipe) < PipeLines /\ Len(pipe') <= PipeLines
      <4>1. Len(pipe) = printed /\ Len(pipe') = printed + 1
          BY <1>2, <2>1, <3>1, <3>2, LinesCut DEF PrintLine
      <4> QED
          BY <1>2, <2>1, <2>4, <4>1, MenuAssumption DEF PrintLine
    <3>5. TypeOK'
        BY <1>2, <2>2, <3>3, <3>4 DEF PrintLine, TypeOK
    <3>6. CaptureInv' /\ CountInv'
        BY <1>2, <2>2, <2>4, <3>2 DEF PrintLine, CaptureInv, Capturing, CountInv, Running
    <3> QED
        BY <3>5, <3>6
  <2> QED
      BY <2>3, <2>4 DEF TypeOK
<1>3. CASE AskAgain
    BY <1>3 DEF AskAgain, TypeOK, Label, CaptureInv, Capturing, Lines, CountInv, Running
<1>4. CASE CommandReturns
    BY <1>4 DEF CommandReturns, TypeOK, Label, CaptureInv, Capturing, Lines, CountInv, Running
<1>5. CASE CapEndNothing
  <2>1. out = "terminal" /\ ends = {} /\ pipe = << >>
      BY <1>5 DEF CapEndNothing, CaptureInv, Capturing, Running
  <2>2. top' = 0 /\ pc' \in {"pager", "message"} /\ (Count' > 0 => top' < Count')
      BY <1>5 DEF CapEndNothing, Show
  <2>3. TypeOK'
      BY <1>5, <2>2 DEF CapEndNothing, TypeOK, Label
  <2>4. CaptureInv' /\ CountInv'
      BY <1>5, <2>1, <2>2 DEF CapEndNothing, CaptureInv, CountInv, Running
  <2> QED
      BY <2>3, <2>4
<1>6. CASE CapEnd
  <2>1. /\ captured = << >> /\ pipe = Lines(run, printed)
        /\ run \in 1..MaxRuns /\ printed \in 0..MaxOutput
      BY <1>6 DEF CapEnd, CaptureInv, Capturing, Running, CountInv, TypeOK
  <2>2. captured' \in Seq(Line) /\ Len(captured') <= MaxLines
    <3>1. captured' \in {<< >>, Lines(run, IF printed < MaxLines THEN printed ELSE MaxLines)}
        BY <1>6, <2>1, DrainedLines DEF CapEnd
    <3>2. PICK m \in 0..MaxOutput : m <= MaxLines /\ captured' = Lines(run, m)
      <4>1. 0 \in 0..MaxOutput /\ 0 <= MaxLines /\ << >> = Lines(run, 0)
          BY NoLines, MenuAssumption
      <4>2. /\ (IF printed < MaxLines THEN printed ELSE MaxLines) \in 0..MaxOutput
            /\ (IF printed < MaxLines THEN printed ELSE MaxLines) <= MaxLines
          BY <2>1, MenuAssumption
      <4> QED
          BY <3>1, <4>1, <4>2
    <3>3. Len(captured') = m
        BY <2>1, <3>2, LinesCut, MenuAssumption
    <3> QED
        BY <2>1, <3>2, <3>3, LinesType
  <2>3. top' = 0 /\ pc' \in {"pager", "message"} /\ (Count' > 0 => top' < Count')
      BY <1>6 DEF CapEnd, Show
  <2>4. /\ out' = "terminal" /\ ~saved' /\ pipe' = << >> /\ ends' = {}
        /\ failed' \subseteq Failures
      BY <1>6 DEF CapEnd, ClosedByEnd, TypeOK
  <2>5. pipe' \in Seq(Line) /\ Len(pipe') <= PipeLines
      BY <2>4, MenuAssumption
  <2>6. TypeOK'
      BY <1>6, <2>2, <2>3, <2>4, <2>5 DEF CapEnd, TypeOK, Label
  <2>7. CaptureInv' /\ CountInv'
      BY <2>3, <2>4 DEF CaptureInv, CountInv, Running
  <2> QED
      BY <2>6, <2>7
<1>7. CASE CapEndClosesTerminal
    BY <1>7 DEF CapEndClosesTerminal, TypeOK, Label, CaptureInv, Capturing, Lines, CountInv, Running
<1> QED
    BY <1>1, <1>2, <1>3, <1>4, <1>5, <1>6, <1>7 DEF Program

(* The invariant is kept by the user's steps and by the program's.         *)
LEMMA InvStep == IInv /\ [Next]_vars => IInv'
<1>1. IInv /\ UNCHANGED vars => IInv'
    BY DEF IInv, vars, capture, pager, TypeOK, Count, CaptureInv, Capturing, Lines, CountInv
<1> QED
    BY <1>1, UserStep, ProgramStep DEF Next

-----------------------------------------------------------------------------
(* It holds in every reachable state.                                      *)
LEMMA Invariant == Spec => []IInv
    BY InitInv, InvStep, PTL DEF Spec

(* Type correctness; in particular the pipe and the buffer never hold more *)
(* than they can, and the pager's first line is a line of the buffer.      *)
THEOREM TypeCorrect == Spec => []TypeOK
<1>1. IInv => TypeOK
    BY DEF IInv
<1> QED
    BY <1>1, Invariant, PTL

(* Between commands stdout is the terminal, nothing is saved and the pipe  *)
(* is closed; only a failing fdopen of the write end costs the terminal.   *)
THEOREM TerminalComesBack == Spec => []TerminalKept
<1>1. IInv => TerminalKept
    BY DEF IInv, CaptureInv, TerminalKept, Running
<1> QED
    BY <1>1, Invariant, PTL

(* The buffer changes only when a capture ends, and takes its lines.       *)
LEMMA ShownStep == IInv /\ ShownIsPrinted /\ [Next]_vars => ShownIsPrinted'
<1> SUFFICES ASSUME IInv, ShownIsPrinted, [Next]_vars, pc' = "pager"
             PROVE  ShownIsPrinted'
    BY DEF ShownIsPrinted
<1> DEFINE most == IF printed < MaxLines THEN printed ELSE MaxLines
<1>1. CASE Scroll \/ Resize \/ UNCHANGED vars
    BY <1>1 DEF Scroll, Resize, vars, capture, ShownIsPrinted
<1>2. CASE CapEndNothing
  <2>1. captured = << >> /\ failed = {"pipe"}
      BY <1>2 DEF CapEndNothing, IInv, CaptureInv, Capturing, Running
  <2> QED
      BY <1>2, <2>1 DEF CapEndNothing, capture, ShownIsPrinted
<1>3. CASE CapEnd
  <2>1. captured = << >> /\ failed = {} /\ pipe = Lines(run, printed)
      BY <1>3 DEF CapEnd, IInv, CaptureInv, Capturing, Running
  <2>2. Drained = Lines(run, most)
      BY <2>1, DrainedLines DEF IInv
  <2>3. \/ captured' = Lines(run, most) /\ failed' = {}
        \/ captured' = << >> /\ failed' # {}
      BY <1>3, <2>1, <2>2 DEF CapEnd
  <2> QED
      BY <1>3, <2>3 DEF CapEnd, ShownIsPrinted, Lines
<1>4. /\ ~(\E m \in Submenu : EnterSubmenu(m)) /\ ~(\E c \in Command : Pick(c))
      /\ ~Leave /\ ~Cancel /\ ~Answer /\ ~AnswerOther /\ ~TypeLine /\ ~ClosePager
    BY DEF EnterSubmenu, Pick, Leave, Cancel, Answer, AnswerOther, TypeLine, ClosePager
<1>5. /\ ~CapBegin /\ ~PrintLine /\ ~AskAgain /\ ~CommandReturns /\ ~CapEndClosesTerminal
    BY DEF CapBegin, PrintLine, AskAgain, CommandReturns, CapEndClosesTerminal
<1> QED
    BY <1>1, <1>2, <1>3, <1>4, <1>5 DEF Next, User, Program

(* The pager shows the lines of the command just run, in order, and, when  *)
(* no call of the capture failed, as many as the buffer can hold.          *)
THEOREM PagerShowsPrinted == Spec => []ShownIsPrinted
<1>1. Init => ShownIsPrinted
    BY DEF Init, ShownIsPrinted
<1> QED
    BY <1>1, Invariant, ShownStep, PTL DEF Spec
=============================================================================

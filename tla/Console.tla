------------------------------ MODULE Console ------------------------------
(***************************************************************************)
(* The console: the shell's line editor (shell/shell.cpp), the text screen *)
(* (drivers/vga.cpp) it echoes on through descriptor 1, the spinner task   *)
(* and user programs that write to the same screen, and the ring of the    *)
(* keyboard driver (module Keyboard) that all of them read.                *)
(*                                                                         *)
(* A system call is one step.  The shell runs with IF = 1 between its      *)
(* calls, so keys and the output of other tasks come in between.  The      *)
(* commands heap and ps print without a system call, with IF = 1 within    *)
(* print_char too.                                                         *)
(***************************************************************************)
EXTENDS Keyboard, Integers, SequencesExt

CONSTANTS
  Width, Height,  \* VGA_WIDTH (80), VGA_HEIGHT (25)
  LineMax,        \* characters input_buffer takes (255)
  Cwd, Sign,      \* what print_prompt prints: the path and "$ "
  Outputs,        \* what a command or a user program may print in one call
  Dumped,         \* the characters heap_dump and task_dump print
  Wheel,          \* the spinner's characters
  Glyphs          \* all characters

Cells == 0..(Width * Height - 1)
Corner == Width - 1       \* the cell the spinner task draws in
Blank == " "
Enter == "enter"          \* '\n'
Back == "back"            \* '\b'
Clear == "clear"          \* '\f', which no key gives
Chars == KeyChars         \* what the keyboard gives, Enter and Back among them

ASSUME ConsoleAssumption ==
  /\ Width \in Nat \ {0} /\ Height \in Nat /\ Height >= 2
  /\ LineMax \in Nat /\ 1 \in Counts
  /\ {Enter, Back} \subseteq Chars /\ Clear \notin Chars
  /\ Chars \cup Wheel \cup {Blank, Clear} \subseteq Glyphs
  /\ Dumped \subseteq Glyphs \ {Back, Clear} /\ Outputs \subseteq Seq(Glyphs)
  /\ {Cwd, Sign} \subseteq Seq(Glyphs \ {Enter, Back, Clear})

VARIABLES
  vga,           \* [mem, pos]: VIDEO_MEMORY and cursor_pos
  input_buffer,  \* its first input_buffer_len characters
  pc,            \* where the shell is: "cwd", "sign", "poll", "key", "run", "test"
  key,           \* the character the shell has read
  alone,         \* history: nobody else has printed since the prompt
  taken          \* history: a program has read an Enter key

shellVars == <<vga, input_buffer, pc, key, alone, taken>>
vars == <<keyboardVars, shellVars>>

-----------------------------------------------------------------------------
(* drivers/vga.cpp *)

ClearScreen == [mem |-> [i \in Cells |-> Blank], pos |-> 0]

ScrollScreen(v) ==
  [mem |-> [i \in Cells |-> IF i + Width \in Cells THEN v.mem[i + Width] ELSE Blank],
   pos |-> Width * (Height - 1)]

\* print_char up to its test: a cell after the last one is memory that is not displayed.
Put(v, c) ==
  CASE c = Enter -> [v EXCEPT !.pos = (@ \div Width + 1) * Width]
    [] c = Back -> IF v.pos = 0 THEN v
                   ELSE [mem |-> [v.mem EXCEPT ![v.pos - 1] = Blank], pos |-> v.pos - 1]
    [] c = Clear -> ClearScreen
    [] OTHER -> [mem |-> [v.mem EXCEPT ![v.pos] = c], pos |-> v.pos + 1]

\* The test whether the cursor has left the screen.
Scrolled(v) == IF v.pos >= Width * Height THEN ScrollScreen(v) ELSE v

\* print_char
PrintChar(v, c) == Scrolled(Put(v, c))

\* SYS_WRITE on descriptor 1 or 2: stdout_write, stderr_write.
Printed(s) ==
  LET v[k \in 0..Len(s)] == IF k = 0 THEN vga ELSE PrintChar(v[k - 1], s[k])
  IN v[Len(s)]

-----------------------------------------------------------------------------
(* shell_main and shell_handle_key *)

Init ==
  /\ KeyboardInit
  /\ vga = ClearScreen
  /\ input_buffer = <<>> /\ pc = "cwd" /\ key = Enter
  /\ alone = TRUE /\ taken = FALSE

\* A read of descriptor 0 that finds a character; without one the shell sleeps and polls
\* again.
Poll ==
  /\ pc = "poll" /\ Pending > 0
  /\ StdinRead(1)
  /\ key' = Waiting(1) /\ pc' = "key"
  /\ UNCHANGED <<vga, input_buffer, alone, taken>>

\* The line is ended on the screen and given to execute_command.
HandleEnter ==
  /\ pc = "key" /\ key = Enter
  /\ vga' = Printed(<<Enter>>)
  /\ pc' = "run"
  /\ UNCHANGED <<keyboardVars, input_buffer, key, alone, taken>>

\* Mutant of HandleBackspace: an empty line is not noticed.
HandleBackspaceAlways ==
  /\ pc = "key" /\ key = Back
  /\ input_buffer' = IF input_buffer # <<>> THEN Front(input_buffer) ELSE <<>>
  /\ vga' = Printed(<<Back>>)
  /\ pc' = "poll"
  /\ UNCHANGED <<keyboardVars, key, alone, taken>>

HandleBackspace ==
  /\ pc = "key" /\ key = Back
  /\ IF input_buffer # <<>>
     THEN input_buffer' = Front(input_buffer) /\ vga' = Printed(<<Back>>)
     ELSE UNCHANGED <<input_buffer, vga>>
  /\ pc' = "poll"
  /\ UNCHANGED <<keyboardVars, key, alone, taken>>

\* Mutant of HandleChar: a character waits until the line has room.
HandleCharWaits ==
  /\ pc = "key" /\ key \notin {Enter, Back} /\ Len(input_buffer) < LineMax
  /\ input_buffer' = Append(input_buffer, key) /\ vga' = Printed(<<key>>)
  /\ pc' = "poll"
  /\ UNCHANGED <<keyboardVars, key, alone, taken>>

HandleChar ==
  /\ pc = "key" /\ key \notin {Enter, Back}
  /\ IF Len(input_buffer) < LineMax
     THEN input_buffer' = Append(input_buffer, key) /\ vga' = Printed(<<key>>)
     ELSE UNCHANGED <<input_buffer, vga>>
  /\ pc' = "poll"
  /\ UNCHANGED <<keyboardVars, key, alone, taken>>

\* execute_command: what it prints, and in how many calls, depends on the command.
CommandPrints(out) ==
  /\ pc = "run"
  /\ vga' = Printed(out)
  /\ UNCHANGED <<keyboardVars, input_buffer, pc, key, alone, taken>>

\* heap_dump and task_dump, which the commands heap and ps call, print with IF = 1: another
\* task's call may come between a character and the test for the end of the screen.
DumpPuts(c) ==
  /\ pc = "run"
  /\ vga' = Put(vga, c)
  /\ pc' = "test"
  /\ UNCHANGED <<keyboardVars, input_buffer, key, alone, taken>>

DumpTests ==
  /\ pc = "test"
  /\ vga' = Scrolled(vga)
  /\ pc' = "run"
  /\ UNCHANGED <<keyboardVars, input_buffer, key, alone, taken>>

\* It returns and the line is emptied.
CommandReturns ==
  /\ pc = "run"
  /\ input_buffer' = <<>> /\ pc' = "cwd"
  /\ UNCHANGED <<keyboardVars, vga, key, alone, taken>>

\* print_prompt: the working directory in one call, "$ " in another.
PromptCwd ==
  /\ pc = "cwd"
  /\ vga' = Printed(Cwd)
  /\ pc' = "sign" /\ alone' = TRUE
  /\ UNCHANGED <<keyboardVars, input_buffer, key, taken>>

PromptSign ==
  /\ pc = "sign"
  /\ vga' = Printed(Sign)
  /\ pc' = "poll"
  /\ UNCHANGED <<keyboardVars, input_buffer, key, alone, taken>>

-----------------------------------------------------------------------------
(* Everybody else *)

KeyPress(s) == KeyboardIRQ(s) /\ UNCHANGED shellVars

\* A user program writes to its descriptor 1.
ProgramWrites(out) ==
  /\ vga' = Printed(out)
  /\ alone' = FALSE
  /\ UNCHANGED <<keyboardVars, input_buffer, pc, key, taken>>

\* A user program reads its descriptor 0: the same keyboard.
ProgramReads(count) ==
  /\ StdinRead(count)
  /\ taken' = (taken \/ \E i \in DOMAIN read' : read'[i] = Enter)
  /\ UNCHANGED <<vga, input_buffer, pc, key, alone>>

\* The spinner task writes to video memory itself.
Spin(c) ==
  /\ vga' = [vga EXCEPT !.mem[Corner] = c]
  /\ UNCHANGED <<keyboardVars, input_buffer, pc, key, alone, taken>>

Shell == Poll \/ HandleEnter \/ HandleBackspace \/ HandleChar \/ PromptCwd
         \/ PromptSign \/ CommandReturns \/ DumpTests

Next ==
  \/ Shell
  \/ \E out \in Outputs : CommandPrints(out)
  \/ \E c \in Dumped : DumpPuts(c)
  \/ \E s \in Scancodes : KeyPress(s)
  \/ \E out \in Outputs : ProgramWrites(out)
  \/ \E count \in Counts : ProgramReads(count)
  \/ \E c \in Wheel : Spin(c)

\* The shell is scheduled round robin, never waits for anything but a key, and its commands
\* return.
Spec == Init /\ [][Next]_vars /\ WF_vars(Shell) /\ SF_vars(CommandReturns)

-----------------------------------------------------------------------------
(* Properties *)

\* The cursor is always on the screen, where the next character will be written, or one cell
\* behind it when heap or ps is about to test it, whoever prints in between; and the line
\* fits its buffer with the terminating 0.
TypeOK ==
  /\ vga.pos \in Cells \/ (pc = "test" /\ vga.pos = Width * Height)
  /\ DOMAIN vga.mem = Cells
  /\ input_buffer \in Seq(Chars \ {Enter, Back}) /\ Len(input_buffer) <= LineMax
  /\ pc \in {"cwd", "sign", "poll", "key", "run", "test"} /\ key \in Chars
  /\ alone \in BOOLEAN /\ taken \in BOOLEAN

\* What the user sees is what Enter will run: through wrapping, scrolling, backspaces over
\* the edge of a row and a full buffer, the characters before the cursor are the prompt
\* and the line (a part may have scrolled off, and the spinner has its corner), as long
\* as no program prints into the line.
ScreenShowsLine ==
  LET shown == Cwd \o Sign \o input_buffer
  IN /\ TypeOK
     /\ alone /\ pc \in {"poll", "key"} =>
          \A k \in 1..Len(shown) :
            LET cell == vga.pos - Len(shown) + k - 1
            IN cell < 0 \/ cell = Corner \/ vga.mem[cell] = shown[k]

\* A line ended with Enter is run, however many keys follow it, unless a program reads the
\* Enter first.
EnterRuns == (\E i \in 1..Pending : Waiting(i) = Enter) ~> (pc = "run" \/ taken)
=============================================================================

------------------------------ MODULE Keyboard ------------------------------
(***************************************************************************)
(* The keyboard driver, drivers/keyboard.cpp, and its reader stdin_read of *)
(* fs/file.cpp: a ring of N characters written by IRQ 1 and read by        *)
(* SYS_READ on descriptor 0.  Both sides are entered through gates that    *)
(* clear IF, so each runs as one step.                                     *)
(***************************************************************************)
EXTENDS Naturals, Sequences

CONSTANTS
  N,          \* size of keyboard_buffer (128)
  Scancodes,  \* what port 0x60 may deliver
  Released,   \* scancodes with bit 7 set
  kbd_us,     \* the scancode table
  NoChar,     \* its entry 0 for keys without a character
  Counts      \* the counts SYS_READ is called with

KeyChars == {kbd_us[s] : s \in Scancodes} \ {NoChar}

ASSUME KeyboardAssumption ==
  /\ N \in Nat /\ N > 1
  /\ Released \subseteq Scancodes
  /\ Counts \subseteq Nat

VARIABLES keyboard_buffer, keyboard_head, keyboard_tail,
          read        \* what the last stdin_read returned

keyboardVars == <<keyboard_buffer, keyboard_head, keyboard_tail, read>>

KeyboardInit ==
  /\ keyboard_buffer = [i \in 0..(N - 1) |-> NoChar]
  /\ keyboard_head = 0 /\ keyboard_tail = 0
  /\ read = <<>>

\* Mutant of Enqueue: a full ring is not detected.
EnqueueUnchecked(c) ==
  /\ keyboard_buffer' = [keyboard_buffer EXCEPT ![keyboard_head] = c]
  /\ keyboard_head' = (keyboard_head + 1) % N
  /\ UNCHANGED <<keyboard_tail, read>>

\* enqueue_key: when the ring is full the key is dropped.
Enqueue(c) ==
  LET next_head == (keyboard_head + 1) % N
  IN /\ next_head # keyboard_tail
     /\ keyboard_buffer' = [keyboard_buffer EXCEPT ![keyboard_head] = c]
     /\ keyboard_head' = next_head
     /\ UNCHANGED <<keyboard_tail, read>>

\* handle_keyboard_input: releases and keys without a character are ignored.
KeyboardIRQ(s) ==
  /\ s \notin Released
  /\ kbd_us[s] # NoChar
  /\ Enqueue(kbd_us[s])

\* How many characters wait, and the i-th of them.
Pending ==
  IF keyboard_tail <= keyboard_head THEN keyboard_head - keyboard_tail
                                    ELSE N - keyboard_tail + keyboard_head
Waiting(i) ==
  keyboard_buffer[IF keyboard_tail + i - 1 < N THEN keyboard_tail + i - 1
                                               ELSE keyboard_tail + i - 1 - N]

\* The characters between tail and head.
Unread == [i \in 1..Pending |-> Waiting(i)]

\* Mutant of StdinRead: the loop stops one character short.
StdinReadShort(count) ==
  LET k == IF count <= Pending THEN count - 1 ELSE Pending
  IN /\ read' = [i \in 1..k |-> Waiting(i)]
     /\ keyboard_tail' = (keyboard_tail + k) % N
     /\ UNCHANGED <<keyboard_buffer, keyboard_head>>

\* stdin_read(count): dequeue_key until count characters or an empty ring.
StdinRead(count) ==
  LET k == IF count < Pending THEN count ELSE Pending
  IN /\ read' = [i \in 1..k |-> Waiting(i)]
     /\ keyboard_tail' = (keyboard_tail + k) % N
     /\ UNCHANGED <<keyboard_buffer, keyboard_head>>

KeyboardNext ==
  \/ \E s \in Scancodes : KeyboardIRQ(s)
  \/ \E count \in Counts : StdinRead(count)

KeyboardSpec == KeyboardInit /\ [][KeyboardNext]_keyboardVars

-----------------------------------------------------------------------------
(* Properties. *)

KeyboardTypeOK ==
  /\ keyboard_buffer \in [0..(N - 1) -> KeyChars \cup {NoChar}]
  /\ keyboard_head \in 0..(N - 1) /\ keyboard_tail \in 0..(N - 1)
  /\ read \in Seq(KeyChars \cup {NoChar})

\* Index arithmetic on the ring never turns a full ring into an empty one,
\* returns a stale cell or skips one: the driver is a bounded FIFO queue of
\* N - 1 characters.
Q == INSTANCE KeyQueue WITH Chars <- KeyChars, Capacity <- N - 1, queue <- Unread, got <- read
IsQueue == Q!Spec

\* A typed character is read even if keys keep arriving: the shell comes back to its poll
\* of descriptor 0 (shell_main).
TypedIsRead ==
  \A i \in 0..(N - 1) :
    keyboard_tail = i /\ keyboard_head # i ~> keyboard_tail # i
=============================================================================

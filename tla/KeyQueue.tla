------------------------------ MODULE KeyQueue ------------------------------
(***************************************************************************)
(* What the keyboard driver promises its readers: a bounded first-in       *)
(* first-out queue of characters.  A key pressed while the queue is full   *)
(* is lost; nothing else is lost, repeated or reordered.                   *)
(***************************************************************************)
EXTENDS Naturals, Sequences

CONSTANTS Chars, Capacity

VARIABLES
  queue,   \* characters typed and not yet read
  got      \* what the last read returned

vars == <<queue, got>>

Init == queue = <<>> /\ got = <<>>

Press(c) ==
  /\ Len(queue) < Capacity
  /\ queue' = Append(queue, c)
  /\ UNCHANGED got

\* A read takes the k oldest characters.
Take(k) ==
  /\ got' = SubSeq(queue, 1, k)
  /\ queue' = SubSeq(queue, k + 1, Len(queue))

Next == (\E c \in Chars : Press(c)) \/ (\E k \in 0..Len(queue) : Take(k))

Spec == Init /\ [][Next]_vars
=============================================================================

----------------------------- MODULE MCConsole -----------------------------
(* A screen of two rows of three cells, a line of three characters, a ring of *)
(* three cells; three keys with characters, one without, and a release.      *)
EXTENDS Console

Table ==
  [s \in Scancodes |-> CASE s \in {"X", "RelX"} -> "x" [] s = "Enter" -> Enter
                         [] s = "Back" -> Back [] OTHER -> NoChar]
Slash == <<"/">>
Dollar == <<"$">>
Texts == {<<"/">>, <<Clear>>}

\* What a later step can still read: not what a read has returned, nor the
\* cells of the ring that have been read.
LiveState == <<Unread, keyboard_tail, shellVars>>
=============================================================================

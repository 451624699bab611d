------------------------------ MODULE MCFiles ------------------------------
(* Instances of Files for TLC: names of one byte and of three, one with a "/" in it and *)
(* one that is too long; words that are too long for a name and for the token.          *)
EXTENDS Files

Lengths ==
  [n \in Names \cup Words |-> CASE n = "a" -> 1 [] n = "lengthy" -> 4 [] n = "overlong" -> 5 [] OTHER -> 3]
Roads ==
  { <<"/">>, <<"a">>, <<"/", "a", "/", "bcd">>, <<"..">>, <<"a", "/", "/", ".", "/", "a">>,
    <<"..", "/", "bcd", "/">>, <<"a", "/", "overlong">>, <<"lengthy">>,
    <<"a", "/", "a">> }
OpenRoads == {<<"a">>, <<"/", "a", "/", "bcd">>, <<"lengthy">>}

\* After an overrun nothing happens, and the step that makes it changes nothing else.
LiveState == IF overrun THEN <<>> ELSE <<ent, size, files, fd, cwd>>
=============================================================================

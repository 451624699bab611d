------------------------------ MODULE MCSimpleFS ------------------------------
(* Instances of SimpleFS for TLC. *)
EXTENDS SimpleFS, TLC

\* No operation tells two names apart.
NameSymmetry == Permutations(Names)

\* A table that was never written, and one with leftovers of something else.
MCRaw == {ZeroInode, [ZeroInode EXCEPT !.used = TRUE, !.blocks[0] = 1]}
===============================================================================

------------------------------- MODULE MCPMM -------------------------------
(* Instances of PMM for TLC: 12 pages of 2 units, bitmap words of 4 pages. *)
EXTENDS PMM

Entry(base, len, avail) == [base |-> base, len |-> len, avail |-> avail]

\* Low memory, a ROM hole, 14 units above LowEnd, a reserved end, and a region
\* above 4 GB (24 units) whose low half names the pages below again,
\* the reserved end included.
AliasedBoot ==
  [mem |-> TRUE, upper |-> 14,
   map |-> <<Entry(0, 3, TRUE), Entry(3, 1, FALSE), Entry(4, 14, TRUE),
             Entry(18, 6, FALSE), Entry(24, 20, TRUE)>>]

\* Memory that ends inside a bitmap word and inside a page; entries overlap.
RaggedBoot ==
  [mem |-> TRUE, upper |-> 15, map |-> <<Entry(4, 9, TRUE), Entry(9, 10, TRUE)>>]

\* A loader that reports nothing.
SilentBoot == [mem |-> FALSE, upper |-> 0, map |-> <<>>]

AllBoots == {AliasedBoot, RaggedBoot, SilentBoot}
=============================================================================

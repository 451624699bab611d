-------------------------------- MODULE MCHeap --------------------------------
(* Instances of Heap for TLC: pages of 12 units, headers of 4.               *)
EXTENDS Heap
===============================================================================

-------------------------------- MODULE Heap --------------------------------
(***************************************************************************)
(* The kernel heap, mm/heap.cpp: a doubly linked list of block headers     *)
(* inside the memory it manages, first fit, splitting, growth by one page  *)
(* and merging on kfree.                                                   *)
(*                                                                         *)
(* A walk of the list takes one step per block.  A client that comes from  *)
(* a system call runs with IF = 0; the shell calls kmalloc with IF = 1,    *)
(* and a client in Interruptible can lose the processor between two steps. *)
(***************************************************************************)
EXTENDS Integers, FiniteSets

CONSTANTS
  Hdr,            \* sizeof(block_header) (16)
  Align,          \* 4
  PageSize,
  HeapStart, HeapMax,
  WordMod,        \* 2^32, the width of a size
  Clients,        \* callers of the allocator
  Requests,       \* sizes they ask for
  Interruptible   \* the clients another client can interrupt in the middle

NULL == 0
Addrs == HeapStart..(HeapMax - 1)

ASSUME HeapAssumption ==
  /\ Hdr \in Nat \ {0} /\ Align \in Nat \ {0} /\ PageSize \in Nat
  /\ Hdr % Align = 0 /\ PageSize % Align = 0 /\ Hdr + Align <= PageSize
  /\ HeapStart \in Nat \ {0} /\ HeapMax \in Nat /\ HeapStart + PageSize <= HeapMax
  /\ HeapMax <= WordMod /\ WordMod \in Nat
  /\ Requests \subseteq 0..(WordMod - 1)
  /\ Interruptible \subseteq Clients

VARIABLES
  hdr,                \* the headers in the heap, by address
  heap_current_end,
  op,                 \* the kmalloc call each client is in
  held                \* history: what each client has, as <<pointer, size>>

vars == <<hdr, heap_current_end, op, held>>

heap_head == HeapStart
Header(size, free, next, prev) == [size |-> size, free |-> free, next |-> next, prev |-> prev]
Idle == [pc |-> "idle", size |-> 0, block |-> NULL, prev |-> NULL]

\* init_heap: HEAP_INITIAL_SIZE is one page.
Init ==
  /\ hdr = [b \in {HeapStart} |-> Header(PageSize - Hdr, TRUE, NULL, NULL)]
  /\ heap_current_end = HeapStart + PageSize
  /\ op = [c \in Clients |-> Idle]
  /\ held = [c \in Clients |-> {}]

\* hdr with the headers of f added or replaced.
With(f) == [b \in DOMAIN hdr \cup DOMAIN f |-> IF b \in DOMAIN f THEN f[b] ELSE hdr[b]]

MayStep(c) == \A d \in Clients \ Interruptible : d # c => op[d] = Idle

-----------------------------------------------------------------------------
(* kmalloc *)

\* size rounded up to a multiple of Align.
Aligned(size) == (((size + Align - 1) % WordMod) \div Align) * Align

\* kmalloc(0) returns at once and changes nothing.
Kmalloc(c, size) ==
  /\ op[c] = Idle /\ MayStep(c) /\ size # 0
  /\ op' = [op EXCEPT ![c] = [pc |-> "walk", size |-> size, block |-> heap_head, prev |-> NULL]]
  /\ UNCHANGED <<hdr, heap_current_end, held>>

Walking(c) == op[c].pc = "walk" /\ MayStep(c)

\* Mutant of Fits: the block's state is not tested.
FitsUsed(c) == hdr[op[c].block].size >= Aligned(op[c].size)

Fits(c) ==
  LET h == hdr[op[c].block] IN h.free /\ h.size >= Aligned(op[c].size)

\* Mutant of WalkNext: only prev_block moves.
WalkNextStuck(c) ==
  /\ Walking(c) /\ op[c].block # NULL /\ ~Fits(c)
  /\ op' = [op EXCEPT ![c].prev = op[c].block]
  /\ UNCHANGED <<hdr, heap_current_end, held>>

WalkNext(c) ==
  /\ Walking(c) /\ op[c].block # NULL /\ ~Fits(c)
  /\ op' = [op EXCEPT ![c].prev = op[c].block, ![c].block = hdr[op[c].block].next]
  /\ UNCHANGED <<hdr, heap_current_end, held>>

WalkFound(c) ==
  /\ Walking(c) /\ op[c].block # NULL /\ Fits(c)
  /\ op' = [op EXCEPT ![c].pc = "take"]
  /\ UNCHANGED <<hdr, heap_current_end, held>>

\* Mutant of Split: the block after the two keeps its old prev.
SplitKeepsPrev(b, size) ==
  LET n == b + size + Hdr
      rest == Header(hdr[b].size - size - Hdr, TRUE, hdr[b].next, b)
  IN With([a \in {b, n} |-> IF a = n THEN rest ELSE Header(size, FALSE, n, hdr[b].prev)])

\* The headers once block b has been cut to size and taken.
Split(b, size) ==
  LET n == b + size + Hdr
      rest == Header(hdr[b].size - size - Hdr, TRUE, hdr[b].next, b)
      after == {hdr[b].next} \ {NULL}
  IN With([a \in {b, n} \cup after |->
             CASE a = n -> rest
               [] a = b -> Header(size, FALSE, n, hdr[b].prev)
               [] OTHER -> [hdr[a] EXCEPT !.prev = n]])

Take(c) ==
  LET b == op[c].block
      size == Aligned(op[c].size)
  IN /\ op[c].pc = "take" /\ MayStep(c)
     /\ hdr' = IF (hdr[b].size - size) % WordMod >= Hdr + Align THEN Split(b, size)
               ELSE [hdr EXCEPT ![b].free = FALSE]
     /\ held' = [held EXCEPT ![c] = @ \cup {<<b + Hdr, op[c].size>>}]
     /\ op' = [op EXCEPT ![c] = Idle]
     /\ UNCHANGED heap_current_end

\* HEAP_MAX_ADDR leaves no room for a page.
AtLimit == heap_current_end + PageSize > HeapMax

\* A mapped page is added to the last block, or becomes a block of its own.
Grown(last) ==
  IF hdr[last].free THEN [hdr EXCEPT ![last].size = @ + PageSize]
  ELSE With([a \in {last, heap_current_end} |->
               IF a = last THEN [hdr[a] EXCEPT !.next = heap_current_end]
               ELSE Header(PageSize - Hdr, TRUE, NULL, last)])

\* pmm_alloc_page has a page: the heap grows and kmalloc starts over.
Grow(c) ==
  /\ Walking(c) /\ op[c].block = NULL /\ ~AtLimit
  /\ hdr' = Grown(op[c].prev)
  /\ heap_current_end' = heap_current_end + PageSize
  /\ op' = [op EXCEPT ![c].block = heap_head, ![c].prev = NULL]
  /\ UNCHANGED held

\* kmalloc returns 0: the heap is at its limit, or (at any moment) RAM is out.
GrowFail(c) ==
  /\ Walking(c) /\ op[c].block = NULL
  /\ op' = [op EXCEPT ![c] = Idle]
  /\ UNCHANGED <<hdr, heap_current_end, held>>

-----------------------------------------------------------------------------
(* kfree *)

\* The headers f once block b has swallowed a free successor.
JoinNext(f, b) ==
  LET n == f[b].next
  IN IF n = NULL \/ ~f[n].free THEN f
     ELSE [a \in DOMAIN f \ {n} |->
             CASE a = b -> Header(f[b].size + f[n].size + Hdr, f[b].free, f[n].next, f[b].prev)
               [] a = f[n].next -> [f[a] EXCEPT !.prev = b]
               [] OTHER -> f[a]]

\* Mutant of JoinPrev: blocks are only merged forwards.
JoinPrevNot(f, b) == f

\* The headers f once a free predecessor has swallowed block b.
JoinPrev(f, b) ==
  LET p == f[b].prev
  IN IF p = NULL \/ ~f[p].free THEN f ELSE JoinNext(f, p)

\* A client frees what it holds, once.
Kfree(c, h) ==
  LET b == h[1] - Hdr
  IN /\ op[c] = Idle /\ MayStep(c)
     /\ hdr' = JoinPrev(JoinNext([hdr EXCEPT ![b].free = TRUE], b), b)
     /\ held' = [held EXCEPT ![c] = @ \ {h}]
     /\ UNCHANGED <<heap_current_end, op>>

-----------------------------------------------------------------------------

KmallocStep(c) == WalkNext(c) \/ WalkFound(c) \/ Take(c) \/ Grow(c) \/ GrowFail(c)

Next ==
  \E c \in Clients :
    \/ \E size \in Requests : Kmalloc(c, size)
    \/ KmallocStep(c)
    \/ \E h \in held[c] : Kfree(c, h)

\* A call that is never descheduled, or only for a while, goes on.
Fairness == \A c \in Clients : WF_vars(KmallocStep(c))

Spec == Init /\ [][Next]_vars /\ Fairness

-----------------------------------------------------------------------------
(* Properties. *)

HeaderType == [size : 0..(HeapMax - HeapStart), free : BOOLEAN,
               next : {NULL} \cup Addrs, prev : {NULL} \cup Addrs]

TypeOK ==
  /\ DOMAIN hdr \subseteq Addrs /\ hdr \in [DOMAIN hdr -> HeaderType]
  /\ heap_current_end \in HeapStart..HeapMax
  /\ op \in [Clients -> [pc : {"idle", "walk", "take"}, size : 0..(WordMod - 1),
                         block : {NULL} \cup DOMAIN hdr, prev : {NULL} \cup DOMAIN hdr]]
  /\ held \in [Clients -> SUBSET (Addrs \X (0..(WordMod - 1)))]

\* The list is the heap: every block ends where the next one starts, the last
\* one ends at heap_current_end, and prev is the way back.  kfree finds its
\* neighbours by these pointers alone.
ListIsHeap ==
  /\ TypeOK
  /\ heap_head \in DOMAIN hdr /\ hdr[heap_head].prev = NULL
  /\ \A b \in DOMAIN hdr :
       LET end == b + Hdr + hdr[b].size
       IN IF hdr[b].next = NULL THEN end = heap_current_end
          ELSE /\ hdr[b].next = end /\ end \in DOMAIN hdr
               /\ hdr[end].prev = b

\* Free memory is never in two adjacent pieces: a request that the free bytes
\* side by side could satisfy is never refused.
Coalesced ==
  \A b \in DOMAIN hdr : hdr[b].free /\ hdr[b].next # NULL => ~hdr[hdr[b].next].free

\* What a client holds is a block marked used, all of the size it asked for,
\* and nobody else's.
HeldIntact ==
  \A c \in Clients : \A h \in held[c] :
    /\ h[1] - Hdr \in DOMAIN hdr
    /\ ~hdr[h[1] - Hdr].free /\ hdr[h[1] - Hdr].size >= h[2]
    /\ \A d \in Clients : \A g \in held[d] : <<d, g>> # <<c, h>> => g[1] # h[1]

\* kmalloc, which calls itself after every page it adds, always returns.
KmallocReturns == \A c \in Clients : op[c] # Idle ~> op[c] = Idle
=============================================================================

----------------------------- MODULE HeapProofs -----------------------------
(***************************************************************************)
(* Proofs about Heap, for every heap size, page size, header size and set  *)
(* of requests, when no call of kmalloc is interrupted.                    *)
(***************************************************************************)
EXTENDS Heap, TLAPS

\* The headers f are a list that tiles the heap up to address e: ListIsHeap, what makes
\* it inductive (headers do not overlap, none ends behind e) and the way back.
Chain(f, e) ==
  /\ DOMAIN f \subseteq Addrs /\ f \in [DOMAIN f -> HeaderType]
  /\ HeapStart \in DOMAIN f /\ f[HeapStart].prev = NULL
  /\ \A b \in DOMAIN f : b + Hdr < e /\ b + Hdr + f[b].size <= e
  /\ \A a, b \in DOMAIN f : a < b => a + Hdr + f[a].size <= b
  /\ \A b \in DOMAIN f :
       IF f[b].next = NULL THEN b + Hdr + f[b].size = e
       ELSE /\ f[b].next = b + Hdr + f[b].size /\ f[b].next \in DOMAIN f
            /\ f[f[b].next].prev = b
  /\ \A b \in DOMAIN f \ {HeapStart} :
       f[b].prev # NULL /\ f[b].prev \in DOMAIN f /\ f[f[b].prev].next = b

\* Two free neighbours in f are a and its successor.
Adjacent(f, a) == f[a].free /\ f[a].next # NULL /\ f[f[a].next].free

\* What merging block b of the headers f with its free successor n gives.
Joined(f, g, b, n, e) ==
  /\ Chain(g, e) /\ n \in DOMAIN f /\ n # b /\ DOMAIN g = DOMAIN f \ {n}
  /\ g[b].free = f[b].free /\ g[b].next = f[n].next
  /\ \A a \in DOMAIN f \ {b, n} :
       /\ g[a].free = f[a].free /\ g[a].size = f[a].size
       /\ g[a].next = f[a].next /\ g[a].next # n

\* What cutting block b to size gives; n is the rest.
Cut(g, b, size, n, e) ==
  /\ Chain(g, e) /\ n \notin DOMAIN hdr /\ n # NULL /\ DOMAIN g = DOMAIN hdr \cup {n}
  /\ g[b].size = size /\ ~g[b].free /\ g[b].next = n
  /\ g[n].free /\ g[n].next = hdr[b].next
  /\ \A a \in DOMAIN hdr \ {b} :
       g[a].free = hdr[a].free /\ g[a].size = hdr[a].size /\ g[a].next = hdr[a].next

\* In k, unlike in g, no two free blocks are neighbours; b is free, the others are as in g.
Freed(g, k, b, e) ==
  /\ Chain(k, e) /\ \A a \in DOMAIN k : ~Adjacent(k, a)
  /\ \A a \in DOMAIN g \ {b} : ~g[a].free => a \in DOMAIN k /\ ~k[a].free /\ k[a].size = g[a].size

\* What clients hold are blocks in use, each held once.
HeldBlocks ==
  \A c \in Clients : \A h \in held[c] :
    /\ h[1] - Hdr \in DOMAIN hdr /\ ~hdr[h[1] - Hdr].free
    /\ \A d \in Clients : \A g \in held[d] : <<d, g>> # <<c, h>> => g[1] # h[1]

\* A walk that has come to the end has the last block behind it; a block that is about
\* to be taken still fits; and only one call is in progress.
Calls ==
  \A c \in Clients :
    /\ op[c] # Idle => \A d \in Clients : d # c => op[d] = Idle
    /\ op[c].pc = "idle" => op[c] = Idle
    /\ op[c].pc = "walk" /\ op[c].block = NULL => op[c].prev # NULL /\ hdr[op[c].prev].next = NULL
    /\ op[c].pc = "take" => op[c].block # NULL /\ Fits(c)

\* The inductive invariant: the list covers the heap without gap, overlap or two free
\* neighbours, every pointer handed out is a block in use, and a call in progress holds a
\* block of the list that is still what its walk saw.
HeapInv == TypeOK /\ Chain(hdr, heap_current_end) /\ Coalesced /\ HeldBlocks /\ Calls

\* Requests that the rounding of kmalloc does not carry past the width of a size.
NoWrap == \A r \in Requests : r + Align - 1 < WordMod

\* The block behind a pointer has the size that was asked for, and a call in progress
\* asks for one of the requests.
HeldFits ==
  /\ \A c \in Clients : op[c] # Idle => op[c].size \in Requests
  /\ \A c \in Clients : \A h \in held[c] : hdr[h[1] - Hdr].size >= h[2]

-----------------------------------------------------------------------------
(* Operations on a chain *)

\* What the constants of the heap satisfy.
LEMMA Constants ==
  /\ Hdr \in Nat /\ Hdr > 0 /\ Align \in Nat /\ Align > 0 /\ PageSize \in Nat
  /\ HeapStart \in Nat /\ HeapStart > 0 /\ HeapMax \in Nat /\ WordMod \in Nat /\ WordMod > 0
  /\ HeapStart + PageSize <= HeapMax /\ HeapMax <= WordMod /\ Hdr + Align <= PageSize
  /\ Addrs \subseteq Nat /\ NULL \notin Addrs /\ NULL = 0
  BY HeapAssumption DEF NULL, Addrs

\* Changing only the free flag of a block leaves the chain.
LEMMA FlagKeepsChain ==
  ASSUME NEW f, NEW e \in HeapStart..HeapMax, Chain(f, e), NEW b \in DOMAIN f, NEW v \in BOOLEAN
  PROVE  Chain([f EXCEPT ![b].free = v], e)
  <1> DEFINE g == [f EXCEPT ![b].free = v]
  <1>1. /\ DOMAIN g = DOMAIN f /\ g \in [DOMAIN f -> HeaderType]
        /\ \A a \in DOMAIN f : g[a].size = f[a].size /\ g[a].next = f[a].next /\ g[a].prev = f[a].prev
    BY DEF Chain, HeaderType
  <1> HIDE DEF g
  <1>2. Chain(g, e)
    BY <1>1 DEF Chain
  <1> QED BY <1>2 DEF g

\* kmalloc's split of a block that is large enough.
LEMMA SplitKeepsChain ==
  ASSUME NEW e \in HeapStart..HeapMax, Chain(hdr, e), NEW b \in DOMAIN hdr, NEW size \in Nat,
         hdr[b].size - size >= Hdr + Align,
         NEW g, g = Split(b, size), NEW n, n = b + size + Hdr
  PROVE  Cut(g, b, size, n, e)
  <1> USE Constants
  <1>1. /\ b \in Nat /\ b \in Addrs /\ hdr[b] \in HeaderType /\ hdr[b].size \in Nat /\ n \in Nat /\ e \in Nat
        /\ n > b /\ n + Hdr <= b + Hdr + hdr[b].size /\ b + Hdr + hdr[b].size <= e
    BY DEF Chain, HeaderType, Addrs
  <1>2. n \notin DOMAIN hdr
    BY <1>1 DEF Chain
  <1>3. n \in Addrs
    BY <1>1 DEF Addrs
  <1>4. DOMAIN g = DOMAIN hdr \cup {n}
    BY <1>2 DEF Split, With, Chain
  <1>5. /\ g[b] = Header(size, FALSE, n, hdr[b].prev)
        /\ g[n] = Header(hdr[b].size - size - Hdr, TRUE, hdr[b].next, b)
    BY <1>1, <1>2 DEF Split, With, Chain
  <1>6. ASSUME NEW a \in DOMAIN hdr \ {b}
        PROVE  g[a] = IF a = hdr[b].next THEN [hdr[a] EXCEPT !.prev = n] ELSE hdr[a]
    <2>1. a # NULL /\ a # n
      BY <1>2 DEF Chain
    <2> QED BY <1>1, <1>2, <2>1 DEF Split, With, Chain
  <1>7. /\ g[b].size = size /\ ~g[b].free /\ g[b].next = n /\ g[b].prev = hdr[b].prev
        /\ g[n].size = hdr[b].size - size - Hdr /\ g[n].free /\ g[n].next = hdr[b].next /\ g[n].prev = b
        /\ g[b] \in HeaderType /\ g[n] \in HeaderType
    BY <1>1, <1>3, <1>5 DEF Header, HeaderType
  <1>8. \A a \in DOMAIN hdr \ {b} :
          /\ g[a] \in HeaderType
          /\ g[a].free = hdr[a].free /\ g[a].size = hdr[a].size /\ g[a].next = hdr[a].next
          /\ g[a].prev = IF a = hdr[b].next THEN n ELSE hdr[a].prev
    <2> SUFFICES ASSUME NEW a \in DOMAIN hdr \ {b}
                 PROVE  /\ g[a] \in HeaderType
                        /\ g[a].free = hdr[a].free /\ g[a].size = hdr[a].size /\ g[a].next = hdr[a].next
                        /\ g[a].prev = IF a = hdr[b].next THEN n ELSE hdr[a].prev
      OBVIOUS
    <2>1. hdr[a] \in HeaderType
      BY DEF Chain
    <2> QED BY <1>3, <1>6, <2>1 DEF HeaderType
  <1>9. Chain(g, e)
    <2>1. DOMAIN g \subseteq Addrs /\ g \in [DOMAIN g -> HeaderType]
      <3>1. \A a \in DOMAIN g : g[a] \in HeaderType
        BY <1>4, <1>7, <1>8
      <3>2. PICK F : g = With(F)
        BY DEF Split
      <3>3. g = [a \in DOMAIN g |-> g[a]]
        BY <3>2 DEF With
      <3> QED BY <1>3, <1>4, <3>1, <3>3 DEF Chain
    <2>2. HeapStart \in DOMAIN g /\ g[HeapStart].prev = NULL
      <3>1. hdr[b].next # HeapStart
        BY <1>1 DEF Chain
      <3> QED BY <1>4, <1>7, <1>8, <3>1 DEF Chain
    <2>3. ASSUME NEW a \in DOMAIN hdr
          PROVE  a \in Nat /\ hdr[a].size \in Nat /\ a + Hdr < e /\ a + Hdr + hdr[a].size <= e
      BY DEF Chain, HeaderType
    <2>4. \A a \in DOMAIN g : a + Hdr < e /\ a + Hdr + g[a].size <= e
      BY <1>1, <1>4, <1>7, <1>8, <2>3
    <2>5. \A a, c \in DOMAIN g : a < c => a + Hdr + g[a].size <= c
      BY <1>1, <1>4, <1>7, <1>8, <2>3 DEF Chain
    <2>6. ASSUME NEW a \in DOMAIN g
          PROVE  IF g[a].next = NULL THEN a + Hdr + g[a].size = e
                 ELSE /\ g[a].next = a + Hdr + g[a].size /\ g[a].next \in DOMAIN g
                      /\ g[g[a].next].prev = a
      <3>1. CASE a = b
        BY <1>1, <1>3, <1>4, <1>7, <3>1
      <3>2. CASE a = n
        BY <1>1, <1>2, <1>4, <1>7, <1>8, <3>2 DEF Chain
      <3>3. CASE a \in DOMAIN hdr \ {b}
        <4>1. hdr[a].next # NULL => hdr[a].next # hdr[b].next
          BY <3>3 DEF Chain
        <4> QED BY <1>1, <1>4, <1>7, <1>8, <2>3, <3>3, <4>1 DEF Chain
      <3> QED BY <1>4, <3>1, <3>2, <3>3
    <2>7. ASSUME NEW a \in DOMAIN g \ {HeapStart}
          PROVE  g[a].prev # NULL /\ g[a].prev \in DOMAIN g /\ g[g[a].prev].next = a
      <3>1. CASE a = b
        <4>1. hdr[b].prev # b /\ hdr[b].prev \in DOMAIN hdr /\ hdr[b].prev # NULL /\ hdr[hdr[b].prev].next = b
          BY <1>1, <3>1 DEF Chain
        <4> QED BY <1>4, <1>7, <1>8, <3>1, <4>1
      <3>2. CASE a = n
        BY <1>1, <1>4, <1>7, <3>2 DEF Chain
      <3>3. CASE a \in DOMAIN hdr \ {b}
        <4>1. CASE a = hdr[b].next
          BY <1>1, <1>3, <1>4, <1>7, <1>8, <3>3, <4>1
        <4>2. CASE a # hdr[b].next
          BY <1>4, <1>7, <1>8, <3>3, <4>2 DEF Chain
        <4> QED BY <4>1, <4>2
      <3> QED BY <1>4, <3>1, <3>2, <3>3
    <2> QED BY <2>1, <2>2, <2>4, <2>5, <2>6, <2>7 DEF Chain
  <1> QED BY <1>1, <1>2, <1>4, <1>7, <1>8, <1>9 DEF Cut

\* kfree's merge of a block with a free successor.
LEMMA JoinKeepsChain ==
  ASSUME NEW e \in HeapStart..HeapMax, NEW f, Chain(f, e), NEW b \in DOMAIN f,
         f[b].next # NULL, f[f[b].next].free,
         NEW n, n = f[b].next, NEW g, g = JoinNext(f, b)
  PROVE  Joined(f, g, b, n, e)
  <1> USE Constants
  <1>1. /\ n \in DOMAIN f /\ n = b + Hdr + f[b].size /\ f[n].prev = b /\ n # HeapStart
        /\ b \in Nat /\ n \in Nat /\ e \in Nat /\ f[b] \in HeaderType /\ f[n] \in HeaderType
        /\ f[b].size \in Nat /\ f[n].size \in Nat /\ n > b /\ n + Hdr + f[n].size <= e
        /\ HeapStart <= b /\ e <= HeapMax
    BY DEF Chain, HeaderType, Addrs
  <1>2. DOMAIN g = DOMAIN f \ {n}
    BY DEF JoinNext
  <1>3. g[b] = Header(f[b].size + f[n].size + Hdr, f[b].free, f[n].next, f[b].prev)
    <2>1. f[n].next # b
      BY <1>1 DEF Chain
    <2> QED BY <1>1, <2>1 DEF JoinNext
  <1>4. ASSUME NEW a \in DOMAIN f \ {b, n}
        PROVE  g[a] = IF a = f[n].next THEN [f[a] EXCEPT !.prev = b] ELSE f[a]
    BY <1>1 DEF JoinNext
  <1>5. /\ g[b].free = f[b].free /\ g[b].next = f[n].next /\ g[b].prev = f[b].prev
        /\ g[b].size = f[b].size + f[n].size + Hdr /\ g[b] \in HeaderType
    <2>1. f[b].size + f[n].size + Hdr \in 0..(HeapMax - HeapStart)
      BY <1>1
    <2>2. f[n].next \in {NULL} \cup Addrs
      BY <1>1 DEF HeaderType
    <2> QED BY <1>1, <1>3, <2>1, <2>2 DEF HeaderType, Header
  <1>6. \A a \in DOMAIN f \ {b, n} :
          /\ g[a] \in HeaderType
          /\ g[a].free = f[a].free /\ g[a].size = f[a].size /\ g[a].next = f[a].next
          /\ g[a].prev = IF a = f[n].next THEN b ELSE f[a].prev
          /\ f[a].next # n /\ a \in Nat /\ f[a].size \in Nat
    <2> SUFFICES ASSUME NEW a \in DOMAIN f \ {b, n}
                 PROVE  /\ g[a] \in HeaderType
                        /\ g[a].free = f[a].free /\ g[a].size = f[a].size /\ g[a].next = f[a].next
                        /\ g[a].prev = IF a = f[n].next THEN b ELSE f[a].prev
                        /\ f[a].next # n /\ a \in Nat /\ f[a].size \in Nat
      OBVIOUS
    <2>1. f[a] \in HeaderType /\ a \in Nat /\ b \in Addrs
      BY DEF Chain
    <2>2. f[a].next # n
      BY <1>1 DEF Chain
    <2>3. f[a].size \in Nat
      BY <2>1 DEF HeaderType
    <2>4. /\ g[a] \in HeaderType
          /\ g[a].free = f[a].free /\ g[a].size = f[a].size /\ g[a].next = f[a].next
          /\ g[a].prev = IF a = f[n].next THEN b ELSE f[a].prev
      BY <1>4, <2>1 DEF HeaderType
    <2> QED BY <2>1, <2>2, <2>3, <2>4
  <1>7. Chain(g, e)
    <2>1. DOMAIN g \subseteq Addrs /\ g \in [DOMAIN g -> HeaderType]
      <3>1. g = [a \in DOMAIN g |-> g[a]]
        BY DEF JoinNext
      <3> QED BY <1>2, <1>5, <1>6, <3>1 DEF Chain
    <2>2. HeapStart \in DOMAIN g /\ g[HeapStart].prev = NULL
      <3>1. f[n].next # HeapStart
        BY <1>1 DEF Chain
      <3> QED BY <1>1, <1>2, <1>5, <1>6, <3>1 DEF Chain
    <2>3. \A a \in DOMAIN g : a + Hdr < e /\ a + Hdr + g[a].size <= e
      BY <1>1, <1>2, <1>5, <1>6 DEF Chain
    <2>4. \A a, c \in DOMAIN g : a < c => a + Hdr + g[a].size <= c
      BY <1>1, <1>2, <1>5, <1>6 DEF Chain
    <2>5. ASSUME NEW a \in DOMAIN g
          PROVE  IF g[a].next = NULL THEN a + Hdr + g[a].size = e
                 ELSE /\ g[a].next = a + Hdr + g[a].size /\ g[a].next \in DOMAIN g
                      /\ g[g[a].next].prev = a
      <3>1. CASE a = b
        BY <1>1, <1>2, <1>5, <1>6, <3>1 DEF Chain
      <3>2. CASE a # b
        <4>1. f[a].next # NULL => f[a].next # f[n].next
          BY <1>1, <1>2, <3>2 DEF Chain
        <4> QED BY <1>1, <1>2, <1>5, <1>6, <3>2, <4>1 DEF Chain
      <3> QED BY <3>1, <3>2
    <2>6. ASSUME NEW a \in DOMAIN g \ {HeapStart}
          PROVE  g[a].prev # NULL /\ g[a].prev \in DOMAIN g /\ g[g[a].prev].next = a
      <3>1. CASE a = b
        <4>1. f[b].prev # b /\ f[b].prev # n
          BY <1>1, <3>1 DEF Chain
        <4> QED BY <1>1, <1>2, <1>5, <1>6, <3>1, <4>1 DEF Chain
      <3>2. CASE a # b
        BY <1>1, <1>2, <1>5, <1>6, <3>2 DEF Chain
      <3> QED BY <3>1, <3>2
    <2> QED BY <2>1, <2>2, <2>3, <2>4, <2>5, <2>6 DEF Chain
  <1> QED BY <1>1, <1>2, <1>5, <1>6, <1>7 DEF Joined

\* kmalloc's new page, in the last block or behind it.
LEMMA GrownKeepsChain ==
  ASSUME NEW e \in HeapStart..HeapMax, e = heap_current_end, Chain(hdr, e), e + PageSize <= HeapMax,
         NEW b \in DOMAIN hdr, hdr[b].next = NULL, NEW g, g = Grown(b)
  PROVE  /\ Chain(g, e + PageSize) /\ DOMAIN hdr \subseteq DOMAIN g /\ e \notin DOMAIN hdr
         /\ \A a \in DOMAIN hdr : g[a].free = hdr[a].free /\ g[a].size >= hdr[a].size
         /\ \A a \in DOMAIN hdr \ {b} : g[a].next = hdr[a].next
         /\ hdr[b].free => DOMAIN g = DOMAIN hdr /\ g[b].next = NULL
         /\ ~hdr[b].free => DOMAIN g = DOMAIN hdr \cup {e} /\ g[b].next = e /\ g[e].next = NULL
  <1> USE Constants
  <1>1. /\ b \in Nat /\ e \in Nat /\ hdr[b] \in HeaderType /\ hdr[b].size \in Nat
        /\ b + Hdr + hdr[b].size = e /\ e \in Addrs /\ e \notin DOMAIN hdr /\ HeapStart <= b /\ e <= HeapMax
    BY DEF Chain, HeaderType, Addrs
  <1>2. \A a \in DOMAIN hdr : /\ a \in Nat /\ hdr[a] \in HeaderType /\ hdr[a].size \in Nat
                              /\ a # b => hdr[a].next # NULL
    <2>1. \A a \in DOMAIN hdr : a \in Nat /\ hdr[a] \in HeaderType /\ hdr[a].size \in Nat
      BY DEF Chain, HeaderType
    <2> QED BY <1>1, <2>1 DEF Chain
  <1>3. CASE hdr[b].free
    <2>1. g = [hdr EXCEPT ![b].size = @ + PageSize]
      BY <1>3 DEF Grown
    <2>2. hdr[b].size + PageSize \in 0..(HeapMax - HeapStart)
      BY <1>1
    <2>3. /\ DOMAIN g = DOMAIN hdr /\ g \in [DOMAIN g -> HeaderType]
          /\ g[b].size = hdr[b].size + PageSize /\ g[b].next = NULL
          /\ \A a \in DOMAIN hdr : g[a].free = hdr[a].free /\ g[a].prev = hdr[a].prev /\ g[a].next = hdr[a].next
          /\ \A a \in DOMAIN hdr \ {b} : g[a].size = hdr[a].size
      BY <1>2, <2>1, <2>2 DEF Chain, HeaderType
    <2> HIDE <2>1
    <2>4. Chain(g, e + PageSize)
      BY <1>1, <1>2, <2>3 DEF Chain
    <2> QED BY <1>1, <1>2, <1>3, <2>3, <2>4
  <1>4. CASE ~hdr[b].free
    <2> DEFINE F == [a \in {b, e} |-> IF a = b THEN [hdr[a] EXCEPT !.next = e]
                                     ELSE Header(PageSize - Hdr, TRUE, NULL, b)]
    <2>1. g = With(F)
      BY <1>4 DEF Grown
    <2>2. DOMAIN g = DOMAIN hdr \cup {e} /\ \A a \in DOMAIN hdr \ {b} : g[a] = hdr[a]
      BY <1>1, <2>1 DEF With
    <2>a. g[b] = [hdr[b] EXCEPT !.next = e] /\ g[e] = Header(PageSize - Hdr, TRUE, NULL, b)
      BY <1>1, <2>1 DEF With
    <2>b. g = [a \in DOMAIN g |-> g[a]]
      BY <2>1 DEF With
    <2> HIDE <2>1 DEF F
    <2>3. PageSize - Hdr \in 0..(HeapMax - HeapStart)
      BY <1>1
    <2>4. /\ g[b] \in HeaderType /\ g[b].size = hdr[b].size /\ g[b].next = e
          /\ g[b].prev = hdr[b].prev /\ g[b].free = hdr[b].free
          /\ g[e] \in HeaderType /\ g[e].size = PageSize - Hdr /\ g[e].next = NULL /\ g[e].prev = b
      BY <1>1, <2>a, <2>3 DEF HeaderType, Header, Chain
    <2>5. g \in [DOMAIN g -> HeaderType]
      BY <1>2, <2>b, <2>2, <2>4
    <2>6. Chain(g, e + PageSize)
      <3>1. DOMAIN g \subseteq Addrs /\ HeapStart \in DOMAIN g /\ g[HeapStart].prev = NULL
        BY <1>1, <2>2, <2>4 DEF Chain
      <3>2. \A a \in DOMAIN g : a + Hdr < e + PageSize /\ a + Hdr + g[a].size <= e + PageSize
        BY <1>1, <1>2, <2>2, <2>4 DEF Chain
      <3>3. \A a, c \in DOMAIN g : a < c => a + Hdr + g[a].size <= c
        BY <1>1, <1>2, <2>2, <2>4 DEF Chain
      <3>4. ASSUME NEW a \in DOMAIN g
            PROVE  IF g[a].next = NULL THEN a + Hdr + g[a].size = e + PageSize
                   ELSE /\ g[a].next = a + Hdr + g[a].size /\ g[a].next \in DOMAIN g
                        /\ g[g[a].next].prev = a
        <4>1. CASE a \in {b, e}
          BY <1>1, <2>2, <2>4, <4>1
        <4>2. CASE a \in DOMAIN hdr \ {b}
          <5>1. hdr[a].next # NULL /\ hdr[a].next \in DOMAIN hdr /\ hdr[a].next # e
            BY <1>1, <1>2, <4>2 DEF Chain
          <5> QED BY <1>2, <2>2, <2>4, <4>2, <5>1 DEF Chain
        <4> QED BY <2>2, <4>1, <4>2
      <3>5. ASSUME NEW a \in DOMAIN g \ {HeapStart}
            PROVE  g[a].prev # NULL /\ g[a].prev \in DOMAIN g /\ g[g[a].prev].next = a
        <4>1. CASE a = e
          BY <1>1, <2>2, <2>4, <4>1
        <4>2. CASE a \in DOMAIN hdr
          <5>1. /\ g[a].prev = hdr[a].prev /\ hdr[a].prev # NULL /\ hdr[a].prev \in DOMAIN hdr
                /\ hdr[hdr[a].prev].next = a /\ hdr[a].prev # b
            BY <1>1, <2>2, <2>4, <4>2 DEF Chain
          <5> QED BY <2>2, <5>1
        <4> QED BY <2>2, <4>1, <4>2
      <3> QED BY <2>5, <3>1, <3>2, <3>3, <3>4, <3>5 DEF Chain
    <2> QED BY <1>1, <1>2, <1>4, <2>2, <2>4, <2>6
  <1> QED BY <1>3, <1>4
\* The first merge of kfree: of b and its successor.
LEMMA MergeNext ==
  ASSUME NEW e \in HeapStart..HeapMax, NEW f, Chain(f, e), NEW b \in DOMAIN f, f[b].free,
         \A a \in DOMAIN f : Adjacent(f, a) => a = b \/ f[a].next = b,
         NEW g, g = JoinNext(f, b)
  PROVE  /\ Chain(g, e) /\ b \in DOMAIN g /\ g[b].free
         /\ \A a \in DOMAIN g : Adjacent(g, a) => g[a].next = b
         /\ \A a \in DOMAIN f \ {b} :
              ~f[a].free => a \in DOMAIN g /\ ~g[a].free /\ g[a].size = f[a].size
  <1>1. CASE f[b].next = NULL \/ ~f[f[b].next].free
    <2>1. g = f
      BY <1>1 DEF JoinNext
    <2>2. ~Adjacent(f, b)
      BY <1>1 DEF Adjacent
    <2> QED BY <2>1, <2>2
  <1>2. CASE f[b].next # NULL /\ f[f[b].next].free
    <2>0. PICK n : n = f[b].next
      OBVIOUS
    <2>1. /\ Chain(g, e) /\ n \in DOMAIN f /\ n # b /\ DOMAIN g = DOMAIN f \ {n}
          /\ g[b].free = f[b].free /\ g[b].next = f[n].next
          /\ \A a \in DOMAIN f \ {b, n} :
               /\ g[a].free = f[a].free /\ g[a].size = f[a].size
               /\ g[a].next = f[a].next /\ g[a].next # n
      <3>1. Joined(f, g, b, n, e)
        BY <1>2, <2>0, JoinKeepsChain
      <3> QED BY <3>1 DEF Joined
    <2>2. f[n].free
      BY <1>2, <2>0
    <2>3. f[n].next # NULL => f[n].next \in DOMAIN f \ {b, n} /\ ~f[f[n].next].free
      <3>1. \A a \in DOMAIN f : a \in Nat /\ f[a].size \in Nat
        BY Constants DEF Chain, HeaderType
      <3>2. n > b
        BY <1>2, <2>0, <3>1, Constants DEF Chain
      <3>3. f[n].next # NULL => f[n].next \in DOMAIN f /\ f[n].next > n
        BY <2>1, <3>1, Constants DEF Chain
      <3>4. f[n].next # NULL => f[n].next \in DOMAIN f \ {b, n}
        BY <2>1, <3>1, <3>2, <3>3
      <3> QED BY <2>1, <2>2, <3>4 DEF Adjacent
    <2>4. ASSUME NEW a \in DOMAIN g, Adjacent(g, a) PROVE g[a].next = b
      <3>1. a # b
        <4>1. ~Adjacent(g, b)
          BY <2>1, <2>3 DEF Adjacent
        <4> QED BY <2>4, <4>1
      <3>2. g[a].next = f[a].next /\ g[a].next # n /\ f[a].free /\ a \in DOMAIN f \ {b, n} /\ f[a].next # NULL
        BY <2>1, <2>4, <3>1 DEF Adjacent
      <3>3. f[a].next \in DOMAIN f \ {n}
        BY <3>2 DEF Chain
      <3>4. f[f[a].next].free
        BY <2>1, <2>4, <3>2, <3>3 DEF Adjacent
      <3>5. Adjacent(f, a)
        BY <3>2, <3>4 DEF Adjacent
      <3> QED BY <3>1, <3>2, <3>5
    <2> QED BY <2>1, <2>2, <2>4
  <1> QED BY <1>1, <1>2

\* The second merge of kfree: of b and its predecessor.
LEMMA MergePrev ==
  ASSUME NEW e \in HeapStart..HeapMax, NEW g, Chain(g, e), NEW b \in DOMAIN g, g[b].free,
         \A a \in DOMAIN g : Adjacent(g, a) => g[a].next = b,
         NEW k, k = JoinPrev(g, b)
  PROVE  Freed(g, k, b, e)
  <1>0. PICK p : p = g[b].prev
    OBVIOUS
  <1>1. \A a \in DOMAIN g : a \in Nat /\ g[a].size \in Nat
    BY Constants DEF Chain, HeaderType
  <1>2. \A a \in DOMAIN g : g[a].next = b => a = p /\ p # NULL
    <2>1. b # NULL
      BY Constants DEF Chain
    <2>2. \A a \in DOMAIN g : a # NULL
      BY Constants DEF Chain
    <2> QED BY <1>0, <2>1, <2>2 DEF Chain
  <1>3. CASE p = NULL \/ ~g[p].free
    <2>1. k = g
      BY <1>0, <1>3 DEF JoinPrev
    <2>2. \A a \in DOMAIN g : ~Adjacent(g, a)
      BY <1>2, <1>3 DEF Adjacent
    <2> QED BY <2>1, <2>2 DEF Freed
  <1>4. CASE p # NULL /\ g[p].free
    <2>1. p \in DOMAIN g /\ g[p].next = b /\ b # NULL
      BY <1>0, <1>4, Constants DEF Chain
    <2>2. k = JoinNext(g, p)
      BY <1>0, <1>4 DEF JoinPrev
    <2>3. /\ Chain(k, e) /\ b # p /\ DOMAIN k = DOMAIN g \ {b}
          /\ k[p].free = g[p].free /\ k[p].next = g[b].next
          /\ \A a \in DOMAIN g \ {p, b} :
               /\ k[a].free = g[a].free /\ k[a].size = g[a].size
               /\ k[a].next = g[a].next /\ k[a].next # b
      <3>1. Joined(g, k, p, b, e)
        BY <1>4, <2>1, <2>2, JoinKeepsChain
      <3> QED BY <3>1 DEF Joined
    <2>4. ASSUME NEW a \in DOMAIN k, Adjacent(k, a) PROVE FALSE
      <3>1. k[a].next \in DOMAIN k /\ k[a].next # NULL /\ k[k[a].next].free
        BY <2>3, <2>4 DEF Adjacent, Chain
      <3>2. g[k[a].next].free
        BY <2>3, <3>1
      <3>3. CASE a = p
        <4>1. Adjacent(g, b)
          BY <2>3, <3>1, <3>2, <3>3 DEF Adjacent
        <4>2. g[b].next # b
          BY <1>1, Constants DEF Chain
        <4> QED BY <4>1, <4>2
      <3>4. CASE a # p
        <4>1. Adjacent(g, a) /\ g[a].next # b
          BY <2>3, <2>4, <3>1, <3>2, <3>4 DEF Adjacent
        <4> QED BY <2>3, <4>1
      <3> QED BY <3>3, <3>4
    <2>5. ASSUME NEW a \in DOMAIN g \ {b}, ~g[a].free
          PROVE  a \in DOMAIN k /\ ~k[a].free /\ k[a].size = g[a].size
      <3>1. a \in DOMAIN g \ {p, b}
        BY <1>4, <2>5
      <3> QED BY <2>3, <2>5, <3>1
    <2> QED BY <2>3, <2>4, <2>5 DEF Freed
  <1> QED BY <1>3, <1>4

\* kfree: marking the block free and merging it with its neighbours gives a heap
\* without free neighbours again, in which every other block in use is still there.
LEMMA FreeKeepsChain ==
  ASSUME NEW e \in HeapStart..HeapMax, Chain(hdr, e), Coalesced, NEW b \in DOMAIN hdr,
         ~hdr[b].free, NEW k, k = JoinPrev(JoinNext([hdr EXCEPT ![b].free = TRUE], b), b)
  PROVE  Freed(hdr, k, b, e)
  <1> DEFINE f == [hdr EXCEPT ![b].free = TRUE]
             g == JoinNext(f, b)
  <1>1. Chain(f, e)
    BY FlagKeepsChain
  <1>2. DOMAIN f = DOMAIN hdr /\ f[b].free /\ f[b].next = hdr[b].next /\ \A a \in DOMAIN hdr \ {b} : f[a] = hdr[a]
    BY DEF Chain, HeaderType
  <1>3. k = JoinPrev(g, b)
    OBVIOUS
  <1> HIDE DEF f
  <1>4. ASSUME NEW a \in DOMAIN f, Adjacent(f, a) PROVE a = b \/ f[a].next = b
    <2>1. f[a].next \in DOMAIN f
      BY <1>1, <1>4 DEF Adjacent, Chain
    <2> QED BY <1>2, <1>4, <2>1 DEF Adjacent, Coalesced
  <1>5. /\ Chain(g, e) /\ b \in DOMAIN g /\ g[b].free
        /\ \A a \in DOMAIN g : Adjacent(g, a) => g[a].next = b
        /\ \A a \in DOMAIN f \ {b} :
              ~f[a].free => a \in DOMAIN g /\ ~g[a].free /\ g[a].size = f[a].size
    BY <1>1, <1>2, <1>4, MergeNext
  <1> HIDE DEF g
  <1>6. Freed(g, k, b, e)
    BY <1>3, <1>5, MergePrev
  <1>7. ASSUME NEW a \in DOMAIN hdr \ {b}, ~hdr[a].free
        PROVE  a \in DOMAIN g \ {b} /\ ~g[a].free /\ g[a].size = hdr[a].size
    <2>1. a \in DOMAIN f \ {b} /\ f[a] = hdr[a] /\ ~f[a].free
      BY <1>2, <1>7
    <2> QED BY <1>5, <2>1
  <1> QED BY <1>6, <1>7 DEF Freed
-----------------------------------------------------------------------------
(* The invariant *)

\* A kmalloc or kfree that takes a step is the only one, and no other call is walking.
LEMMA Alone ==
  ASSUME HeapInv, Interruptible = {}, NEW c \in Clients, MayStep(c)
  PROVE  \A d \in Clients : d # c => op[d] = Idle
  BY DEF MayStep

\* init_heap makes one free block of one page.
LEMMA HeapInit == Init => HeapInv
  <1> SUFFICES ASSUME Init PROVE HeapInv
    OBVIOUS
  <1> USE Constants
  <1>1. /\ DOMAIN hdr = {HeapStart} /\ hdr[HeapStart] = Header(PageSize - Hdr, TRUE, NULL, NULL)
        /\ heap_current_end = HeapStart + PageSize
        /\ \A c \in Clients : op[c] = Idle /\ held[c] = {}
    BY DEF Init
  <1>2. hdr \in [DOMAIN hdr -> HeaderType] /\ DOMAIN hdr \subseteq Addrs
    <2>1. PageSize - Hdr \in 0..(HeapMax - HeapStart) /\ HeapStart \in Addrs
      BY DEF Addrs
    <2> QED BY <1>1, <2>1 DEF Init, Header, HeaderType
  <1>3. /\ hdr[HeapStart].prev = NULL /\ hdr[HeapStart].next = NULL /\ hdr[HeapStart].size = PageSize - Hdr
    BY <1>1 DEF Header
  <1>4. TypeOK
    <2>1. Idle \in [pc : {"idle", "walk", "take"}, size : 0..(WordMod - 1),
                    block : {NULL} \cup DOMAIN hdr, prev : {NULL} \cup DOMAIN hdr]
      BY DEF Idle
    <2>2. /\ op = [c \in Clients |-> Idle] /\ held = [c \in Clients |-> {}]
          /\ heap_current_end \in HeapStart..HeapMax
      BY DEF Init
    <2> QED BY <1>2, <2>1, <2>2 DEF TypeOK
  <1>5. Chain(hdr, heap_current_end)
    <2>1. HeapStart + Hdr + hdr[HeapStart].size = heap_current_end
      <3>1. \A x, y, z \in Nat : x + y + (z - y) = x + z
        OBVIOUS
      <3>2. heap_current_end = HeapStart + PageSize
        BY <1>1
      <3> QED BY <1>3, <3>1, <3>2
    <2>2. \A b \in DOMAIN hdr : b = HeapStart
      BY <1>1
    <2>3. \A a, b \in DOMAIN hdr : ~(a < b)
      BY <2>2
    <2>4. /\ HeapStart \in DOMAIN hdr
          /\ \A b \in DOMAIN hdr : b + Hdr < heap_current_end /\ b + Hdr + hdr[b].size <= heap_current_end
      <3>1. heap_current_end \in Nat
        BY <1>4 DEF TypeOK
      <3>2. HeapStart + Hdr < heap_current_end
        <4>1. heap_current_end = HeapStart + PageSize
          BY <1>1
        <4> QED BY <4>1
      <3>3. HeapStart \in DOMAIN hdr
        BY <1>1
      <3> QED BY <2>1, <2>2, <3>1, <3>2, <3>3
    <2> HIDE Constants
    <2> QED BY <1>2, <1>3, <2>1, <2>2, <2>3, <2>4 DEF Chain
  <1>6. Coalesced /\ HeldBlocks
    BY <1>1, <1>3 DEF Coalesced, HeldBlocks
  <1>7. Calls
    <2>1. \A c \in Clients : op[c].pc = "idle"
      BY <1>1 DEF Idle
    <2> QED BY <1>1, <2>1 DEF Calls
  <1> QED BY <1>4, <1>5, <1>6, <1>7 DEF HeapInv

\* The steps of a walk change nothing but the walker's own call.
LEMMA WalkKeepsInv ==
  ASSUME HeapInv, Interruptible = {}, NEW c \in Clients, MayStep(c),
         UNCHANGED <<hdr, heap_current_end, held>>,
         NEW o, op' = [op EXCEPT ![c] = o],
         o \in [pc : {"idle", "walk", "take"}, size : 0..(WordMod - 1),
               block : {NULL} \cup DOMAIN hdr, prev : {NULL} \cup DOMAIN hdr],
         o.pc = "idle" => o = Idle,
         o.pc = "walk" /\ o.block = NULL => o.prev # NULL /\ hdr[o.prev].next = NULL,
         o.pc = "take" => /\ o.block # NULL /\ hdr[o.block].free
                          /\ hdr[o.block].size >= Aligned(o.size)
  PROVE  HeapInv'
  <1>1. TypeOK'
    BY DEF HeapInv, TypeOK
  <1>2. op'[c] = o /\ \A d \in Clients : d # c => op'[d] = Idle
    BY Alone DEF HeapInv, TypeOK
  <1>3. Calls'
    BY <1>2 DEF Calls, Fits, Aligned, Idle
  <1>4. Chain(hdr, heap_current_end)' /\ Coalesced' /\ HeldBlocks'
    BY DEF HeapInv, Chain, Coalesced, HeldBlocks
  <1> QED BY <1>1, <1>3, <1>4 DEF HeapInv

\* The steps of kmalloc that only move along the list, or give up.
LEMMA WalkStepsKeepInv ==
  ASSUME HeapInv, Interruptible = {}, NEW c \in Clients,
         \/ \E size \in Requests : Kmalloc(c, size)
         \/ WalkNext(c) \/ WalkFound(c) \/ GrowFail(c)
  PROVE  HeapInv'
  <1> USE Constants
  <1> DEFINE OpType == [pc : {"idle", "walk", "take"}, size : 0..(WordMod - 1),
                        block : {NULL} \cup DOMAIN hdr, prev : {NULL} \cup DOMAIN hdr]
  <1>1. /\ op \in [Clients -> OpType] /\ op[c] \in OpType /\ HeapStart \in DOMAIN hdr /\ HeapStart # NULL
    BY DEF HeapInv, TypeOK, Chain
  <1>2. ASSUME NEW size \in Requests, Kmalloc(c, size) PROVE HeapInv'
    <2> DEFINE o == [pc |-> "walk", size |-> size, block |-> heap_head, prev |-> NULL]
    <2>1. o \in OpType
      BY <1>1, HeapAssumption DEF heap_head
    <2>2. op' = [op EXCEPT ![c] = o] /\ MayStep(c) /\ UNCHANGED <<hdr, heap_current_end, held>>
      BY <1>2 DEF Kmalloc
    <2> QED BY <1>1, <2>1, <2>2, WalkKeepsInv DEF heap_head
  <1>3. CASE WalkNext(c)
    <2> DEFINE o == [op[c] EXCEPT !.prev = op[c].block, !.block = hdr[op[c].block].next]
    <2>1. op[c].pc = "walk" /\ op[c].block \in DOMAIN hdr /\ MayStep(c) /\ op[c].block # NULL
      BY <1>1, <1>3 DEF WalkNext, Walking
    <2>2. hdr[op[c].block].next \in {NULL} \cup DOMAIN hdr
      BY <2>1 DEF HeapInv, Chain
    <2>3. o \in OpType /\ o.pc = "walk" /\ o.prev = op[c].block /\ o.block = hdr[op[c].block].next
      BY <1>1, <2>1, <2>2
    <2>4. op' = [op EXCEPT ![c] = o] /\ UNCHANGED <<hdr, heap_current_end, held>>
      BY <1>1, <1>3, <2>1 DEF WalkNext
    <2> HIDE DEF o
    <2> QED BY <2>1, <2>3, <2>4, WalkKeepsInv
  <1>4. CASE WalkFound(c)
    <2> DEFINE o == [op[c] EXCEPT !.pc = "take"]
    <2>1. o \in OpType /\ o.pc = "take" /\ o.block = op[c].block /\ o.size = op[c].size /\ MayStep(c)
      BY <1>1, <1>4 DEF WalkFound, Walking
    <2>2. op' = [op EXCEPT ![c] = o] /\ UNCHANGED <<hdr, heap_current_end, held>>
      BY <1>1, <1>4 DEF WalkFound
    <2>3. o.block # NULL /\ hdr[o.block].free /\ hdr[o.block].size >= Aligned(o.size)
      BY <1>4, <2>1 DEF WalkFound, Fits
    <2> HIDE DEF o
    <2> QED BY <2>1, <2>2, <2>3, WalkKeepsInv
  <1>5. CASE GrowFail(c)
    <2>1. Idle \in OpType /\ Idle.pc = "idle"
      BY DEF Idle
    <2>2. op' = [op EXCEPT ![c] = Idle] /\ UNCHANGED <<hdr, heap_current_end, held>> /\ MayStep(c)
      BY <1>5 DEF GrowFail, Walking
    <2> QED BY <2>1, <2>2, WalkKeepsInv
  <1> QED BY <1>2, <1>3, <1>4, <1>5

\* A page more: the walk that came to the end starts over.
LEMMA GrowKeepsInv ==
  ASSUME HeapInv, Interruptible = {}, NEW c \in Clients, Grow(c)
  PROVE  HeapInv' /\ DOMAIN hdr \subseteq DOMAIN hdr' /\ \A a \in DOMAIN hdr : hdr'[a].size >= hdr[a].size
  <1> USE Constants
  <1> DEFINE e == heap_current_end
             last == op[c].prev
  <1>1. /\ op[c].pc = "walk" /\ op[c].block = NULL /\ MayStep(c)
        /\ e + PageSize <= HeapMax /\ hdr' = Grown(last) /\ heap_current_end' = e + PageSize
        /\ e \in HeapStart..HeapMax /\ op[c] # Idle
    BY DEF Grow, Walking, AtLimit, HeapInv, TypeOK, Idle
  <1>2. last \in DOMAIN hdr /\ hdr[last].next = NULL
    BY <1>1 DEF HeapInv, TypeOK, Calls
  <1>3. /\ Chain(hdr', e + PageSize) /\ DOMAIN hdr \subseteq DOMAIN hdr' /\ e \notin DOMAIN hdr
        /\ \A a \in DOMAIN hdr : hdr'[a].free = hdr[a].free /\ hdr'[a].size >= hdr[a].size
        /\ \A a \in DOMAIN hdr \ {last} : hdr'[a].next = hdr[a].next
        /\ hdr[last].free => DOMAIN hdr' = DOMAIN hdr /\ hdr'[last].next = NULL
        /\ ~hdr[last].free => DOMAIN hdr' = DOMAIN hdr \cup {e} /\ hdr'[last].next = e /\ hdr'[e].next = NULL
    BY <1>1, <1>2, GrownKeepsChain DEF HeapInv
  <1> HIDE DEF e, last
  <1>4. Chain(hdr, heap_current_end)'
    BY <1>1, <1>3 DEF Chain
  <1>5. Coalesced'
    <2> SUFFICES ASSUME NEW a \in DOMAIN hdr', hdr'[a].free, hdr'[a].next # NULL
                 PROVE  ~hdr'[hdr'[a].next].free
      BY DEF Coalesced
    <2>1. a \in DOMAIN hdr /\ a # last
      BY <1>2, <1>3
    <2>2. hdr[a].next \in DOMAIN hdr /\ hdr[a].free /\ hdr[a].next # NULL
      BY <1>3, <2>1 DEF HeapInv, Chain
    <2> QED BY <1>3, <2>1, <2>2 DEF HeapInv, Coalesced
  <1>6. HeldBlocks'
    BY <1>3 DEF HeapInv, HeldBlocks, Grow
  <1>7. \A d \in Clients : d # c => op[d] = Idle
    BY <1>1, Alone
  <1> DEFINE OpType(D) == [pc : {"idle", "walk", "take"}, size : 0..(WordMod - 1),
                           block : {NULL} \cup D, prev : {NULL} \cup D]
             o == [op[c] EXCEPT !.block = heap_head, !.prev = NULL]
  <1>8. op \in [Clients -> OpType(DOMAIN hdr)] /\ op' = [op EXCEPT ![c] = o]
    BY DEF HeapInv, TypeOK, Grow
  <1>9. o \in OpType(DOMAIN hdr') /\ o.pc = "walk" /\ o.block # NULL
    <2>1. HeapStart \in DOMAIN hdr' /\ HeapStart # NULL
      BY <1>3 DEF Chain
    <2>2. op[c] \in OpType(DOMAIN hdr)
      BY <1>8
    <2> QED BY <1>1, <2>1, <2>2 DEF heap_head
  <1>10. op' \in [Clients -> OpType(DOMAIN hdr')] /\ op'[c] = o /\ \A d \in Clients : d # c => op'[d] = Idle
    <2>1. Idle \in OpType(DOMAIN hdr')
      BY DEF Idle
    <2> HIDE DEF o
    <2> QED BY <1>7, <1>8, <1>9, <2>1
  <1>11. TypeOK'
    BY <1>1, <1>4, <1>10 DEF TypeOK, Chain, HeapInv, Grow, e
  <1>12. Calls'
    <2> HIDE DEF o
    <2>1. Idle.pc = "idle"
      BY DEF Idle
    <2> QED BY <1>9, <1>10, <2>1 DEF Calls
  <1> QED BY <1>3, <1>4, <1>5, <1>6, <1>11, <1>12 DEF HeapInv

\* kfree of what a client holds.
LEMMA KfreeKeepsInv ==
  ASSUME HeapInv, Interruptible = {}, NEW c \in Clients, NEW h \in held[c], Kfree(c, h)
  PROVE  /\ HeapInv'
         /\ \A d \in Clients : \A g \in held'[d] :
              g \in held[d] /\ hdr'[g[1] - Hdr].size = hdr[g[1] - Hdr].size
  <1> USE Constants
  <1> DEFINE b == h[1] - Hdr
             e == heap_current_end
  <1>1. /\ b \in DOMAIN hdr /\ ~hdr[b].free /\ e \in HeapStart..HeapMax
        /\ Chain(hdr, e) /\ Coalesced /\ op[c] = Idle /\ MayStep(c)
        /\ hdr' = JoinPrev(JoinNext([hdr EXCEPT ![b].free = TRUE], b), b)
        /\ held' = [held EXCEPT ![c] = @ \ {h}] /\ heap_current_end' = e /\ op' = op
    BY DEF HeapInv, HeldBlocks, TypeOK, Kfree
  <1>2. /\ Chain(hdr', e) /\ \A a \in DOMAIN hdr' : ~Adjacent(hdr', a)
        /\ \A a \in DOMAIN hdr \ {b} :
             ~hdr[a].free => a \in DOMAIN hdr' /\ ~hdr'[a].free /\ hdr'[a].size = hdr[a].size
    <2>1. Freed(hdr, hdr', b, e)
      BY <1>1, FreeKeepsChain
    <2> QED BY <2>1 DEF Freed
  <1>3. \A d \in Clients : op[d] = Idle
    BY <1>1, Alone
  <1>4. Coalesced'
    BY <1>2 DEF Coalesced, Adjacent
  <1>5. /\ held' \in [Clients -> SUBSET (Addrs \X (0..(WordMod - 1)))]
        /\ \A d \in Clients : \A g \in held'[d] :
             g \in held[d] /\ <<d, g>> # <<c, h>> /\ g[1] \in Nat /\ g[1] # h[1] /\ h[1] \in Nat
    <2>1. held \in [Clients -> SUBSET (Addrs \X (0..(WordMod - 1)))]
      BY DEF HeapInv, TypeOK
    <2>2. held' \in [Clients -> SUBSET (Addrs \X (0..(WordMod - 1)))]
      BY <1>1, <2>1
    <2>3. ASSUME NEW d \in Clients, NEW g \in held'[d]
          PROVE  g \in held[d] /\ <<d, g>> # <<c, h>> /\ g[1] \in Nat /\ h[1] \in Nat
      BY <1>1, <2>1
    <2>4. \A d \in Clients : \A g \in held[d] : <<d, g>> # <<c, h>> => g[1] # h[1]
      BY DEF HeapInv, HeldBlocks
    <2> QED BY <2>2, <2>3, <2>4
  <1>6. ASSUME NEW d \in Clients, NEW g \in held'[d]
        PROVE  /\ g[1] - Hdr \in DOMAIN hdr' /\ ~hdr'[g[1] - Hdr].free
               /\ hdr'[g[1] - Hdr].size = hdr[g[1] - Hdr].size
    <2>1. g[1] - Hdr # b
      BY <1>5
    <2>2. g[1] - Hdr \in DOMAIN hdr /\ ~hdr[g[1] - Hdr].free
      BY <1>5 DEF HeapInv, HeldBlocks
    <2> QED BY <1>2, <2>1, <2>2
  <1>7. HeldBlocks'
    BY <1>5, <1>6 DEF HeapInv, HeldBlocks
  <1>8. TypeOK' /\ Chain(hdr, heap_current_end)'
    <2>1. Chain(hdr, heap_current_end)'
      BY <1>1, <1>2 DEF Chain
    <2>2. Idle \in [pc : {"idle", "walk", "take"}, size : 0..(WordMod - 1),
                    block : {NULL} \cup DOMAIN hdr', prev : {NULL} \cup DOMAIN hdr']
      BY DEF Idle
    <2>3. op' \in [Clients -> [pc : {"idle", "walk", "take"}, size : 0..(WordMod - 1),
                    block : {NULL} \cup DOMAIN hdr', prev : {NULL} \cup DOMAIN hdr']]
      BY <1>1, <1>3, <2>2 DEF HeapInv, TypeOK
    <2> QED BY <1>1, <1>2, <1>5, <2>1, <2>3 DEF TypeOK, Chain
  <1>9. Calls'
    <2>1. Idle.pc = "idle"
      BY DEF Idle
    <2> QED BY <1>1, <1>3, <2>1 DEF Calls
  <1> QED BY <1>4, <1>5, <1>6, <1>7, <1>8, <1>9 DEF HeapInv

\* A size is still a natural number once it has been rounded.
LEMMA AlignedNat == ASSUME NEW s \in 0..(WordMod - 1) PROVE Aligned(s) \in Nat
  <1>1. (s + Align - 1) % WordMod \in Nat
    BY Constants
  <1>2. \A x \in Nat : (x \div Align) * Align \in Nat
    BY Constants
  <1> QED BY <1>1, <1>2 DEF Aligned

\* kmalloc takes the block it has found, whole or cut in two.
LEMMA TakeKeepsInv ==
  ASSUME HeapInv, Interruptible = {}, NEW c \in Clients, Take(c)
  PROVE  /\ HeapInv'
         /\ \A d \in Clients : \A h \in held'[d] :
              \/ h \in held[d] /\ hdr'[h[1] - Hdr].size = hdr[h[1] - Hdr].size
              \/ /\ h[2] = op[c].size /\ op[c] # Idle
                 /\ hdr'[h[1] - Hdr].size >= Aligned(h[2])
  <1> USE Constants
  <1> DEFINE b == op[c].block
             s == op[c].size
             size == Aligned(s)
             e == heap_current_end
             h0 == <<b + Hdr, s>>
  <1>1. /\ op[c].pc = "take" /\ MayStep(c) /\ held' = [held EXCEPT ![c] = @ \cup {h0}]
        /\ op' = [op EXCEPT ![c] = Idle] /\ heap_current_end' = e
        /\ hdr' = IF (hdr[b].size - size) % WordMod >= Hdr + Align THEN Split(b, size)
                  ELSE [hdr EXCEPT ![b].free = FALSE]
    BY DEF Take
  <1>2. /\ b \in DOMAIN hdr /\ hdr[b].free /\ hdr[b].size >= size /\ e \in HeapStart..HeapMax
        /\ Chain(hdr, e) /\ Coalesced /\ s \in 0..(WordMod - 1) /\ op[c] # Idle
    BY <1>1 DEF HeapInv, TypeOK, Calls, Fits, Idle
  <1>3. /\ b \in Nat /\ b \in Addrs /\ size \in Nat /\ hdr[b].size \in Nat
        /\ hdr[b].size < WordMod /\ b + Hdr \in Addrs
    <2>1. /\ b \in Addrs /\ hdr[b] \in HeaderType /\ b + Hdr < e
      BY <1>2 DEF Chain
    <2>2. size \in Nat
      BY <1>2, AlignedNat
    <2>3. hdr[b].size \in 0..(HeapMax - HeapStart)
      BY <2>1 DEF HeaderType
    <2> QED BY <1>2, <2>1, <2>2, <2>3 DEF Addrs
  <1> HIDE DEF b, s, size, e, h0
  <1>4. (hdr[b].size - size) % WordMod = hdr[b].size - size
    <2>1. \A x, n \in Nat : x < n => x % n = x
      OBVIOUS
    <2>2. hdr[b].size - size \in Nat /\ hdr[b].size - size < WordMod
      BY <1>2, <1>3
    <2> QED BY <2>1, <2>2
  \* What both cases have in common.
  <1>5. /\ Chain(hdr', e) /\ Coalesced' /\ DOMAIN hdr \subseteq DOMAIN hdr'
        /\ ~hdr'[b].free /\ hdr'[b].size >= size
        /\ \A a \in DOMAIN hdr \ {b} : hdr'[a].free = hdr[a].free /\ hdr'[a].size = hdr[a].size
    <2>0. \A a \in DOMAIN hdr : hdr[a].next # NULL => hdr[a].next \in DOMAIN hdr /\ hdr[a].next # a
      BY <1>2 DEF Chain, HeaderType
    <2>1. CASE hdr[b].size - size >= Hdr + Align
      <3> DEFINE n == b + size + Hdr
      <3>1. hdr' = Split(b, size)
        BY <1>1, <1>4, <2>1
      <3>2. /\ Chain(hdr', e) /\ n \notin DOMAIN hdr /\ n # NULL /\ DOMAIN hdr' = DOMAIN hdr \cup {n}
            /\ hdr'[b].size = size /\ ~hdr'[b].free /\ hdr'[b].next = n
            /\ hdr'[n].free /\ hdr'[n].next = hdr[b].next
            /\ \A a \in DOMAIN hdr \ {b} :
                 hdr'[a].free = hdr[a].free /\ hdr'[a].size = hdr[a].size /\ hdr'[a].next = hdr[a].next
        <4>1. Cut(hdr', b, size, n, e)
          BY <1>2, <1>3, <2>1, <3>1, SplitKeepsChain
        <4> QED BY <4>1 DEF Cut
      <3> HIDE DEF n
      <3>3. Coalesced'
        <4> SUFFICES ASSUME NEW a \in DOMAIN hdr', hdr'[a].free, hdr'[a].next # NULL
                     PROVE  ~hdr'[hdr'[a].next].free
          BY DEF Coalesced
        <4>1. CASE a = n
          BY <1>2, <2>0, <3>2, <4>1 DEF Coalesced
        <4>2. CASE a \in DOMAIN hdr \ {b}
          BY <1>2, <2>0, <3>2, <4>2 DEF Coalesced
        <4> QED BY <3>2, <4>1, <4>2
      <3> QED BY <1>3, <3>2, <3>3
    <2>2. CASE ~(hdr[b].size - size >= Hdr + Align)
      <3>1. hdr' = [hdr EXCEPT ![b].free = FALSE]
        BY <1>1, <1>4, <2>2
      <3>2. Chain(hdr', e)
        BY <1>2, <3>1, FlagKeepsChain
      <3>3. /\ DOMAIN hdr' = DOMAIN hdr /\ ~hdr'[b].free
            /\ \A a \in DOMAIN hdr : hdr'[a].size = hdr[a].size /\ hdr'[a].next = hdr[a].next
            /\ \A a \in DOMAIN hdr \ {b} : hdr'[a].free = hdr[a].free
        BY <1>2, <3>1 DEF Chain, HeaderType
      <3> HIDE <3>1
      <3>4. Coalesced'
        BY <1>2, <2>0, <3>3 DEF Coalesced
      <3> QED BY <1>2, <3>2, <3>3, <3>4
    <2> QED BY <2>1, <2>2
  <1>6. \A d \in Clients : d # c => op[d] = Idle
    BY <1>1, Alone
  <1>7. held \in [Clients -> SUBSET (Addrs \X (0..(WordMod - 1)))]
    BY DEF HeapInv, TypeOK
  <1>8. /\ held' \in [Clients -> SUBSET (Addrs \X (0..(WordMod - 1)))]
        /\ \A d \in Clients : \A h \in held'[d] :
             h[1] \in Nat /\ (h \in held[d] \/ (d = c /\ h = h0))
    <2>1. h0 \in Addrs \X (0..(WordMod - 1))
      BY <1>2, <1>3 DEF h0
    <2> QED BY <1>1, <1>7, <2>1
  <1>9. \A d \in Clients : \A h \in held[d] :
          h[1] \in Nat /\ h[1] - Hdr \in DOMAIN hdr \ {b} /\ ~hdr[h[1] - Hdr].free /\ h[1] # h0[1]
    <2> SUFFICES ASSUME NEW d \in Clients, NEW h \in held[d]
                 PROVE  h[1] \in Nat /\ h[1] - Hdr \in DOMAIN hdr \ {b} /\ ~hdr[h[1] - Hdr].free /\ h[1] # h0[1]
      OBVIOUS
    <2>1. h[1] - Hdr \in DOMAIN hdr /\ ~hdr[h[1] - Hdr].free
      BY DEF HeapInv, HeldBlocks
    <2>2. h[1] \in Nat
      <3>1. h \in Addrs \X (0..(WordMod - 1))
        BY <1>7
      <3> QED BY <3>1
    <2>3. h[1] - Hdr # b
      BY <1>2, <2>1
    <2>4. h0[1] - Hdr = b
      BY <1>3 DEF h0
    <2> QED BY <2>1, <2>2, <2>3, <2>4
  <1>10. h0[1] - Hdr = b /\ h0[2] = s
    BY <1>3 DEF h0
  <1>11. HeldBlocks'
    <2> SUFFICES ASSUME NEW d \in Clients, NEW h \in held'[d]
                 PROVE  /\ h[1] - Hdr \in DOMAIN hdr' /\ ~hdr'[h[1] - Hdr].free
                        /\ \A x \in Clients : \A g \in held'[x] : <<x, g>> # <<d, h>> => g[1] # h[1]
      BY DEF HeldBlocks
    <2>1. h[1] - Hdr \in DOMAIN hdr' /\ ~hdr'[h[1] - Hdr].free
      BY <1>2, <1>5, <1>8, <1>9, <1>10
    <2>2. ASSUME NEW x \in Clients, NEW g \in held'[x], <<x, g>> # <<d, h>> PROVE g[1] # h[1]
      <3>1. CASE h \in held[d] /\ g \in held[x]
        BY <2>2, <3>1 DEF HeapInv, HeldBlocks
      <3>2. CASE ~(h \in held[d]) \/ ~(g \in held[x])
        BY <1>8, <1>9, <2>2, <3>2
      <3> QED BY <3>1, <3>2
    <2> QED BY <2>1, <2>2
  <1>12. /\ Chain(hdr, heap_current_end)' /\ op' = [d \in Clients |-> Idle]
    <2>1. op \in [Clients -> [pc : {"idle", "walk", "take"}, size : 0..(WordMod - 1),
                    block : {NULL} \cup DOMAIN hdr, prev : {NULL} \cup DOMAIN hdr]]
      BY DEF HeapInv, TypeOK
    <2>2. op' = [d \in Clients |-> Idle]
      BY <1>1, <1>6, <2>1
    <2>3. Chain(hdr, heap_current_end)'
      BY <1>1, <1>5 DEF Chain
    <2> QED BY <2>2, <2>3
  <1>13. TypeOK'
    <2>1. Idle \in [pc : {"idle", "walk", "take"}, size : 0..(WordMod - 1),
                    block : {NULL} \cup DOMAIN hdr', prev : {NULL} \cup DOMAIN hdr']
      BY DEF Idle
    <2>2. op' \in [Clients -> [pc : {"idle", "walk", "take"}, size : 0..(WordMod - 1),
                    block : {NULL} \cup DOMAIN hdr', prev : {NULL} \cup DOMAIN hdr']]
      BY <1>12, <2>1
    <2> QED BY <1>1, <1>2, <1>8, <1>12, <2>2 DEF TypeOK, Chain
  <1>14. Calls'
    <2>1. Idle.pc = "idle"
      BY DEF Idle
    <2> QED BY <1>12, <2>1 DEF Calls
  <1>15. ASSUME NEW d \in Clients, NEW h \in held'[d]
         PROVE  \/ h \in held[d] /\ hdr'[h[1] - Hdr].size = hdr[h[1] - Hdr].size
                \/ /\ h[2] = op[c].size /\ op[c] # Idle
                   /\ hdr'[h[1] - Hdr].size >= Aligned(h[2])
    <2>1. CASE h \in held[d]
      BY <1>5, <1>9, <2>1
    <2>2. CASE h = h0
      BY <1>2, <1>5, <1>10, <2>2 DEF s, size
    <2> QED BY <1>8, <2>1, <2>2
  <1> QED BY <1>5, <1>11, <1>12, <1>13, <1>14, <1>15 DEF HeapInv
-----------------------------------------------------------------------------
(* Theorems *)

\* Every step of kmalloc and kfree keeps the invariant when no call interrupts another.
LEMMA HeapStep == Interruptible = {} /\ HeapInv /\ [Next]_vars => HeapInv'
  <1> SUFFICES ASSUME Interruptible = {}, HeapInv, [Next]_vars PROVE HeapInv'
    OBVIOUS
  <1>1. CASE UNCHANGED vars
    BY <1>1 DEF vars, HeapInv, TypeOK, Chain, Coalesced, HeldBlocks, Calls, Fits, Aligned
  <1>2. CASE Next
    <2>1. PICK c \in Clients : \/ \E size \in Requests : Kmalloc(c, size)
                              \/ KmallocStep(c)
                              \/ \E h \in held[c] : Kfree(c, h)
      BY <1>2 DEF Next
    <2>2. CASE (\E size \in Requests : Kmalloc(c, size)) \/ WalkNext(c) \/ WalkFound(c) \/ GrowFail(c)
      BY <2>2, WalkStepsKeepInv
    <2>3. CASE Take(c)
      BY <2>3, TakeKeepsInv
    <2>4. CASE Grow(c)
      BY <2>4, GrowKeepsInv
    <2>5. CASE \E h \in held[c] : Kfree(c, h)
      BY <2>5, KfreeKeepsInv
    <2> QED BY <2>1, <2>2, <2>3, <2>4, <2>5 DEF KmallocStep
  <1> QED BY <1>1, <1>2

\* The headers always tile the heap and the list runs through all of them, when no call
\* of kmalloc or kfree is interrupted in the middle.
THEOREM HeapSafe ==
  ASSUME Interruptible = {} PROVE Spec => []HeapInv
  <1>1. HeapInv /\ [Next]_vars => HeapInv'
    BY HeapStep
  <1> QED BY <1>1, HeapInit, PTL DEF Spec

\* ListIsHeap and Coalesced, for every size of the heap and every set of requests.
THEOREM ListIsAlwaysHeap ==
  ASSUME Interruptible = {} PROVE Spec => []ListIsHeap
  <1>1. HeapInv => ListIsHeap
    <2> SUFFICES ASSUME HeapInv PROVE ListIsHeap
      OBVIOUS
    <2>1. Chain(hdr, heap_current_end) /\ TypeOK
      BY DEF HeapInv
    <2>2. heap_head \in DOMAIN hdr /\ hdr[heap_head].prev = NULL
      BY <2>1 DEF Chain, heap_head
    <2>3. \A b \in DOMAIN hdr :
            IF hdr[b].next = NULL THEN b + Hdr + hdr[b].size = heap_current_end
            ELSE /\ hdr[b].next = b + Hdr + hdr[b].size /\ b + Hdr + hdr[b].size \in DOMAIN hdr
                 /\ hdr[b + Hdr + hdr[b].size].prev = b
      BY <2>1 DEF Chain
    <2> QED BY <2>1, <2>2, <2>3 DEF ListIsHeap
  <1>2. Spec => []HeapInv
    BY HeapSafe
  <1> QED BY <1>1, <1>2, PTL

\* Two free blocks are never neighbours, for the same heaps.
THEOREM AlwaysCoalesced ==
  ASSUME Interruptible = {} PROVE Spec => []Coalesced
  <1>1. HeapInv => Coalesced
    BY DEF HeapInv
  <1>2. Spec => []HeapInv
    BY HeapSafe
  <1> QED BY <1>1, <1>2, PTL

\* A rounded size is not smaller, when the rounding does not wrap.
LEMMA AlignedFits == ASSUME NEW r \in Requests, NoWrap PROVE Aligned(r) >= r
  <1>1. r \in Nat /\ r + Align - 1 \in Nat /\ r + Align - 1 < WordMod
    BY Constants, HeapAssumption DEF NoWrap
  <1>2. (r + Align - 1) % WordMod = r + Align - 1
    <2>1. \A x, n \in Nat : x < n => x % n = x
      OBVIOUS
    <2> QED BY <1>1, <2>1, Constants
  <1>3. \A x, n \in Nat : n > 0 => ((x + n - 1) \div n) * n >= x
    OBVIOUS
  <1> QED BY <1>1, <1>2, <1>3, Constants DEF Aligned

\* A pointer's block keeps the size it was asked for: kfree joins free blocks only.
LEMMA HeldFitsStep ==
  Interruptible = {} /\ NoWrap /\ HeapInv /\ HeldFits /\ [Next]_vars => HeldFits'
  <1> SUFFICES ASSUME Interruptible = {}, NoWrap, HeapInv, HeldFits, [Next]_vars PROVE HeldFits'
    OBVIOUS
  <1> USE Constants
  <1>1. CASE UNCHANGED vars
    BY <1>1 DEF vars, HeldFits
  <1>2. CASE Next
    <2>1. PICK c \in Clients : \/ \E size \in Requests : Kmalloc(c, size)
                              \/ KmallocStep(c)
                              \/ \E h \in held[c] : Kfree(c, h)
      BY <1>2 DEF Next
    <2>0. /\ op \in [Clients -> [pc : {"idle", "walk", "take"}, size : 0..(WordMod - 1),
                        block : {NULL} \cup DOMAIN hdr, prev : {NULL} \cup DOMAIN hdr]]
          /\ \A d \in Clients : \A h \in held[d] : h[1] - Hdr \in DOMAIN hdr /\ h[2] \in Nat
          /\ \A a \in DOMAIN hdr : hdr[a].size \in Nat
      <3>1. held \in [Clients -> SUBSET (Addrs \X (0..(WordMod - 1)))]
        BY DEF HeapInv, TypeOK
      <3>2. \A d \in Clients : \A h \in held[d] : h[2] \in Nat
        BY <3>1
      <3> QED BY <3>2 DEF HeapInv, TypeOK, HeldBlocks, HeaderType
    <2>2. ASSUME NEW size \in Requests, Kmalloc(c, size) PROVE HeldFits'
      BY <2>0, <2>2 DEF Kmalloc, HeldFits
    <2>3. CASE WalkNext(c)
      BY <2>0, <2>3 DEF WalkNext, Walking, HeldFits, Idle
    <2>4. CASE WalkFound(c)
      BY <2>0, <2>4 DEF WalkFound, Walking, HeldFits, Idle
    <2>5. CASE GrowFail(c)
      BY <2>0, <2>5 DEF GrowFail, HeldFits
    <2>6. CASE Take(c)
      <3>1. \A d \in Clients : \A h \in held'[d] :
              \/ h \in held[d] /\ hdr'[h[1] - Hdr].size = hdr[h[1] - Hdr].size
              \/ /\ h[2] = op[c].size /\ op[c] # Idle
                 /\ hdr'[h[1] - Hdr].size >= Aligned(h[2])
        BY <2>6, TakeKeepsInv
      <3>2. ASSUME NEW d \in Clients, NEW h \in held'[d] PROVE hdr'[h[1] - Hdr].size >= h[2]
        <4>1. CASE h \in held[d] /\ hdr'[h[1] - Hdr].size = hdr[h[1] - Hdr].size
          BY <4>1 DEF HeldFits
        <4>2. CASE /\ h[2] = op[c].size /\ op[c] # Idle
                   /\ hdr'[h[1] - Hdr].size >= Aligned(h[2])
          <5>1. h[2] \in Requests /\ h[2] \in 0..(WordMod - 1)
            BY <4>2, HeapAssumption DEF HeldFits
          <5>2. Aligned(h[2]) >= h[2] /\ Aligned(h[2]) \in Nat
            BY <5>1, AlignedFits, AlignedNat
          <5>3. hdr'[h[1] - Hdr].size \in Nat
            <6>1. HeapInv'
              BY <2>6, TakeKeepsInv
            <6>2. h[1] - Hdr \in DOMAIN hdr' /\ hdr' \in [DOMAIN hdr' -> HeaderType]
              BY <6>1 DEF HeapInv, HeldBlocks, TypeOK
            <6> QED BY <6>2 DEF HeaderType
          <5> QED BY <4>2, <5>1, <5>2, <5>3
        <4> QED BY <3>1, <4>1, <4>2
      <3>3. \A d \in Clients : op'[d] # Idle => op[d] # Idle /\ op'[d] = op[d]
        BY <2>0, <2>6 DEF Take
      <3> QED BY <3>2, <3>3 DEF HeldFits
    <2>7. CASE Grow(c)
      <3>1. HeapInv' /\ DOMAIN hdr \subseteq DOMAIN hdr' /\ \A a \in DOMAIN hdr : hdr'[a].size >= hdr[a].size
        BY <2>7, GrowKeepsInv
      <3>2. \A a \in DOMAIN hdr' : hdr'[a].size \in Nat
        BY <3>1 DEF HeapInv, TypeOK, HeaderType
      <3>3. held' = held /\ \A d \in Clients : op'[d] # Idle => op[d] # Idle /\ op'[d].size = op[d].size
        BY <2>0, <2>7 DEF Grow, Walking, Idle
      <3> QED BY <2>0, <3>1, <3>2, <3>3 DEF HeldFits
    <2>8. ASSUME NEW h \in held[c], Kfree(c, h) PROVE HeldFits'
      <3>1. \A d \in Clients : \A g \in held'[d] :
              g \in held[d] /\ hdr'[g[1] - Hdr].size = hdr[g[1] - Hdr].size
        BY <2>8, KfreeKeepsInv
      <3>2. HeapInv' /\ op' = op
        BY <2>8, KfreeKeepsInv DEF Kfree
      <3>3. \A d \in Clients : \A g \in held'[d] : hdr'[g[1] - Hdr].size \in Nat
        <4>1. \A a \in DOMAIN hdr' : hdr'[a].size \in Nat
          BY <3>2 DEF HeapInv, TypeOK, HeaderType
        <4> QED BY <3>2, <4>1 DEF HeapInv, HeldBlocks
      <3> QED BY <2>0, <3>1, <3>2, <3>3 DEF HeldFits
    <2> QED BY <2>1, <2>2, <2>3, <2>4, <2>5, <2>6, <2>7, <2>8 DEF KmallocStep
  <1> QED BY <1>1, <1>2

\* What kmalloc has handed out stays a block of its own, in use and of the size that was
\* asked for, until it is given back.
THEOREM HeldAlwaysIntact ==
  ASSUME Interruptible = {}, NoWrap PROVE Spec => []HeldIntact
  <1>1. Init => HeldFits
    BY DEF Init, HeldFits
  <1>2. HeapInv /\ HeldFits => HeldIntact
    BY DEF HeapInv, HeldBlocks, HeldFits, HeldIntact
  <1>3. HeapInv /\ HeldFits /\ [Next]_vars => HeldFits'
    BY HeldFitsStep
  <1>4. Spec => []HeapInv
    BY HeapSafe
  <1> QED BY <1>1, <1>2, <1>3, <1>4, PTL DEF Spec
=============================================================================

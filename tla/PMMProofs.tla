----------------------------- MODULE PMMProofs -----------------------------
(***************************************************************************)
(* Proofs about PMM for every memory size, page size, word size, boot      *)
(* report, number of clients and choice of the interruptible ones.         *)
(***************************************************************************)
EXTENDS PMM, FiniteSetTheorems, TLAPS

\* The managed pages are a finite set of page numbers.
LEMMA ManagedFinite ==
  ASSUME total_memory_pages \in 0..MaxPages
  PROVE  /\ IsFiniteSet(Managed) /\ Cardinality(Managed) = total_memory_pages
         /\ Managed \subseteq Pages
  <1>1. MaxPages \in Nat /\ total_memory_pages \in Nat /\ total_memory_pages <= MaxPages
    BY PMMAssumption
  <1>2. IsFiniteSet(0..(total_memory_pages - 1))
        /\ Cardinality(0..(total_memory_pages - 1)) = total_memory_pages
    BY <1>1, FS_Interval
  <1> QED BY <1>1, <1>2 DEF Managed, Pages

\* Clearing bits keeps the counter exact and the bitmap well formed.
LEMMA UnsetKeepsCount ==
  ASSUME NEW S, total_memory_pages \in 0..MaxPages, used \in SUBSET Pages, CountExact,
         UnsetAll(S), UNCHANGED total_memory_pages
  PROVE  used' \in SUBSET Pages /\ used_memory_pages' \in Nat /\ CountExact'
  <1> DEFINE hit == S \cap used \cap Managed
             before == used \cap Managed
  <1>1. IsFiniteSet(before) /\ IsFiniteSet(hit) /\ before \cap hit = hit
    BY ManagedFinite, FS_Subset
  <1>2. /\ Cardinality(before \ hit) = Cardinality(before) - Cardinality(hit)
        /\ IsFiniteSet(before \ hit)
    <2> HIDE DEF hit, before
    <2> QED BY <1>1, FS_Difference
  <1>3. (used \cap Managed)' = before \ hit
    BY DEF UnsetAll, Managed
  <1>4. used_memory_pages' = Cardinality(before) - Cardinality(hit)
    BY DEF UnsetAll, CountExact
  <1>5. Cardinality(before \ hit) \in Nat
    BY <1>2, FS_CardinalityType
  <1> QED BY <1>2, <1>3, <1>4, <1>5 DEF UnsetAll, CountExact

\* Setting bits keeps the counter exact and the bitmap well formed.
LEMMA SetKeepsCount ==
  ASSUME NEW S, total_memory_pages \in 0..MaxPages, used \in SUBSET Pages, CountExact,
         SetAll(S), UNCHANGED total_memory_pages
  PROVE  used' \in SUBSET Pages /\ used_memory_pages' \in Nat /\ CountExact'
  <1> DEFINE hit == (S \cap Managed) \ used
             before == used \cap Managed
  <1>1. /\ IsFiniteSet(before) /\ IsFiniteSet(hit) /\ before \cap hit = {}
        /\ hit \subseteq Pages
    BY ManagedFinite, FS_Subset
  <1>2. /\ Cardinality(before \cup hit) = Cardinality(before) + Cardinality(hit) - Cardinality({})
        /\ IsFiniteSet(before \cup hit)
    BY <1>1, FS_Union
  <1>3. (used \cap Managed)' = before \cup hit
    BY DEF SetAll, Managed
  <1>4. used_memory_pages' = Cardinality(before) + Cardinality(hit)
    BY DEF SetAll, CountExact
  <1>5. Cardinality(before) \in Nat /\ Cardinality(hit) \in Nat /\ Cardinality({}) = 0
    BY <1>1, FS_CardinalityType, FS_EmptySet
  <1>6. CountExact' /\ used_memory_pages' \in Nat
    <2> HIDE DEF hit, before
    <2>1. Cardinality(before \cup hit) = Cardinality(before) + Cardinality(hit)
      BY <1>2, <1>5
    <2>2. Cardinality((used \cap Managed)') = used_memory_pages'
      BY <1>3, <1>4, <2>1
    <2> QED BY <1>4, <1>5, <2>2 DEF CountExact
  <1> QED BY <1>1, <1>6 DEF SetAll

\* init_pmm never manages more pages than the bitmap holds.
LEMMA TotalPagesBound ==
  ASSUME NEW b \in Boots
  PROVE  TotalPages(b) \in 0..MaxPages
  <1>1. /\ PageSize \in Nat \ {0} /\ MaxPages \in Nat \ {0} /\ LowEnd \in Nat
        /\ Fallback \in Nat /\ b.upper \in Nat
    BY PMMAssumption
  <1>2. AddrMod \in Nat \ {0}
    BY <1>1 DEF AddrMod
  <1>3. MemorySize(b) \in Nat
    BY <1>1 DEF MemorySize
  <1>4. MemorySize(b) % AddrMod \in Nat
    BY <1>2, <1>3
  <1>5. \A x \in Nat : x \div PageSize \in Nat
    BY <1>1
  <1> QED BY <1>1, <1>4, <1>5 DEF TotalPages

\* The state in which init_pmm has locked every page.
LEMMA AllocInit == Init => AllocInv
  <1> SUFFICES ASSUME Init PROVE AllocInv
    OBVIOUS
  <1>1. total_memory_pages \in 0..MaxPages /\ boot \in Boots
    BY TotalPagesBound DEF Init
  <1>2. CountExact
    <2>1. used \cap Managed = Managed
      BY <1>1, ManagedFinite DEF Init
    <2> QED BY <1>1, <2>1, ManagedFinite DEF Init, CountExact
  <1>3. TypeOK
    <2>1. used_memory_pages \in Nat /\ step \in Nat
      BY <1>1, PMMAssumption DEF Init
    <2>2. raced \in BOOLEAN /\ used \in SUBSET Pages /\ null \in SUBSET Clients
      BY DEF Init
    <2>3. found \in [Clients -> SUBSET Pages] /\ grants \in [Clients -> SUBSET Pages]
      BY DEF Init
    <2> QED BY <1>1, <2>1, <2>2, <2>3 DEF TypeOK
  <1> QED BY <1>1, <1>2, <1>3 DEF Init, AllocInv, NoSharing, ReservedKept

\* Every step of init_pmm, of an allocation and of a release keeps the
\* invariant.
LEMMA AllocStep ==
  ASSUME AllocInv, [Next]_vars
  PROVE  AllocInv'
  <1>0. /\ total_memory_pages \in 0..MaxPages /\ used \in SUBSET Pages /\ CountExact
        /\ found \in [Clients -> SUBSET Pages] /\ grants \in [Clients -> SUBSET Pages]
        /\ step \in Nat /\ Managed \subseteq Pages /\ raced \in BOOLEAN
    BY ManagedFinite DEF AllocInv, TypeOK
  <1>1. ASSUME BootEntry \/ BootNoMap \/ BootLock
        PROVE  AllocInv'
    <2>1. /\ UNCHANGED <<boot, total_memory_pages, found, null, grants, raced>>
          /\ step # 0 /\ step' \in Nat
      <3>1. Len(boot.map) \in Nat
        BY PMMAssumption DEF AllocInv, TypeOK
      <3>2. CASE BootEntry
        BY <1>0, <3>2 DEF BootEntry
      <3>3. CASE BootNoMap
        BY <1>0, <3>3 DEF BootNoMap
      <3>4. CASE BootLock
        BY <1>0, <3>1, <3>4 DEF BootLock
      <3> QED BY <1>1, <3>2, <3>3, <3>4
    <2>2. used' \in SUBSET Pages /\ used_memory_pages' \in Nat /\ CountExact'
      <3>1. CASE BootEntry
        <4>1. CASE boot.map[step].avail
          BY <1>0, <2>1, <3>1, <4>1, UnsetKeepsCount DEF BootEntry
        <4>2. CASE ~boot.map[step].avail
          BY <1>0, <2>1, <3>1, <4>2 DEF BootEntry, bitmapVars, CountExact, Managed, AllocInv, TypeOK
        <4> QED BY <4>1, <4>2
      <3>2. CASE BootNoMap
        BY <1>0, <2>1, <3>2, UnsetKeepsCount DEF BootNoMap
      <3>3. CASE BootLock
        BY <1>0, <2>1, <3>3, SetKeepsCount DEF BootLock
      <3> QED BY <1>1, <3>1, <3>2, <3>3
    <2>3. step' = 0 => Reserved \cap Managed \subseteq used'
      <3>1. CASE BootLock
        BY <3>1 DEF BootLock, SetAll
      <3>2. CASE ~BootLock
        BY <1>0, <1>1, <3>2 DEF BootEntry, BootNoMap
      <3> QED BY <3>1, <3>2
    <2>4. \A c \in Clients : found'[c] = {} /\ grants'[c] = {}
      BY <2>1 DEF AllocInv
    <2>5. TypeOK'
      BY <2>1, <2>2 DEF AllocInv, TypeOK
    <2> QED BY <2>1, <2>2, <2>3, <2>4, <2>5 DEF AllocInv, NoSharing, ReservedKept, Managed
  <1>2. ASSUME NEW c \in Clients, AllocFind(c)
        PROVE  AllocInv'
    <2>1. PICK p \in Scanned \ used : found' = [found EXCEPT ![c] = {p}]
      BY <1>2 DEF AllocFind
    <2>2. p \in Managed \ used /\ p \in Pages
      BY <1>0, <2>1 DEF Scanned
    <2>3. /\ UNCHANGED <<boot, step, total_memory_pages, used, used_memory_pages, grants>>
          /\ null' \in SUBSET Clients /\ step = 0 /\ found[c] = {}
          /\ raced' = (raced \/ \E d \in Clients \ {c} : found[d] # {})
      BY <1>2 DEF AllocFind, MayEnter, Enters, AllocInv, TypeOK, bitmapVars
    <2>4. \A d \in Clients : found'[d] = IF d = c THEN {p} ELSE found[d]
      BY <1>0, <2>1
    <2>5. found' \in [Clients -> SUBSET Pages]
      BY <1>0, <2>1, <2>2
    <2>6. p \notin Reserved
      BY <2>2, <2>3 DEF AllocInv
    <2>7. TypeOK'
      BY <2>3, <2>5 DEF AllocInv, TypeOK
    <2>8. CountExact' /\ ReservedKept' /\ NoSharing'
      BY <2>3 DEF AllocInv, CountExact, ReservedKept, NoSharing, Managed
    <2>9. \A d \in Clients : found'[d] \subseteq Managed \ Reserved
      BY <2>2, <2>4, <2>6 DEF AllocInv
    <2>10. ASSUME ~raced', NEW d \in Clients
           PROVE  /\ found'[d] \cap used = {}
                  /\ found'[d] # {} => \A e \in Clients \ {d} : found'[e] = {}
      <3>1. \A e \in Clients : found'[e] = IF e = c THEN {p} ELSE {}
        BY <2>3, <2>4, <2>10
      <3> QED BY <2>2, <3>1
    <2> QED BY <2>3, <2>7, <2>8, <2>9, <2>10 DEF AllocInv, Managed
  <1>3. ASSUME NEW c \in Clients, AllocFail(c)
        PROVE  AllocInv'
    BY <1>3 DEF AllocFail, AllocInv, TypeOK, CountExact, NoSharing, ReservedKept, Managed,
                bitmapVars
  <1>4. ASSUME NEW c \in Clients, AllocMark(c)
        PROVE  AllocInv'
    <2>0. PICK new : new = found[c]
      OBVIOUS
    <2>1. /\ UNCHANGED <<boot, step, total_memory_pages, null, raced>> /\ SetAll(new)
          /\ grants' = [grants EXCEPT ![c] = @ \cup new]
          /\ found' = [found EXCEPT ![c] = {}]
          /\ new # {} /\ step = 0
      BY <1>4, <2>0 DEF AllocMark, AllocInv
    <2>2. new \subseteq Managed \ Reserved /\ new \subseteq Pages
      BY <1>0, <2>0 DEF AllocInv
    <2>3. used' = used \cup new
      BY <2>1, <2>2 DEF SetAll
    <2>4. used' \in SUBSET Pages /\ used_memory_pages' \in Nat /\ CountExact'
      BY <1>0, <2>1, SetKeepsCount
    <2>5. /\ \A d \in Clients : found'[d] = IF d = c THEN {} ELSE found[d]
          /\ found' \in [Clients -> SUBSET Pages]
      BY <1>0, <2>1
    <2>6. /\ grants' \in [Clients -> SUBSET Pages] /\ grants'[c] = grants[c] \cup new
          /\ \A d \in Clients \ {c} : grants'[d] = grants[d]
      BY <1>0, <2>1, <2>2
    <2>7. NoSharing'
      <3> SUFFICES ASSUME ~raced
                   PROVE  \A d \in Clients : /\ grants'[d] \subseteq used'
                                             /\ \A e \in Clients \ {d} : grants'[d] \cap grants'[e] = {}
        BY <2>1 DEF NoSharing
      <3>1. new \cap used = {}
        BY <2>0 DEF AllocInv
      <3> QED BY <2>3, <2>6, <3>1 DEF AllocInv, NoSharing
    <2>8. ReservedKept'
      BY <2>2, <2>6 DEF AllocInv, ReservedKept
    <2>9. TypeOK'
      BY <2>1, <2>4, <2>5, <2>6 DEF AllocInv, TypeOK
    <2>10. \A d \in Clients : found'[d] \subseteq Managed \ Reserved
      BY <2>5 DEF AllocInv
    <2>11. ASSUME ~raced, NEW d \in Clients PROVE found'[d] = {}
      BY <2>0, <2>1, <2>5, <2>11 DEF AllocInv
    <2>12. Reserved \cap Managed \subseteq used'
      BY <2>1, <2>3 DEF AllocInv
    <2> QED BY <2>1, <2>4, <2>7, <2>8, <2>9, <2>10, <2>11, <2>12 DEF AllocInv, Managed
  <1>5. ASSUME NEW c \in Clients, NEW p \in grants[c], FreePage(c, p)
        PROVE  AllocInv'
    <2>1. /\ UNCHANGED <<boot, step, total_memory_pages, found, null, raced>> /\ UnsetAll({p})
          /\ grants' = [grants EXCEPT ![c] = @ \ {p}]
          /\ step = 0
      BY <1>5 DEF FreePage, MayEnter
    <2>2. used' \in SUBSET Pages /\ used_memory_pages' \in Nat /\ CountExact'
      BY <1>0, <2>1, UnsetKeepsCount
    <2>3. used \ {p} \subseteq used' /\ used' \subseteq used /\ p \notin Reserved
      BY <2>1 DEF UnsetAll, AllocInv, ReservedKept
    <2>4. /\ grants' \in [Clients -> SUBSET Pages] /\ grants'[c] = grants[c] \ {p}
          /\ \A d \in Clients \ {c} : grants'[d] = grants[d]
      BY <1>0, <2>1
    <2>5. ReservedKept'
      BY <2>4 DEF AllocInv, ReservedKept
    <2>6. NoSharing'
      <3> SUFFICES ASSUME ~raced
                   PROVE  \A d \in Clients : /\ grants'[d] \subseteq used'
                                             /\ \A e \in Clients \ {d} : grants'[d] \cap grants'[e] = {}
        BY <2>1 DEF NoSharing
      <3>1. \A d \in Clients \ {c} : p \notin grants[d]
        BY DEF AllocInv, NoSharing
      <3> QED BY <2>3, <2>4, <3>1 DEF AllocInv, NoSharing
    <2>7. TypeOK'
      BY <2>1, <2>2, <2>4 DEF AllocInv, TypeOK
    <2>8. Reserved \cap Managed \subseteq used'
      BY <2>1, <2>3 DEF AllocInv
    <2>9. ~raced => \A d \in Clients : found[d] \cap used' = {}
      BY <2>3 DEF AllocInv
    <2> QED BY <2>1, <2>2, <2>5, <2>6, <2>7, <2>8, <2>9 DEF AllocInv, Managed
  <1>6. CASE UNCHANGED vars
    BY <1>6 DEF vars, bitmapVars, AllocInv, TypeOK, CountExact, NoSharing, ReservedKept, Managed
  <1> QED BY <1>1, <1>2, <1>3, <1>4, <1>5, <1>6 DEF Next

\* The invariant holds throughout, whichever clients can be interrupted.
THEOREM AllocInvariant == Spec => []AllocInv
  <1>1. AllocInv /\ [Next]_vars => AllocInv'
    BY AllocStep
  <1> QED BY <1>1, AllocInit, PTL DEF Spec

\* The used-page counter of the statistics is exact in every state, after a race too:
\* bitmap_set counts a page only when its bit was 0.
THEOREM CounterExact == Spec => []CountExact
  <1>1. AllocInv => CountExact
    BY DEF AllocInv
  <1> QED BY <1>1, AllocInvariant, PTL

\* A search inside another's search and marking is the only way in which pmm_alloc_page can
\* hand one page to two holders.
THEOREM PagesExclusive == Spec => []NoSharing
  <1>1. AllocInv => NoSharing
    BY DEF AllocInv
  <1> QED BY <1>1, AllocInvariant, PTL

\* pmm_alloc_page never hands out low memory or the kernel image.
THEOREM ReservedSafe == Spec => []ReservedKept
  <1>1. AllocInv => ReservedKept
    BY DEF AllocInv
  <1> QED BY <1>1, AllocInvariant, PTL

-----------------------------------------------------------------------------
(* Running out of pages *)

\* The pages after the last whole word of the bitmap are fewer than a word.
LEMMA LastWord ==
  ASSUME total_memory_pages \in 0..MaxPages, Scanned \subseteq used
  PROVE  Cardinality(Managed \ used) < WordBits
  <1> DEFINE k == total_memory_pages \div WordBits
             first == WordBits * k
             rest == first..(total_memory_pages - 1)
  <1>1. /\ WordBits \in Nat /\ WordBits > 0 /\ total_memory_pages \in Nat
        /\ k \in Nat /\ first \in Nat
        /\ first <= total_memory_pages /\ total_memory_pages < first + WordBits
    BY PMMAssumption
  <1>2. ASSUME NEW p \in Managed, p \notin Scanned PROVE p \in rest
    <2>1. p \in Nat /\ p <= total_memory_pages - 1 /\ ~(p \div WordBits < k)
      BY <1>1, <1>2 DEF Managed, Scanned
    <2>2. PICK j : j = p \div WordBits
      OBVIOUS
    <2>3. j \in Nat /\ j >= k /\ p >= WordBits * j
      BY <1>1, <2>1, <2>2
    <2>4. WordBits * j >= first
      BY <1>1, <2>3
    <2> QED BY <1>1, <2>1, <2>3, <2>4
  <1>3. Managed \ used \subseteq rest
    BY <1>2
  <1>4. IsFiniteSet(rest) /\ Cardinality(rest) < WordBits
    <2> HIDE DEF first
    <2>1. IsFiniteSet(rest) /\ Cardinality(rest) = IF first > total_memory_pages - 1 THEN 0
                                                   ELSE (total_memory_pages - 1) - first + 1
      BY <1>1, FS_Interval
    <2> QED BY <1>1, <2>1
  <1>5. Cardinality(Managed \ used) <= Cardinality(rest) /\ Cardinality(Managed \ used) \in Nat
        /\ Cardinality(rest) \in Nat
    <2> HIDE DEF rest
    <2>1. IsFiniteSet(Managed \ used)
      BY <1>3, <1>4, FS_Subset
    <2> QED BY <1>3, <1>4, <2>1, FS_Subset, FS_CardinalityType
  <1> QED BY <1>1, <1>4, <1>5

LEMMA TotalRange ==
  ASSUME NEW b \in Boots
  PROVE  /\ MemorySize(b) \in Nat /\ TotalPages(b) \in 0..MaxPages
         /\ TotalPages(b) * PageSize <= MemorySize(b)
  <1>1. /\ PageSize \in Nat /\ PageSize > 0 /\ MaxPages \in Nat /\ MaxPages > 0
        /\ AddrMod \in Nat /\ AddrMod > 0 /\ MemorySize(b) \in Nat
    BY PMMAssumption DEF AddrMod, MemorySize
  <1>2. PICK s : s = MemorySize(b) % AddrMod
    OBVIOUS
  <1>3. s \in Nat /\ s <= MemorySize(b)
    BY <1>1, <1>2
  <1>4. PICK n : n = s \div PageSize
    OBVIOUS
  <1>5. n \in Nat /\ n * PageSize <= s
    BY <1>1, <1>3, <1>4
  <1>6. TotalPages(b) \in Nat /\ TotalPages(b) <= MaxPages /\ TotalPages(b) <= n
    BY <1>1, <1>2, <1>4, <1>5 DEF TotalPages
  <1>7. TotalPages(b) * PageSize <= n * PageSize
    BY <1>1, <1>5, <1>6
  <1> QED BY <1>1, <1>3, <1>5, <1>6, <1>7

\* What init_pmm managed stays managed.
Sized == boot \in Boots /\ total_memory_pages = TotalPages(boot)

LEMMA SizedStep ==
  ASSUME Sized, [Next]_vars
  PROVE  Sized'
  <1>1. CASE Next
    BY <1>1 DEF Next, Sized, BootEntry, BootNoMap, BootLock, AllocFind, AllocFail, AllocMark, FreePage
  <1>2. CASE UNCHANGED vars
    BY <1>2 DEF Sized, vars
  <1> QED BY <1>1, <1>2

\* A call of pmm_alloc_page that returns 0 has found every whole word of the bitmap full;
\* interrupted clients change nothing about that.
THEOREM FailsWhenFull == Spec => NullMeansFull
  <1>1. Init => Sized
    BY DEF Init, Sized
  <1>2. Sized /\ [Next]_vars => Sized'
    BY SizedStep
  <1>3. ASSUME Sized, [Next]_vars
        PROVE  [\A c \in Clients : c \in null' \ null => Cardinality(Managed \ used) < WordBits]_vars
    <2>1. total_memory_pages \in 0..MaxPages
      BY <1>3, TotalRange DEF Sized
    <2> SUFFICES ASSUME Next, NEW c \in Clients, c \in null', c \notin null
                 PROVE  Cardinality(Managed \ used) < WordBits
      BY <1>3
    <2>2. \E d \in Clients : AllocFail(d)
      BY DEF Next, BootEntry, BootNoMap, BootLock, AllocFind, AllocMark, FreePage
    <2>3. Scanned \subseteq used
      BY <2>2 DEF AllocFail
    <2> QED BY <2>1, <2>3, LastWord
  <1> QED BY <1>1, <1>2, <1>3, PTL DEF Spec, NullMeansFull

-----------------------------------------------------------------------------
(* Only RAM *)

\* The Multiboot contract of mem_upper: the loader that gives a map gives mem_upper too,
\* and the memory from 1 MB up to it is RAM without a hole.
Available(b, a) ==
  \E i \in 1..Len(b.map) : LET e == b.map[i] IN e.avail /\ e.base <= a /\ a < e.base + e.len
Contiguous ==
  \A b \in Boots : b.map = <<>> \/ (b.mem /\ \A a \in LowEnd..(LowEnd + b.upper - 1) : Available(b, a))

\* A managed page outside low memory lies between 1 MB and the end of memory.
LEMMA PageAbove ==
  ASSUME Sized, NEW p \in Managed, p \notin LowPages
  PROVE  \A a \in (p * PageSize)..(p * PageSize + PageSize - 1) : a \in LowEnd..(MemorySize(boot) - 1)
  <1>1. /\ PageSize \in Nat /\ PageSize > 0 /\ LowEnd \in Nat /\ AddrMod \in Nat
        /\ LowEnd + PageSize - 1 \in Nat /\ LowEnd + PageSize - 1 < AddrMod
    BY PMMAssumption DEF AddrMod
  <1>2. /\ MemorySize(boot) \in Nat /\ total_memory_pages \in 0..MaxPages
        /\ total_memory_pages * PageSize <= MemorySize(boot) /\ MaxPages \in Nat
    BY TotalRange, PMMAssumption DEF Sized
  <1>3. PICK T : T = total_memory_pages
    OBVIOUS
  <1>4. p \in Nat /\ T \in Nat /\ p + 1 <= T /\ p \in Pages
    BY <1>2, <1>3 DEF Managed, Pages
  <1>5. (p + 1) * PageSize <= T * PageSize
    BY <1>1, <1>4
  <1>6. p * PageSize + PageSize <= MemorySize(boot) /\ p * PageSize \in Nat
    <2>1. (p + 1) * PageSize = p * PageSize + PageSize /\ p * PageSize \in Nat /\ T * PageSize \in Nat
      BY <1>1, <1>4
    <2> QED BY <1>1, <1>2, <1>3, <1>5, <2>1
  <1>7. PICK n : n = (LowEnd + PageSize - 1) \div PageSize
    OBVIOUS
  <1>8. n \in Nat /\ LowEnd <= n * PageSize
    BY <1>1, <1>7
  <1>9. ~(p < n)
    <2>1. (LowEnd + PageSize - 1) % AddrMod = LowEnd + PageSize - 1
      BY <1>1
    <2>2. 0 \div PageSize = 0
      BY <1>1
    <2>3. LowPages = {q \in Pages : 0 <= q /\ q < 0 + n}
      BY <1>7, <2>1, <2>2 DEF LowPages, OuterPages
    <2> QED BY <1>4, <1>8, <2>3
  <1>10. n * PageSize <= p * PageSize
    BY <1>1, <1>4, <1>8, <1>9
  <1>11. LowEnd <= p * PageSize
    BY <1>1, <1>6, <1>8, <1>10
  <1> QED BY <1>1, <1>2, <1>6, <1>11

LEMMA RamManaged ==
  ASSUME Contiguous, Sized, NEW p \in Managed, p \notin LowPages
  PROVE  IsRam(p)
  <1>1. CASE boot.map = <<>>
    BY <1>1 DEF IsRam
  <1>2. CASE boot.map # <<>>
    <2>1. boot.mem /\ \A a \in LowEnd..(LowEnd + boot.upper - 1) : Available(boot, a)
      BY <1>2 DEF Contiguous, Sized
    <2>2. MemorySize(boot) = LowEnd + boot.upper /\ LowEnd \in Nat /\ boot.upper \in Nat
      BY <2>1, PMMAssumption DEF MemorySize, Sized
    <2>3. ASSUME NEW a \in (p * PageSize)..(p * PageSize + PageSize - 1) PROVE Available(boot, a)
      <3>1. a \in LowEnd..(MemorySize(boot) - 1)
        BY PageAbove
      <3>2. a \in LowEnd..(LowEnd + boot.upper - 1)
        BY <2>2, <3>1
      <3> QED BY <2>1, <3>2
    <2> QED BY <2>3 DEF IsRam, Available
  <1> QED BY <1>1, <1>2

\* Only managed pages are handed out.
GrantsManaged == \A c \in Clients : grants[c] \subseteq Managed

LEMMA GrantsStep ==
  ASSUME AllocInv, GrantsManaged, [Next]_vars
  PROVE  GrantsManaged'
  <1>1. grants \in [Clients -> SUBSET Pages]
    BY DEF AllocInv, TypeOK
  <1>2. ASSUME NEW c \in Clients, AllocMark(c) PROVE GrantsManaged'
    <2>1. found[c] \subseteq Managed
      BY DEF AllocInv
    <2>2. grants' = [grants EXCEPT ![c] = @ \cup found[c]] /\ total_memory_pages' = total_memory_pages
      BY <1>2 DEF AllocMark
    <2> QED BY <1>1, <2>1, <2>2 DEF GrantsManaged, Managed
  <1>3. ASSUME NEW c \in Clients, NEW p, FreePage(c, p) PROVE GrantsManaged'
    BY <1>1, <1>3 DEF FreePage, GrantsManaged, Managed
  <1>4. CASE BootEntry \/ BootNoMap \/ BootLock \/ \E c \in Clients : AllocFind(c) \/ AllocFail(c)
    BY <1>4 DEF BootEntry, BootNoMap, BootLock, AllocFind, AllocFail, GrantsManaged, Managed
  <1>5. CASE UNCHANGED vars
    BY <1>5 DEF vars, GrantsManaged, Managed
  <1> QED BY <1>2, <1>3, <1>4, <1>5 DEF Next

\* init_pmm drops the high halves of the map's addresses and may mark any page free; since
\* it manages memory only up to mem_upper, what pmm_alloc_page hands out is RAM for every
\* report of a loader that keeps the contract.
THEOREM OnlyRamGiven == Contiguous => (Spec => []OnlyRam)
  <1> SUFFICES ASSUME Contiguous PROVE Spec => []OnlyRam
    OBVIOUS
  <1>1. Init => Sized /\ GrantsManaged
    BY DEF Init, Sized, GrantsManaged
  <1>2. AllocInv /\ Sized /\ GrantsManaged /\ [Next]_vars => Sized' /\ GrantsManaged'
    BY SizedStep, GrantsStep
  <1>3. AllocInv /\ Sized /\ GrantsManaged => OnlyRam
    <2> SUFFICES ASSUME AllocInv, Sized, GrantsManaged, NEW c \in Clients, NEW p \in grants[c]
                 PROVE  IsRam(p)
      BY DEF OnlyRam
    <2>1. p \in Managed /\ p \notin LowPages
      BY DEF GrantsManaged, AllocInv, ReservedKept, Reserved
    <2> QED BY <2>1, RamManaged
  <1> QED BY <1>1, <1>2, <1>3, AllocInvariant, PTL DEF Spec
=============================================================================

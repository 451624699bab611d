----------------------------- MODULE VMMProofs -----------------------------
(***************************************************************************)
(* Every directory sees one heap, and no frame has two uses or is lost     *)
(* unawares, for every number of frames, tasks and tables, as long as no   *)
(* allocation has failed unnoticed and no table of the kernel's directory  *)
(* has been replaced.                                                      *)
(***************************************************************************)
EXTENDS VMM, TLAPS, FiniteSetTheorems

-----------------------------------------------------------------------------
(* Addresses *)

LEMMA Division ==
  ASSUME NEW v \in Nat
  PROVE  PdeOf(v) \in Nat /\ PteOf(v) \in 0..(PtSize - 1) /\ v = PtSize * PdeOf(v) + PteOf(v)
  BY VMMAssumption DEF PdeOf, PteOf

LEMMA Monotone ==
  ASSUME NEW v \in Nat, NEW w \in Nat, v <= w
  PROVE  PdeOf(v) <= PdeOf(w)
  BY VMMAssumption DEF PdeOf

\* Entry q and entry r of its table are the place of one page.
LEMMA Place ==
  ASSUME NEW q \in Nat, NEW r \in 0..(PtSize - 1)
  PROVE  PdeOf(PtSize * q + r) = q /\ PteOf(PtSize * q + r) = r
  <1>1. PtSize \in Nat /\ PtSize > 0 /\ PtSize * q \in Nat
    BY VMMAssumption
  <1>2. (PtSize * q + r) \div PtSize = q
    BY <1>1
  <1>3. (PtSize * q + r) % PtSize = r
    BY <1>1
  <1> QED BY <1>2, <1>3 DEF PdeOf, PteOf

\* The code lies in entry 1, the stack in the last page of entry 2, the heap from
\* entry 3 on.
LEMMA Places ==
  /\ HeapStart \in Nat /\ PdeOf(HeapStart) = 3
  /\ PdeOf(StackPage) = 2 /\ PteOf(StackPage) = PtSize - 1 /\ StackPage < HeapStart
  /\ StackPage \in Nat
  /\ \A i \in 0..(PtSize - 1) : /\ CodeStart + i \in Nat /\ CodeStart + i < HeapStart
                                /\ PdeOf(CodeStart + i) = 1 /\ PteOf(CodeStart + i) = i
  /\ \A v \in Nat : v >= HeapStart => PdeOf(v) >= 3
  <1>1. PtSize \in Nat /\ PtSize > 0
    BY VMMAssumption
  <1>2. HeapStart = PtSize * 3 + 0 /\ StackPage = PtSize * 2 + (PtSize - 1)
    BY <1>1 DEF HeapStart, StackPage
  <1>3. PdeOf(HeapStart) = 3
    BY <1>1, <1>2, Place
  <1>4. PdeOf(StackPage) = 2 /\ PteOf(StackPage) = PtSize - 1
    <2>1. PtSize - 1 \in 0..(PtSize - 1) /\ 2 \in Nat
      BY <1>1
    <2>2. /\ PdeOf(PtSize * 2 + (PtSize - 1)) = 2
          /\ PteOf(PtSize * 2 + (PtSize - 1)) = PtSize - 1
      BY <2>1, Place
    <2> QED BY <1>2, <2>2
  <1>5. HeapStart \in Nat /\ StackPage \in Nat /\ StackPage < HeapStart
    BY <1>1 DEF HeapStart, StackPage
  <1>6. ASSUME NEW i \in 0..(PtSize - 1)
        PROVE  /\ CodeStart + i \in Nat /\ CodeStart + i < HeapStart
               /\ PdeOf(CodeStart + i) = 1 /\ PteOf(CodeStart + i) = i
    <2>1. CodeStart + i = PtSize * 1 + i
      BY <1>1 DEF CodeStart
    <2>2. CodeStart + i \in Nat /\ CodeStart + i < HeapStart
      BY <1>1 DEF CodeStart, HeapStart
    <2> QED BY <2>1, <2>2, Place
  <1>7. ASSUME NEW v \in Nat, v >= HeapStart PROVE PdeOf(v) >= 3
    <2>1. PdeOf(HeapStart) <= PdeOf(v)
      BY <1>5, <1>7, Monotone
    <2> QED BY <1>3, <2>1, Division
  <1> QED BY <1>3, <1>4, <1>5, <1>6, <1>7

LEMMA SamePlace ==
  ASSUME NEW v \in Nat, NEW w \in Nat, PdeOf(v) = PdeOf(w), PteOf(v) = PteOf(w)
  PROVE  v = w
  <1>1. v = PtSize * PdeOf(v) + PteOf(v) /\ w = PtSize * PdeOf(w) + PteOf(w)
    BY Division
  <1> QED BY <1>1

-----------------------------------------------------------------------------
(* What the operations do to the parts of memory *)

All == {0} \cup Frames

\* The directories and tables are partial functions into the frames.
IsMem(m) ==
  /\ m = [free |-> m.free, pd |-> m.pd, pt |-> m.pt, role |-> m.role, broken |-> m.broken]
  /\ m.free \subseteq Frames /\ m.broken \in BOOLEAN
  /\ m.pd = [x \in All |-> m.pd[x]]
  /\ m.pt = [x \in All |-> m.pt[x]]
  /\ m.role = [x \in All |-> m.role[x]]
  /\ \A x \in All : DOMAIN m.pd[x] \subseteq Nat /\ \A i \in DOMAIN m.pd[x] : m.pd[x][i] \in All
  /\ \A x \in All : \A i \in DOMAIN m.pt[x] : m.pt[x][i] \in All

\* A nonempty set of natural numbers has a least element.
LEMMA Least ==
  ASSUME NEW S \in SUBSET Nat, S # {}
  PROVE  \E x \in S : \A y \in S : x <= y
  <1>1. PICK s \in S : TRUE
    OBVIOUS
  <1> DEFINE T == {y \in S : y <= s}
             Below(x) == {y \in T : y <= x}
             F == {Below(x) : x \in T}
  <1>2. IsFiniteSet(T)
    <2>1. T \in SUBSET Nat /\ s \in Nat /\ \A t \in T : t <= s
      OBVIOUS
    <2> QED BY <2>1, FS_BoundedSetOfNaturals
  <1>3. F \subseteq FiniteSubsetsOf(T)
    BY <1>2, FS_FiniteSubsetsOfFinite
  <1>4. F # {}
    <2>1. s \in T
      OBVIOUS
    <2>2. Below(s) \in F
      BY <2>1
    <2> HIDE DEF F
    <2> QED BY <2>2
  <1>5. IsWellFoundedOn(StrictSubsetOrdering(T), FiniteSubsetsOf(T))
    BY FS_StrictSubsetOrderingWellFounded
  <1>6. PICK U \in F : \A V \in F : ~(<<V, U>> \in StrictSubsetOrdering(T))
    BY <1>3, <1>4, <1>5, WFMin
  <1>7. PICK x \in T : U = Below(x)
    OBVIOUS
  <1>8. ASSUME NEW y \in T, y < x PROVE FALSE
    <2>1. \A z \in Below(y) : z \in U
      BY <1>7, <1>8
    <2>2. x \in U /\ x \notin Below(y)
      BY <1>7, <1>8
    <2>3. <<Below(y), U>> \in (SUBSET T) \X (SUBSET T)
      BY <1>7
    <2>4. Below(y) \in F
      BY <1>8
    <2> HIDE DEF Below, F
    <2>5. Below(y) \subseteq U /\ Below(y) # U
      BY <2>1, <2>2
    <2>6. <<Below(y), U>> \in StrictSubsetOrdering(T)
      BY <2>3, <2>5 DEF StrictSubsetOrdering
    <2> QED BY <1>6, <2>4, <2>6
  <1>9. x \in S /\ \A y \in S : x <= y
    BY <1>8
  <1> QED BY <1>9

\* pmm_alloc_page gives the lowest free frame.
LEMMA AllocIs ==
  ASSUME NEW m, IsMem(m)
  PROVE  /\ Alloc(m) \in All
         /\ m.free = {} => Alloc(m) = 0
         /\ m.free # {} => /\ Alloc(m) \in m.free /\ Alloc(m) # 0
                           /\ \A f \in m.free : Alloc(m) <= f
  <1> USE DEF All
  <1>1. m.free \subseteq Frames /\ Frames \subseteq Nat \ {0}
    BY VMMAssumption DEF IsMem, Frames
  <1>2. CASE m.free = {}
    BY <1>2 DEF Alloc
  <1>3. CASE m.free # {}
    <2>1. PICK S : S = m.free
      OBVIOUS
    <2>3. \E x \in S : \A y \in S : x <= y
      BY <1>1, <1>3, <2>1, Least
    <2>4. Min(S) \in S /\ \A y \in S : Min(S) <= y
      BY <2>3 DEF Min
    <2>5. Alloc(m) = Min(S)
      BY <1>3, <2>1 DEF Alloc
    <2> QED BY <1>1, <1>3, <2>1, <2>4, <2>5
  <1> QED BY <1>2, <1>3

\* The fields of a memory record.
IsRecord(m) == m = [free |-> m.free, pd |-> m.pd, pt |-> m.pt, role |-> m.role, broken |-> m.broken]

LEMMA TakenIs ==
  ASSUME NEW m, IsMem(m), NEW f \in All, NEW r, NEW n, n = Taken(m, f, r)
  PROVE  /\ IsMem(n) /\ n.free = m.free \ {f}
         /\ n.pd = m.pd /\ n.pt = m.pt /\ n.broken = m.broken
         /\ \A x \in All : n.role[x] = IF x = f THEN r ELSE m.role[x]
  <1>1. /\ n.free = m.free \ {f} /\ n.pd = m.pd /\ n.pt = m.pt /\ n.broken = m.broken
        /\ n.role = [m.role EXCEPT ![f] = r]
    BY DEF IsMem, Taken
  <1>2. IsRecord(n)
    BY DEF IsMem, Taken, IsRecord
  <1>3. n.role = [x \in All |-> IF x = f THEN r ELSE m.role[x]]
    BY <1>1 DEF IsMem
  <1>4. IsMem(n)
    BY <1>1, <1>2, <1>3 DEF IsMem, IsRecord
  <1> QED BY <1>1, <1>3, <1>4

\* A new table t for page v: its entry is in the directories of in.
LEMMA NewTableIs ==
  ASSUME NEW m, IsMem(m), NEW v \in Nat, NEW in, NEW n, n = NewTable(m, v, in),
         NEW t, t = Alloc(m), NEW i, i = PdeOf(v)
  PROVE  /\ IsMem(n) /\ n.free = m.free \ {t} /\ n.broken = (m.broken \/ t = 0 \/ KernelHas(m, v))
         /\ \A x \in All : n.role[x] = IF x = t THEN IF v >= HeapStart THEN "heap" ELSE "table"
                                       ELSE m.role[x]
         /\ \A x \in All \cap in : /\ DOMAIN n.pd[x] = DOMAIN m.pd[x] \cup {i} /\ n.pd[x][i] = t
                                   /\ \A j \in DOMAIN m.pd[x] \ {i} : n.pd[x][j] = m.pd[x][j]
         /\ \A x \in All \ in : n.pd[x] = m.pd[x]
         /\ DOMAIN n.pt[t] = {} /\ \A x \in All \ {t} : n.pt[x] = m.pt[x]
  <1> DEFINE r == IF v >= HeapStart THEN "heap" ELSE "table"
  <1>2. t \in All /\ i \in Nat
    BY AllocIs, Division
  <1>3. PICK k : k = Taken(m, t, r)
    OBVIOUS
  <1>4. /\ IsMem(k) /\ k.free = m.free \ {t}
        /\ k.pd = m.pd /\ k.pt = m.pt /\ k.broken = m.broken
        /\ \A x \in All : k.role[x] = IF x = t THEN r ELSE m.role[x]
    BY <1>2, <1>3, TakenIs
  <1>6. n = [k EXCEPT !.pd = [x \in DOMAIN @ |-> IF x \in in THEN WithEntry(@[x], i, t) ELSE @[x]],
                      !.pt[t] = Empty, !.broken = @ \/ t = 0 \/ KernelHas(m, v)]
    BY <1>3 DEF NewTable
  <1>7. PICK p : p = [x \in DOMAIN k.pd |-> IF x \in in THEN WithEntry(k.pd[x], i, t) ELSE k.pd[x]]
    OBVIOUS
  <1>8. n = [k EXCEPT !.pd = p, !.pt[t] = Empty, !.broken = @ \/ t = 0 \/ KernelHas(m, v)]
    BY <1>6, <1>7
  <1>9. IsRecord(n) /\ n.pd = p /\ n.pt = [k.pt EXCEPT ![t] = Empty]
    BY <1>4, <1>8 DEF IsMem, IsRecord
  <1>10. n.free = k.free /\ n.role = k.role /\ n.broken = (k.broken \/ t = 0 \/ KernelHas(m, v))
    BY <1>4, <1>8 DEF IsMem
  <1>11. n.pt = [x \in All |-> IF x = t THEN Empty ELSE m.pt[x]]
    BY <1>2, <1>4, <1>9 DEF IsMem
  <1>12. DOMAIN p = All /\ p = [x \in All |-> p[x]] /\ \A x \in All \ in : p[x] = m.pd[x]
    BY <1>4, <1>7 DEF IsMem
  <1>13. ASSUME NEW x \in All \cap in
         PROVE  /\ DOMAIN p[x] = DOMAIN m.pd[x] \cup {i} /\ p[x][i] = t
                /\ \A j \in DOMAIN m.pd[x] \ {i} : p[x][j] = m.pd[x][j]
    <2>1. PICK g, h : g = p[x] /\ h = m.pd[x]
      OBVIOUS
    <2>2. g = WithEntry(h, i, t)
      BY <1>4, <1>7, <2>1 DEF IsMem
    <2>3. DOMAIN g = DOMAIN h \cup {i} /\ g[i] = t /\ \A j \in DOMAIN h \ {i} : g[j] = h[j]
      BY <2>2 DEF WithEntry
    <2> QED BY <2>1, <2>3
  <1>14. DOMAIN Empty = {}
    BY DEF Empty
  <1>15. IsMem(n)
    <2>1. n.free \subseteq Frames /\ n.broken \in BOOLEAN /\ n.role = [x \in All |-> n.role[x]]
      BY <1>4, <1>10 DEF IsMem
    <2>2. n.pd = [x \in All |-> n.pd[x]] /\ n.pt = [x \in All |-> n.pt[x]]
      BY <1>9, <1>11, <1>12
    <2>3. \A x \in All : DOMAIN n.pd[x] \subseteq Nat /\ \A j \in DOMAIN n.pd[x] : n.pd[x][j] \in All
      BY <1>2, <1>9, <1>12, <1>13 DEF IsMem
    <2>4. \A x \in All : \A j \in DOMAIN n.pt[x] : n.pt[x][j] \in All
      BY <1>11, <1>14 DEF IsMem
    <2> QED BY <1>9, <2>1, <2>2, <2>3, <2>4 DEF IsMem, IsRecord
  <1>16. DOMAIN n.pt[t] = {} /\ \A x \in All \ {t} : n.pt[x] = m.pt[x]
    BY <1>2, <1>11, <1>14
  <1> QED BY <1>4, <1>9, <1>10, <1>12, <1>13, <1>15, <1>16

\* A page is entered in table t.
Entered(m, t, q, f) == [m EXCEPT !.pt[t] = WithEntry(@, q, f)]

LEMMA EnteredIs ==
  ASSUME NEW m, IsMem(m), NEW t \in All, NEW q, NEW f \in All, NEW n, n = Entered(m, t, q, f)
  PROVE  /\ IsMem(n) /\ n.free = m.free /\ n.pd = m.pd /\ n.role = m.role /\ n.broken = m.broken
         /\ DOMAIN n.pt[t] = DOMAIN m.pt[t] \cup {q} /\ n.pt[t][q] = f
         /\ \A j \in DOMAIN m.pt[t] \ {q} : n.pt[t][j] = m.pt[t][j]
         /\ \A x \in All \ {t} : n.pt[x] = m.pt[x]
  <1>1. PICK h : h = m.pt[t]
    OBVIOUS
  <1>2. PICK g : g = WithEntry(h, q, f)
    OBVIOUS
  <1>3. DOMAIN g = DOMAIN h \cup {q} /\ g[q] = f /\ \A j \in DOMAIN h \ {q} : g[j] = h[j]
    BY <1>2 DEF WithEntry
  <1>4. n = [m EXCEPT !.pt[t] = g]
    BY <1>1, <1>2 DEF Entered
  <1>5. IsRecord(n)
    BY <1>4 DEF IsMem, IsRecord
  <1>6. n.free = m.free /\ n.pd = m.pd /\ n.role = m.role /\ n.broken = m.broken
    BY <1>4 DEF IsMem
  <1>7. n.pt = [x \in All |-> IF x = t THEN g ELSE m.pt[x]]
    BY <1>4 DEF IsMem
  <1>8. \A x \in All : \A j \in DOMAIN n.pt[x] : n.pt[x][j] \in All
    BY <1>1, <1>3, <1>7 DEF IsMem
  <1>9. n.pt = [x \in All |-> n.pt[x]]
    BY <1>7
  <1>10. IsMem(n)
    BY <1>5, <1>6, <1>8, <1>9 DEF IsMem, IsRecord
  <1> QED BY <1>1, <1>3, <1>6, <1>7, <1>10

\* Entry q of table t became f; table t became the single entry f; the directories of
\* in got entry i.
TableSet(m, n, t, q, f) ==
  /\ DOMAIN n.pt[t] = DOMAIN m.pt[t] \cup {q} /\ n.pt[t][q] = f
  /\ \A j \in DOMAIN m.pt[t] \ {q} : n.pt[t][j] = m.pt[t][j]
  /\ \A x \in All \ {t} : n.pt[x] = m.pt[x]
TableNew(m, n, t, q, f) ==
  DOMAIN n.pt[t] = {q} /\ n.pt[t][q] = f /\ \A x \in All \ {t} : n.pt[x] = m.pt[x]
DirsSet(m, n, in, i, t) ==
  /\ \A x \in All \cap in : /\ DOMAIN n.pd[x] = DOMAIN m.pd[x] \cup {i} /\ n.pd[x][i] = t
                            /\ \A j \in DOMAIN m.pd[x] \ {i} : n.pd[x][j] = m.pd[x][j]
  /\ \A x \in All \ in : n.pd[x] = m.pd[x]
TableRole(v) == IF v >= HeapStart THEN "heap" ELSE "table"
RoleSet(m, n, t, r) == \A x \in All : n.role[x] = IF x = t THEN r ELSE m.role[x]

\* vmm_map_page with a table in place, and without.
LEMMA MapPageOld ==
  ASSUME NEW m, IsMem(m), NEW d \in All, NEW v \in Nat, NEW f \in All, NEW n, n = MapPage(m, d, v, f),
         NEW i, i = PdeOf(v), i \in DOMAIN m.pd[d], NEW q, q = PteOf(v), NEW t, t = m.pd[d][i]
  PROVE  /\ IsMem(n) /\ t \in All
         /\ n.free = m.free /\ n.pd = m.pd /\ n.role = m.role /\ n.broken = m.broken
         /\ TableSet(m, n, t, q, f)
  <1>1. n = Entered(m, t, q, f)
    BY DEF MapPage, Entered
  <1>2. t \in All
    BY DEF IsMem
  <1> QED BY <1>1, <1>2, EnteredIs DEF TableSet

LEMMA MapPageNew ==
  ASSUME NEW m, IsMem(m), NEW d \in All, NEW v \in Nat, NEW f \in All, NEW n, n = MapPage(m, d, v, f),
         NEW i, i = PdeOf(v), i \notin DOMAIN m.pd[d], NEW q, q = PteOf(v), NEW t, t = Alloc(m),
         NEW in, in = Sharers(d, v)
  PROVE  /\ IsMem(n) /\ t \in All
         /\ n.free = m.free \ {t} /\ n.broken = (m.broken \/ t = 0 \/ KernelHas(m, v))
         /\ RoleSet(m, n, t, TableRole(v))
         /\ DirsSet(m, n, in, i, t) /\ TableNew(m, n, t, q, f)
  <1>1. PICK k : k = NewTable(m, v, in)
    OBVIOUS
  <1>2. /\ IsMem(k) /\ k.free = m.free \ {t} /\ k.broken = (m.broken \/ t = 0 \/ KernelHas(m, v))
        /\ \A x \in All : k.role[x] = IF x = t THEN IF v >= HeapStart THEN "heap" ELSE "table"
                                      ELSE m.role[x]
        /\ \A x \in All \cap in : /\ DOMAIN k.pd[x] = DOMAIN m.pd[x] \cup {i} /\ k.pd[x][i] = t
                                  /\ \A j \in DOMAIN m.pd[x] \ {i} : k.pd[x][j] = m.pd[x][j]
        /\ \A x \in All \ in : k.pd[x] = m.pd[x]
        /\ DOMAIN k.pt[t] = {} /\ \A x \in All \ {t} : k.pt[x] = m.pt[x]
    BY <1>1, NewTableIs
  <1>3. d \in in /\ t \in All
    BY AllocIs DEF Sharers
  <1>4. k.pd[d][i] = t
    BY <1>2, <1>3
  <1>5. n = Entered(k, t, q, f)
    BY <1>1, <1>4 DEF MapPage, Entered
  <1>6. /\ IsMem(n) /\ n.free = k.free /\ n.pd = k.pd /\ n.role = k.role /\ n.broken = k.broken
        /\ DOMAIN n.pt[t] = DOMAIN k.pt[t] \cup {q} /\ n.pt[t][q] = f
        /\ \A x \in All \ {t} : n.pt[x] = k.pt[x]
    BY <1>2, <1>3, <1>5, EnteredIs
  <1> QED BY <1>2, <1>3, <1>6 DEF RoleSet, TableRole, DirsSet, TableNew

\* A directory is replaced.
Replaced(m, d, g) == [m EXCEPT !.pd[d] = g]

LEMMA ReplacedIs ==
  ASSUME NEW m, IsMem(m), NEW d \in All, NEW g, DOMAIN g \subseteq Nat, \A j \in DOMAIN g : g[j] \in All,
         NEW n, n = Replaced(m, d, g)
  PROVE  /\ IsMem(n) /\ n.free = m.free /\ n.pt = m.pt /\ n.role = m.role /\ n.broken = m.broken
         /\ n.pd[d] = g /\ \A x \in All \ {d} : n.pd[x] = m.pd[x]
  <1>1. IsRecord(n)
    BY DEF IsMem, IsRecord, Replaced
  <1>2. n.free = m.free /\ n.pt = m.pt /\ n.role = m.role /\ n.broken = m.broken
    BY DEF IsMem, Replaced
  <1>3. n.pd = [x \in All |-> IF x = d THEN g ELSE m.pd[x]]
    BY DEF IsMem, Replaced
  <1>4. n.pd = [x \in All |-> n.pd[x]]
    BY <1>3
  <1>5. \A x \in All : DOMAIN n.pd[x] \subseteq Nat /\ \A j \in DOMAIN n.pd[x] : n.pd[x][j] \in All
    BY <1>3 DEF IsMem
  <1>6. IsMem(n)
    BY <1>1, <1>2, <1>4, <1>5 DEF IsMem, IsRecord
  <1> QED BY <1>2, <1>3, <1>6

\* page_fault_handler copies the entries that the kernel's directory has.
LEMMA FaultIs ==
  ASSUME NEW m, IsMem(m), NEW d \in All, NEW S, NEW n, n = Fault(m, d, S)
  PROVE  /\ IsMem(n) /\ n.free = m.free /\ n.pt = m.pt /\ n.role = m.role /\ n.broken = m.broken
         /\ \A x \in All \ {d} : n.pd[x] = m.pd[x]
         /\ DOMAIN m.pd[d] \subseteq DOMAIN n.pd[d]
         /\ \A j \in DOMAIN m.pd[d] : n.pd[d][j] = m.pd[d][j]
         /\ \A j \in DOMAIN n.pd[d] \ DOMAIN m.pd[d] : /\ j \in DOMAIN m.pd[Master]
                                                      /\ n.pd[d][j] = m.pd[Master][j]
         /\ \A v \in S : PdeOf(v) \in DOMAIN m.pd[Master] => PdeOf(v) \in DOMAIN n.pd[d]
  <1> DEFINE missing == ({PdeOf(v) : v \in S} \ DOMAIN m.pd[d]) \cap DOMAIN m.pd[Master]
  <1>1. PICK a, b : a = m.pd[d] /\ b = m.pd[Master]
    OBVIOUS
  <1>2. PICK M : M = missing
    OBVIOUS
  <1>3. PICK g : g = [i \in DOMAIN a \cup M |-> IF i \in M THEN b[i] ELSE a[i]]
    OBVIOUS
  <1>4. n = Replaced(m, d, g)
    BY <1>1, <1>2, <1>3 DEF Fault, Replaced
  <1>5. Master \in All
    BY DEF All, Master
  <1>6. M \subseteq DOMAIN b /\ M \cap DOMAIN a = {}
    BY <1>1, <1>2
  <1>7. DOMAIN a \subseteq Nat /\ DOMAIN b \subseteq Nat
        /\ (\A j \in DOMAIN a : a[j] \in All) /\ (\A j \in DOMAIN b : b[j] \in All)
    BY <1>1, <1>5 DEF IsMem
  <1>8. /\ DOMAIN g = DOMAIN a \cup M /\ (\A j \in M : g[j] = b[j])
        /\ \A j \in DOMAIN a : g[j] = a[j]
    BY <1>3, <1>6
  <1>9. DOMAIN g \subseteq Nat /\ \A j \in DOMAIN g : g[j] \in All
    BY <1>6, <1>7, <1>8
  <1>10. /\ IsMem(n) /\ n.free = m.free /\ n.pt = m.pt /\ n.role = m.role /\ n.broken = m.broken
         /\ n.pd[d] = g /\ \A x \in All \ {d} : n.pd[x] = m.pd[x]
    BY <1>4, <1>9, ReplacedIs
  <1>11. \A v \in S : PdeOf(v) \in DOMAIN b => PdeOf(v) \in DOMAIN g
    BY <1>1, <1>2, <1>8
  <1> QED BY <1>1, <1>6, <1>8, <1>10, <1>11

\* vmm_create_page_directory copies the heap's entries of the kernel's directory.
LEMMA CreateIs ==
  ASSUME NEW m, IsMem(m), NEW d \in Frames, NEW n, n = CreateDirectory(m, d)
  PROVE  /\ IsMem(n) /\ n.free = m.free \ {d} /\ n.pt = m.pt /\ n.broken = m.broken
         /\ \A x \in All : n.role[x] = IF x = d THEN "dir" ELSE m.role[x]
         /\ \A x \in All \ {d} : n.pd[x] = m.pd[x]
         /\ DOMAIN n.pd[d] = {j \in DOMAIN m.pd[Master] : j >= 3}
         /\ \A j \in DOMAIN n.pd[d] : n.pd[d][j] = m.pd[Master][j]
  <1>1. PICK k : k = Taken(m, d, "dir")
    OBVIOUS
  <1>2. /\ IsMem(k) /\ k.free = m.free \ {d}
        /\ k.pd = m.pd /\ k.pt = m.pt /\ k.broken = m.broken
        /\ \A x \in All : k.role[x] = IF x = d THEN "dir" ELSE m.role[x]
    <2>1. d \in All
      BY DEF All
    <2> QED BY <1>1, <2>1, TakenIs
  <1>3. PICK b : b = m.pd[Master]
    OBVIOUS
  <1>4. PICK g : g = [i \in {j \in DOMAIN b : j >= PdeOf(HeapStart)} |-> b[i]]
    OBVIOUS
  <1>5. n = Replaced(k, d, g)
    BY <1>1, <1>3, <1>4 DEF CreateDirectory, Replaced
  <1>6. DOMAIN b \subseteq Nat /\ (\A j \in DOMAIN b : b[j] \in All) /\ d \in All
    BY <1>3 DEF IsMem, All, Master
  <1>7. DOMAIN g = {j \in DOMAIN b : j >= 3} /\ \A j \in DOMAIN g : g[j] = b[j]
    BY <1>4, Places
  <1>8. DOMAIN g \subseteq Nat /\ \A j \in DOMAIN g : g[j] \in All
    BY <1>6, <1>7
  <1>9. /\ IsMem(n) /\ n.free = k.free /\ n.pt = k.pt /\ n.role = k.role /\ n.broken = k.broken
        /\ n.pd[d] = g /\ \A x \in All \ {d} : n.pd[x] = k.pd[x]
    BY <1>2, <1>5, <1>6, <1>8, ReplacedIs
  <1> QED BY <1>2, <1>3, <1>7, <1>9

-----------------------------------------------------------------------------
(* The invariant *)

\* The tasks, and the directory, tables and pages of each.
IsTasks(ts) ==
  /\ ts = [t \in DOMAIN ts |-> ts[t]] /\ DOMAIN ts \subseteq Users
  /\ \A t \in DOMAIN ts :
       /\ ts[t] = [cr3 |-> ts[t].cr3, stack |-> ts[t].stack, kstack |-> ts[t].kstack, code |-> ts[t].code]
       /\ ts[t].cr3 \in Frames /\ ts[t].stack \in Frames
       /\ \A i \in DOMAIN ts[t].code : ts[t].code[i] \in All
IsDir(ts, d) == d = Master \/ \E t \in DOMAIN ts : d = ts[t].cr3
Pd(m, ts, t) == m.pd[ts[t].cr3]
Own(m, ts, t) == {i \in DOMAIN Pd(m, ts, t) : i < 3}

\* Every directory has the first table of the heap, and of the others only true copies;
\* the kernel's has them all.
Shared(m, ts, h) ==
  /\ DOMAIN m.pd[Master] = {PdeOf(v) : v \in DOMAIN h.at}
  /\ \A t \in DOMAIN ts :
       /\ 3 \in DOMAIN Pd(m, ts, t)
       /\ \A i \in DOMAIN Pd(m, ts, t) :
            i >= 3 => i \in DOMAIN m.pd[Master] /\ Pd(m, ts, t)[i] = m.pd[Master][i]
  /\ \A v \in DOMAIN h.at : LET tab == m.pt[m.pd[Master][PdeOf(v)]]
                            IN PteOf(v) \in DOMAIN tab /\ tab[PteOf(v)] = h.at[v]

\* The pages of a program, in its own tables.
Placed(m, ts) ==
  \A t \in DOMAIN ts :
    /\ 2 \in DOMAIN Pd(m, ts, t)
    /\ LET tab == m.pt[Pd(m, ts, t)[2]]
       IN PtSize - 1 \in DOMAIN tab /\ tab[PtSize - 1] = ts[t].stack
    /\ \A i \in DOMAIN ts[t].code :
         /\ 1 \in DOMAIN Pd(m, ts, t)
         /\ LET tab == m.pt[Pd(m, ts, t)[1]]
            IN i \in DOMAIN tab /\ tab[i] = ts[t].code[i]

\* A frame in use was last allocated for that use.
Roles(m, ts, h) ==
  /\ \A t \in DOMAIN ts :
       /\ m.role[ts[t].cr3] = "dir" /\ m.role[ts[t].stack] = "stack"
       /\ \A i \in Own(m, ts, t) : m.role[Pd(m, ts, t)[i]] = "table"
       /\ \A i \in DOMAIN ts[t].code : m.role[ts[t].code[i]] = "code"
  /\ \A i \in DOMAIN m.pd[Master] : m.role[m.pd[Master][i]] = "heap"
  /\ \A v \in DOMAIN h.at : m.role[h.at[v]] = "heap"

\* No two uses of one kind are of one frame.
Distinct(m, ts, h) ==
  /\ \A t, u \in DOMAIN ts :
       /\ ts[t].cr3 = ts[u].cr3 => t = u
       /\ ts[t].stack = ts[u].stack => t = u
       /\ \A i \in Own(m, ts, t), j \in Own(m, ts, u) : Pd(m, ts, t)[i] = Pd(m, ts, u)[j] => t = u /\ i = j
       /\ \A i \in DOMAIN ts[t].code, j \in DOMAIN ts[u].code :
            ts[t].code[i] = ts[u].code[j] => t = u /\ i = j
  /\ \A i, j \in DOMAIN m.pd[Master] : m.pd[Master][i] = m.pd[Master][j] => i = j
  /\ \A v, w \in DOMAIN h.at : h.at[v] = h.at[w] => v = w
  /\ \A v \in DOMAIN h.at, i \in DOMAIN m.pd[Master] : h.at[v] # m.pd[Master][i]

\* Every frame in use is one of G.
Within(m, ts, h, G) ==
  /\ \A t \in DOMAIN ts :
       /\ ts[t].cr3 \in G /\ ts[t].stack \in G
       /\ \A i \in Own(m, ts, t) : Pd(m, ts, t)[i] \in G
       /\ \A i \in DOMAIN ts[t].code : ts[t].code[i] \in G
  /\ \A i \in DOMAIN m.pd[Master] : m.pd[Master][i] \in G
  /\ \A v \in DOMAIN h.at : h.at[v] \in G

\* No frame of G was lost, but for tables and code.
Found(m, ts, h, G) ==
  \A f \in G :
    /\ m.role[f] \in {"dir", "stack", "table", "code", "heap"}
    /\ m.role[f] = "dir" => \E t \in DOMAIN ts : f = ts[t].cr3
    /\ m.role[f] = "stack" => \E t \in DOMAIN ts : f = ts[t].stack
    /\ m.role[f] = "heap" => \/ \E i \in DOMAIN m.pd[Master] : f = m.pd[Master][i]
                             \/ \E v \in DOMAIN h.at : f = h.at[v]

\* The frames of X are allocated and not used yet.
InUse(m, X) == Frames \ (m.free \cup X)
Core(m, ts, h, X) ==
  /\ Shared(m, ts, h) /\ Placed(m, ts) /\ Roles(m, ts, h) /\ Distinct(m, ts, h)
  /\ Within(m, ts, h, InUse(m, X))

\* pmm_alloc_page leaves every frame in use alone.
LEMMA TakeCore ==
  ASSUME NEW m, IsMem(m), NEW ts, IsTasks(ts), NEW h, NEW X, Core(m, ts, h, X),
         NEW f \in m.free, NEW r, NEW n, n = Taken(m, f, r), NEW Y, Y = X \cup {f}
  PROVE  /\ Core(n, ts, h, Y)
         /\ Found(m, ts, h, InUse(m, X)) => Found(n, ts, h, InUse(n, Y))
  <1>1. f \in Frames /\ f \in All
    BY DEF IsMem, All
  <1>2. /\ IsMem(n) /\ n.free = m.free \ {f} /\ n.pd = m.pd /\ n.pt = m.pt
        /\ \A x \in All : n.role[x] = IF x = f THEN r ELSE m.role[x]
    BY <1>1, TakenIs
  <1>3. InUse(n, Y) = InUse(m, X)
    BY <1>1, <1>2 DEF InUse
  <1>4. PICK G : G = InUse(m, X)
    OBVIOUS
  <1>5. \A x \in G : n.role[x] = m.role[x]
    BY <1>1, <1>2, <1>4 DEF InUse, All
  <1>6. Shared(n, ts, h) /\ Placed(n, ts) /\ Distinct(n, ts, h) /\ Within(n, ts, h, G)
    BY <1>2, <1>4 DEF Core, Shared, Placed, Distinct, Within, Pd, Own
  <1>7. Roles(n, ts, h)
    BY <1>2, <1>4, <1>5 DEF Core, Roles, Within, Pd, Own
  <1>8. Found(m, ts, h, G) => Found(n, ts, h, G)
    BY <1>2, <1>5 DEF Found
  <1> QED BY <1>3, <1>4, <1>6, <1>7, <1>8 DEF Core

\* page_fault_handler spreads what the kernel's directory has.
LEMMA FaultCore ==
  ASSUME NEW m, IsMem(m), NEW ts, IsTasks(ts), NEW h, NEW X, Core(m, ts, h, X),
         NEW d, IsDir(ts, d),
         NEW S, NEW n, n = Fault(m, d, S), DOMAIN h.at \subseteq Nat,
         \A v \in DOMAIN h.at : PdeOf(v) >= 3
  PROVE  /\ Core(n, ts, h, X)
         /\ Found(m, ts, h, InUse(m, X)) => Found(n, ts, h, InUse(n, X))
         /\ \A v \in S \cap DOMAIN h.at : Mapped(n, d, v)
  <1>1. d \in All /\ Master \in All /\ \A t \in DOMAIN ts : ts[t].cr3 \in All /\ ts[t].cr3 # Master
    <2>1. Frames \subseteq All /\ Master \in All /\ Master \notin Frames
      BY VMMAssumption DEF All, Master, Frames
    <2> QED BY <2>1 DEF IsTasks, IsDir
  <1>2. /\ IsMem(n) /\ n.free = m.free /\ n.pt = m.pt /\ n.role = m.role
        /\ \A x \in All \ {d} : n.pd[x] = m.pd[x]
        /\ DOMAIN m.pd[d] \subseteq DOMAIN n.pd[d]
        /\ \A j \in DOMAIN m.pd[d] : n.pd[d][j] = m.pd[d][j]
        /\ \A j \in DOMAIN n.pd[d] \ DOMAIN m.pd[d] : /\ j \in DOMAIN m.pd[Master]
                                                     /\ n.pd[d][j] = m.pd[Master][j]
        /\ \A v \in S : PdeOf(v) \in DOMAIN m.pd[Master] => PdeOf(v) \in DOMAIN n.pd[d]
    BY <1>1, FaultIs
  <1>3. /\ DOMAIN n.pd[Master] = DOMAIN m.pd[Master]
        /\ \A j \in DOMAIN m.pd[Master] : n.pd[Master][j] = m.pd[Master][j]
    <2>1. CASE d = Master
      BY <1>2, <2>1
    <2>2. CASE d # Master
      BY <1>1, <1>2, <2>2
    <2> QED BY <2>1, <2>2
  <1>4. \A j \in DOMAIN m.pd[Master] : j \in Nat /\ j >= 3
    BY <1>1 DEF Core, Shared, IsMem
  <1>5. ASSUME NEW t \in DOMAIN ts
        PROVE  /\ Own(n, ts, t) = Own(m, ts, t)
               /\ DOMAIN Pd(m, ts, t) \subseteq DOMAIN Pd(n, ts, t)
               /\ \A i \in DOMAIN Pd(m, ts, t) : Pd(n, ts, t)[i] = Pd(m, ts, t)[i]
               /\ \A i \in DOMAIN Pd(n, ts, t) \ DOMAIN Pd(m, ts, t) :
                     i \in DOMAIN m.pd[Master] /\ Pd(n, ts, t)[i] = m.pd[Master][i]
    <2>1. CASE ts[t].cr3 = d
      BY <1>2, <1>4, <2>1 DEF Own, Pd
    <2>2. CASE ts[t].cr3 # d
      BY <1>1, <1>2, <2>2 DEF Own, Pd
    <2> QED BY <2>1, <2>2
  <1>6. \A t \in DOMAIN ts : \A i \in Own(m, ts, t) : Pd(n, ts, t)[i] = Pd(m, ts, t)[i]
    BY <1>5 DEF Own
  <1>7. Shared(n, ts, h)
    BY <1>2, <1>3, <1>5 DEF Core, Shared
  <1>8. Placed(n, ts)
    BY <1>2, <1>5 DEF Core, Placed
  <1>9. Roles(n, ts, h)
    BY <1>2, <1>3, <1>5, <1>6 DEF Core, Roles
  <1>10. Distinct(n, ts, h)
    BY <1>3, <1>5, <1>6 DEF Core, Distinct
  <1>11. Within(n, ts, h, InUse(n, X)) /\ InUse(n, X) = InUse(m, X)
    BY <1>2, <1>3, <1>5, <1>6 DEF Core, Within, InUse
  <1>12. ASSUME Found(m, ts, h, InUse(m, X)) PROVE Found(n, ts, h, InUse(n, X))
    BY <1>2, <1>3, <1>11, <1>12 DEF Found
  <1>13. ASSUME NEW v \in S \cap DOMAIN h.at PROVE Mapped(n, d, v)
    <2>1. PdeOf(v) \in DOMAIN n.pd[d] /\ PdeOf(v) \in DOMAIN m.pd[Master]
      BY <1>2 DEF Core, Shared
    <2>2. PteOf(v) \in DOMAIN m.pt[m.pd[Master][PdeOf(v)]]
      BY DEF Core, Shared
    <2>3. n.pd[d][PdeOf(v)] = n.pd[Master][PdeOf(v)]
      <3>1. CASE d = Master
        BY <3>1
      <3>2. CASE d # Master
        <4>1. PICK t \in DOMAIN ts : d = ts[t].cr3
          BY <3>2 DEF IsDir
        <4> QED BY <1>3, <1>4, <1>7, <2>1, <4>1 DEF Shared, Pd
      <3> QED BY <3>1, <3>2
    <2> QED BY <1>2, <1>3, <2>1, <2>2, <2>3 DEF Mapped
  <1> QED BY <1>7, <1>8, <1>9, <1>10, <1>11, <1>12, <1>13 DEF Core

\* What the parts of Core say of single frames.
LEMMA CoreIs ==
  ASSUME NEW m, IsMem(m), NEW ts, IsTasks(ts), NEW h, NEW X, Core(m, ts, h, X), DOMAIN h.at \subseteq Nat,
         \A v \in DOMAIN h.at : PdeOf(v) >= 3
  PROVE  /\ Master \in All /\ \A t \in DOMAIN ts : ts[t].cr3 \in All /\ ts[t].cr3 # Master
         /\ \A j \in DOMAIN m.pd[Master] : j \in Nat /\ j >= 3 /\ m.pd[Master][j] \in All
         /\ \A v \in DOMAIN h.at : PdeOf(v) \in DOMAIN m.pd[Master]
         /\ \A t \in DOMAIN ts : \A i \in Own(m, ts, t) : i \in Nat /\ i < 3 /\ Pd(m, ts, t)[i] \in All
         /\ \A t \in DOMAIN ts : \A i \in DOMAIN Pd(m, ts, t) : i \in Nat /\ (i < 3 => i \in Own(m, ts, t))
         /\ \A t \in DOMAIN ts : 2 \in Own(m, ts, t)
         /\ \A t \in DOMAIN ts : DOMAIN ts[t].code # {} => 1 \in Own(m, ts, t)
  <1>1. Master \in All /\ \A t \in DOMAIN ts : ts[t].cr3 \in All /\ ts[t].cr3 # Master
    <2>1. Frames \subseteq All /\ Master \in All /\ Master \notin Frames
      BY VMMAssumption DEF All, Master, Frames
    <2> QED BY <2>1 DEF IsTasks
  <1>2. \A j \in DOMAIN m.pd[Master] : j \in Nat /\ j >= 3 /\ m.pd[Master][j] \in All
    BY <1>1 DEF Core, Shared, IsMem
  <1>3. \A t \in DOMAIN ts : \A i \in DOMAIN Pd(m, ts, t) : i \in Nat /\ Pd(m, ts, t)[i] \in All
    BY <1>1 DEF Pd, IsMem
  <1>4. \A t \in DOMAIN ts : \A i \in DOMAIN Pd(m, ts, t) : i < 3 => i \in Own(m, ts, t)
    BY DEF Own
  <1>5. \A t \in DOMAIN ts : \A i \in Own(m, ts, t) : i \in DOMAIN Pd(m, ts, t) /\ i < 3
    BY DEF Own
  <1>6. \A t \in DOMAIN ts : 2 \in DOMAIN Pd(m, ts, t)
    BY DEF Core, Placed
  <1>7. \A t \in DOMAIN ts : DOMAIN ts[t].code # {} => 1 \in DOMAIN Pd(m, ts, t)
    BY DEF Core, Placed
  <1>8. \A v \in DOMAIN h.at : PdeOf(v) \in DOMAIN m.pd[Master]
    BY DEF Core, Shared
  <1> QED BY <1>1, <1>2, <1>3, <1>4, <1>5, <1>6, <1>7, <1>8

\* The heap grows by page v, in a table that is there.
LEMMA GrowOld ==
  ASSUME NEW m, IsMem(m), NEW ts, IsTasks(ts), NEW h, NEW f \in Frames, Core(m, ts, h, {f}),
         DOMAIN h.at \subseteq Nat, \A w \in DOMAIN h.at : PdeOf(w) >= 3,
         f \notin m.free, m.role[f] = "heap",
         NEW d, IsDir(ts, d), NEW v \in Nat, v \notin DOMAIN h.at, PdeOf(v) >= 3,
         PdeOf(v) \in DOMAIN m.pd[d],
         NEW n, n = MapPage(m, d, v, f),
         NEW g, DOMAIN g.at = DOMAIN h.at \cup {v}, g.at[v] = f, \A w \in DOMAIN h.at : g.at[w] = h.at[w]
  PROVE  /\ Core(n, ts, g, {})
         /\ Found(m, ts, h, InUse(m, {f})) => Found(n, ts, g, InUse(n, {}))
  <1>1. PICK i, q, T : i = PdeOf(v) /\ q = PteOf(v) /\ T = m.pd[d][i]
    OBVIOUS
  <1>2. /\ Master \in All /\ \A t \in DOMAIN ts : ts[t].cr3 \in All /\ ts[t].cr3 # Master
        /\ \A j \in DOMAIN m.pd[Master] : j \in Nat /\ j >= 3 /\ m.pd[Master][j] \in All
        /\ \A w \in DOMAIN h.at : PdeOf(w) \in DOMAIN m.pd[Master]
        /\ \A t \in DOMAIN ts : \A j \in Own(m, ts, t) : j \in Nat /\ j < 3 /\ Pd(m, ts, t)[j] \in All
        /\ \A t \in DOMAIN ts : 2 \in Own(m, ts, t)
        /\ \A t \in DOMAIN ts : DOMAIN ts[t].code # {} => 1 \in Own(m, ts, t)
    BY CoreIs
  <1>3. d \in All /\ f \in All
    BY <1>2 DEF IsDir, All
  <1>4. /\ IsMem(n) /\ T \in All
        /\ n.free = m.free /\ n.pd = m.pd /\ n.role = m.role
        /\ DOMAIN n.pt[T] = DOMAIN m.pt[T] \cup {q} /\ n.pt[T][q] = f
        /\ \A j \in DOMAIN m.pt[T] \ {q} : n.pt[T][j] = m.pt[T][j]
        /\ \A x \in All \ {T} : n.pt[x] = m.pt[x]
    <2>1. i \in DOMAIN m.pd[d]
      BY <1>1
    <2>2. /\ IsMem(n) /\ T \in All /\ TableSet(m, n, T, q, f)
          /\ n.free = m.free /\ n.pd = m.pd /\ n.role = m.role
      BY <1>1, <1>3, <2>1, MapPageOld
    <2> QED BY <2>2 DEF TableSet
  <1>5. i \in DOMAIN m.pd[Master] /\ T = m.pd[Master][i]
    <2>1. CASE d = Master
      BY <1>1, <2>1
    <2>2. CASE d # Master
      <3>1. PICK t \in DOMAIN ts : d = ts[t].cr3
        BY <2>2 DEF IsDir
      <3> QED BY <1>1, <3>1 DEF Core, Shared, Pd
    <2> QED BY <2>1, <2>2
  <1>6. m.role[T] = "heap"
    BY <1>5 DEF Core, Roles
  <1>7. \A t \in DOMAIN ts : \A j \in Own(m, ts, t) : Pd(m, ts, t)[j] # T /\ n.pt[Pd(m, ts, t)[j]] = m.pt[Pd(m, ts, t)[j]]
    BY <1>2, <1>4, <1>6 DEF Core, Roles
  <1>8. \A t : Own(n, ts, t) = Own(m, ts, t) /\ Pd(n, ts, t) = Pd(m, ts, t)
    BY <1>4 DEF Own, Pd
  <1>9. Shared(n, ts, g)
    <2>1. DOMAIN n.pd[Master] = {PdeOf(w) : w \in DOMAIN g.at}
      BY <1>1, <1>4, <1>5 DEF Core, Shared
    <2>2. ASSUME NEW w \in DOMAIN g.at
          PROVE  LET tab == n.pt[n.pd[Master][PdeOf(w)]]
                 IN PteOf(w) \in DOMAIN tab /\ tab[PteOf(w)] = g.at[w]
      <3>1. CASE w = v
        BY <1>1, <1>4, <1>5, <3>1
      <3>2. CASE w # v /\ PdeOf(w) = i
        <4>1. w \in DOMAIN h.at /\ PteOf(w) # q
          BY <1>1, <3>2, SamePlace
        <4>2. PteOf(w) \in DOMAIN m.pt[T] /\ m.pt[T][PteOf(w)] = h.at[w]
          BY <1>5, <3>2, <4>1 DEF Core, Shared
        <4> QED BY <1>4, <1>5, <3>2, <4>1, <4>2
      <3>3. CASE w # v /\ PdeOf(w) # i
        <4>1. w \in DOMAIN h.at /\ PdeOf(w) \in DOMAIN m.pd[Master]
          BY <1>2, <3>3
        <4>2. m.pd[Master][PdeOf(w)] \in All \ {T}
          BY <1>2, <1>5, <3>3, <4>1 DEF Core, Distinct
        <4>3. n.pt[n.pd[Master][PdeOf(w)]] = m.pt[m.pd[Master][PdeOf(w)]]
          BY <1>4, <4>2
        <4> QED BY <4>1, <4>3 DEF Core, Shared
      <3> QED BY <3>1, <3>2, <3>3
    <2>3. \A t \in DOMAIN ts :
            /\ 3 \in DOMAIN Pd(n, ts, t)
            /\ \A j \in DOMAIN Pd(n, ts, t) :
                 j >= 3 => j \in DOMAIN n.pd[Master] /\ Pd(n, ts, t)[j] = n.pd[Master][j]
      BY <1>4, <1>8 DEF Core, Shared
    <2> QED BY <2>1, <2>2, <2>3 DEF Shared
  <1>10. Placed(n, ts)
    BY <1>2, <1>7, <1>8 DEF Core, Placed
  <1>11. Roles(n, ts, g)
    BY <1>4, <1>8 DEF Core, Roles
  <1>12. f \notin InUse(m, {f}) /\ InUse(n, {}) = InUse(m, {f}) \cup {f}
    BY <1>4 DEF InUse
  <1>13. Within(n, ts, g, InUse(n, {}))
    <2>1. PICK G : G = InUse(m, {f})
      OBVIOUS
    <2>2. Within(m, ts, h, G)
      BY <2>1 DEF Core
    <2>3. Within(n, ts, g, G \cup {f})
      BY <1>4, <1>8, <2>2 DEF Within
    <2> QED BY <1>12, <2>1, <2>3
  <1>14. Distinct(n, ts, g)
    <2>1. /\ \A t, u \in DOMAIN ts :
               /\ ts[t].cr3 = ts[u].cr3 => t = u
               /\ ts[t].stack = ts[u].stack => t = u
               /\ \A j \in Own(n, ts, t), k \in Own(n, ts, u) : Pd(n, ts, t)[j] = Pd(n, ts, u)[k] => t = u /\ j = k
               /\ \A j \in DOMAIN ts[t].code, k \in DOMAIN ts[u].code :
                    ts[t].code[j] = ts[u].code[k] => t = u /\ j = k
          /\ \A j, k \in DOMAIN n.pd[Master] : n.pd[Master][j] = n.pd[Master][k] => j = k
      BY <1>4, <1>8 DEF Core, Distinct
    <2>2. \A w \in DOMAIN h.at : h.at[w] # f
      BY <1>12 DEF Core, Within
    <2>3. \A j \in DOMAIN m.pd[Master] : m.pd[Master][j] # f
      BY <1>12 DEF Core, Within
    <2>4. \A w, x \in DOMAIN g.at : g.at[w] = g.at[x] => w = x
      BY <2>2 DEF Core, Distinct
    <2>5. \A w \in DOMAIN g.at, j \in DOMAIN n.pd[Master] : g.at[w] # n.pd[Master][j]
      BY <1>4, <2>3 DEF Core, Distinct
    <2> QED BY <2>1, <2>4, <2>5 DEF Distinct
  <1>15. ASSUME Found(m, ts, h, InUse(m, {f})) PROVE Found(n, ts, g, InUse(n, {}))
    <2>1. PICK G : G = InUse(m, {f})
      OBVIOUS
    <2>2. ASSUME NEW x \in G
          PROVE  /\ n.role[x] \in {"dir", "stack", "table", "code", "heap"}
                 /\ n.role[x] = "dir" => \E t \in DOMAIN ts : x = ts[t].cr3
                 /\ n.role[x] = "stack" => \E t \in DOMAIN ts : x = ts[t].stack
                 /\ n.role[x] = "heap" => \/ \E j \in DOMAIN n.pd[Master] : x = n.pd[Master][j]
                                          \/ \E w \in DOMAIN g.at : x = g.at[w]
      <3>1. Found(m, ts, h, G)
        BY <1>15, <2>1
      <3>2. /\ n.role[x] \in {"dir", "stack", "table", "code", "heap"}
            /\ n.role[x] = "dir" => \E t \in DOMAIN ts : x = ts[t].cr3
            /\ n.role[x] = "stack" => \E t \in DOMAIN ts : x = ts[t].stack
            /\ n.role[x] = "heap" => \/ \E j \in DOMAIN m.pd[Master] : x = m.pd[Master][j]
                                     \/ \E w \in DOMAIN h.at : x = h.at[w]
        BY <1>4, <3>1 DEF Found
      <3> QED BY <1>4, <3>2
    <2>3. v \in DOMAIN g.at /\ f = g.at[v] /\ n.role[f] = "heap"
      BY <1>4
    <2>4. Found(n, ts, g, G \cup {f})
      BY <2>2, <2>3 DEF Found
    <2> QED BY <1>12, <2>1, <2>4
  <1> QED BY <1>9, <1>10, <1>11, <1>13, <1>14, <1>15 DEF Core

\* The heap grows by page v, in a table that no directory has.
LEMMA GrowNew ==
  ASSUME NEW m, IsMem(m), NEW ts, IsTasks(ts), NEW h, NEW f \in Frames, Core(m, ts, h, {f}),
         DOMAIN h.at \subseteq Nat, \A w \in DOMAIN h.at : PdeOf(w) >= 3,
         f \notin m.free, m.role[f] = "heap",
         NEW d, IsDir(ts, d), NEW v \in Nat, v \notin DOMAIN h.at, PdeOf(v) >= 3, v >= HeapStart,
         PdeOf(v) \notin DOMAIN m.pd[d], PdeOf(v) \notin DOMAIN m.pd[Master],
         NEW n, n = MapPage(m, d, v, f), ~n.broken,
         NEW g, DOMAIN g.at = DOMAIN h.at \cup {v}, g.at[v] = f, \A w \in DOMAIN h.at : g.at[w] = h.at[w]
  PROVE  /\ Core(n, ts, g, {})
         /\ Found(m, ts, h, InUse(m, {f})) => Found(n, ts, g, InUse(n, {}))
  <1>1. PICK i, q, T, in : i = PdeOf(v) /\ q = PteOf(v) /\ T = Alloc(m) /\ in = Sharers(d, v)
    OBVIOUS
  <1>2. /\ Master \in All /\ \A t \in DOMAIN ts : ts[t].cr3 \in All /\ ts[t].cr3 # Master
        /\ \A j \in DOMAIN m.pd[Master] : j \in Nat /\ j >= 3 /\ m.pd[Master][j] \in All
        /\ \A w \in DOMAIN h.at : PdeOf(w) \in DOMAIN m.pd[Master]
        /\ \A t \in DOMAIN ts : \A j \in Own(m, ts, t) : j \in Nat /\ j < 3 /\ Pd(m, ts, t)[j] \in All
        /\ \A t \in DOMAIN ts : 2 \in Own(m, ts, t)
        /\ \A t \in DOMAIN ts : DOMAIN ts[t].code # {} => 1 \in Own(m, ts, t)
    BY CoreIs
  <1>3a. d \in All /\ f \in All
    BY <1>2 DEF IsDir, All
  <1>3. in = {d, Master}
    BY <1>1 DEF Sharers
  <1>4. /\ IsMem(n) /\ T \in All /\ n.free = m.free \ {T} /\ n.broken = (m.broken \/ T = 0 \/ KernelHas(m, v))
        /\ RoleSet(m, n, T, TableRole(v))
        /\ DirsSet(m, n, in, i, T) /\ TableNew(m, n, T, q, f)
    <2>1. i \notin DOMAIN m.pd[d]
      BY <1>1
    <2>2. n.broken = (m.broken \/ T = 0 \/ KernelHas(m, v))
      BY <1>1, <1>3a, <2>1, MapPageNew
    <2>3. /\ IsMem(n) /\ T \in All /\ n.free = m.free \ {T}
          /\ RoleSet(m, n, T, TableRole(v))
          /\ DirsSet(m, n, in, i, T) /\ TableNew(m, n, T, q, f)
      BY <1>1, <1>3a, <2>1, MapPageNew
    <2> QED BY <2>2, <2>3
  <1>5. T \in m.free /\ T \in Frames /\ T # f
    <2>1. T # 0
      BY <1>4
    <2> QED BY <1>1, <2>1, AllocIs DEF IsMem
  <1>6. \A x \in All : n.role[x] = IF x = T THEN "heap" ELSE m.role[x]
    BY <1>4 DEF RoleSet, TableRole
  <1>7. /\ DOMAIN n.pt[T] = {q} /\ n.pt[T][q] = f
        /\ \A x \in All \ {T} : n.pt[x] = m.pt[x]
    BY <1>4 DEF TableNew
  <1>8. /\ DOMAIN n.pd[Master] = DOMAIN m.pd[Master] \cup {i} /\ n.pd[Master][i] = T
        /\ \A j \in DOMAIN m.pd[Master] : j # i /\ n.pd[Master][j] = m.pd[Master][j]
    BY <1>1, <1>2, <1>3, <1>3a, <1>4 DEF DirsSet
  <1>9. PICK G : G = InUse(m, {f})
    OBVIOUS
  <1>10. Within(m, ts, h, G) /\ G \subseteq Frames /\ T \notin G /\ f \notin G
    BY <1>5, <1>9 DEF Core, InUse
  <1>11. InUse(n, {}) = G \cup {f, T}
    BY <1>4, <1>5, <1>9 DEF InUse
  <1>12. \A x \in G : n.role[x] = m.role[x] /\ n.pt[x] = m.pt[x] /\ x \in All
    BY <1>6, <1>7, <1>10 DEF All
  <1>13. ASSUME NEW t \in DOMAIN ts
         PROVE  /\ Own(n, ts, t) = Own(m, ts, t)
                /\ DOMAIN Pd(m, ts, t) \subseteq DOMAIN Pd(n, ts, t)
                /\ \A j \in DOMAIN Pd(m, ts, t) : j # i /\ Pd(n, ts, t)[j] = Pd(m, ts, t)[j]
                /\ \A j \in DOMAIN Pd(n, ts, t) \ DOMAIN Pd(m, ts, t) : j = i /\ Pd(n, ts, t)[j] = T
    <2>0. \A j \in DOMAIN m.pd[ts[t].cr3] : j # i
      BY <1>1 DEF Core, Shared, Pd
    <2>1. CASE ts[t].cr3 = d
      <3>1. /\ DOMAIN n.pd[d] = DOMAIN m.pd[d] \cup {i} /\ n.pd[d][i] = T
            /\ \A j \in DOMAIN m.pd[d] : n.pd[d][j] = m.pd[d][j]
        BY <1>1, <1>3, <1>3a, <1>4 DEF DirsSet
      <3>2. ~(i < 3)
        BY <1>1, Division
      <3> QED BY <2>0, <2>1, <3>1, <3>2 DEF Own, Pd
    <2>2. CASE ts[t].cr3 # d
      <3>1. n.pd[ts[t].cr3] = m.pd[ts[t].cr3]
        BY <1>2, <1>3, <1>3a, <1>4, <2>2 DEF DirsSet
      <3> QED BY <2>0, <3>1 DEF Own, Pd
    <2> QED BY <2>1, <2>2
  <1>14. \A t \in DOMAIN ts : \A j \in Own(m, ts, t) : Pd(n, ts, t)[j] = Pd(m, ts, t)[j] /\ Pd(m, ts, t)[j] \in G
    BY <1>10, <1>13 DEF Own, Within
  <1>15. Shared(n, ts, g)
    <2>1. DOMAIN n.pd[Master] = {PdeOf(w) : w \in DOMAIN g.at}
      BY <1>1, <1>8 DEF Core, Shared
    <2>2. ASSUME NEW w \in DOMAIN g.at
          PROVE  LET tab == n.pt[n.pd[Master][PdeOf(w)]]
                 IN PteOf(w) \in DOMAIN tab /\ tab[PteOf(w)] = g.at[w]
      <3>1. CASE w = v
        BY <1>1, <1>7, <1>8, <3>1
      <3>2. CASE w # v
        <4>1. w \in DOMAIN h.at /\ PdeOf(w) \in DOMAIN m.pd[Master]
          BY <1>2, <3>2
        <4>2. m.pd[Master][PdeOf(w)] \in G
          BY <1>10, <4>1 DEF Within
        <4>3. n.pt[n.pd[Master][PdeOf(w)]] = m.pt[m.pd[Master][PdeOf(w)]]
          BY <1>8, <1>12, <4>1, <4>2
        <4> QED BY <4>1, <4>3 DEF Core, Shared
      <3> QED BY <3>1, <3>2
    <2>3. ASSUME NEW t \in DOMAIN ts
          PROVE  /\ 3 \in DOMAIN Pd(n, ts, t)
                 /\ \A j \in DOMAIN Pd(n, ts, t) :
                      j >= 3 => j \in DOMAIN n.pd[Master] /\ Pd(n, ts, t)[j] = n.pd[Master][j]
      <3>1. /\ 3 \in DOMAIN Pd(m, ts, t)
            /\ \A j \in DOMAIN Pd(m, ts, t) :
                 j >= 3 => j \in DOMAIN m.pd[Master] /\ Pd(m, ts, t)[j] = m.pd[Master][j]
        BY DEF Core, Shared
      <3> QED BY <1>8, <1>13, <3>1
    <2> QED BY <2>1, <2>2, <2>3 DEF Shared
  <1>16. Placed(n, ts)
    <2>1. \A t \in DOMAIN ts : \A j \in Own(m, ts, t) : n.pt[Pd(n, ts, t)[j]] = m.pt[Pd(m, ts, t)[j]]
      BY <1>12, <1>14
    <2> QED BY <1>2, <1>13, <2>1 DEF Core, Placed
  <1>17. Roles(n, ts, g)
    <2>1. \A t \in DOMAIN ts :
            /\ n.role[ts[t].cr3] = "dir" /\ n.role[ts[t].stack] = "stack"
            /\ \A j \in Own(n, ts, t) : n.role[Pd(n, ts, t)[j]] = "table"
            /\ \A j \in DOMAIN ts[t].code : n.role[ts[t].code[j]] = "code"
      BY <1>10, <1>12, <1>13, <1>14 DEF Core, Roles, Within
    <2>2. \A j \in DOMAIN n.pd[Master] : n.role[n.pd[Master][j]] = "heap"
      BY <1>4, <1>6, <1>8, <1>10, <1>12 DEF Core, Roles, Within
    <2>3. \A w \in DOMAIN g.at : n.role[g.at[w]] = "heap"
      BY <1>3a, <1>6, <1>10, <1>12 DEF Core, Roles, Within
    <2> QED BY <2>1, <2>2, <2>3 DEF Roles
  <1>18. Within(n, ts, g, G \cup {f, T})
    BY <1>8, <1>10, <1>13, <1>14 DEF Within
  <1>19. Distinct(n, ts, g)
    <2>1. \A t, u \in DOMAIN ts :
            /\ ts[t].cr3 = ts[u].cr3 => t = u
            /\ ts[t].stack = ts[u].stack => t = u
            /\ \A j \in Own(n, ts, t), k \in Own(n, ts, u) : Pd(n, ts, t)[j] = Pd(n, ts, u)[k] => t = u /\ j = k
            /\ \A j \in DOMAIN ts[t].code, k \in DOMAIN ts[u].code :
                 ts[t].code[j] = ts[u].code[k] => t = u /\ j = k
      BY <1>13, <1>14 DEF Core, Distinct
    <2>2. /\ \A w \in DOMAIN h.at : h.at[w] \in G
          /\ \A j \in DOMAIN m.pd[Master] : m.pd[Master][j] \in G
      BY <1>10 DEF Within
    <2>3. \A j, k \in DOMAIN n.pd[Master] : n.pd[Master][j] = n.pd[Master][k] => j = k
      BY <1>8, <1>10, <2>2 DEF Core, Distinct
    <2>4. \A w, x \in DOMAIN g.at : g.at[w] = g.at[x] => w = x
      BY <1>10, <2>2 DEF Core, Distinct
    <2>5. \A w \in DOMAIN g.at, j \in DOMAIN n.pd[Master] : g.at[w] # n.pd[Master][j]
      BY <1>5, <1>8, <1>10, <2>2 DEF Core, Distinct
    <2> QED BY <2>1, <2>3, <2>4, <2>5 DEF Distinct
  <1>20. ASSUME Found(m, ts, h, InUse(m, {f})) PROVE Found(n, ts, g, G \cup {f, T})
    <2>1. Found(m, ts, h, G)
      BY <1>9, <1>20
    <2>2. ASSUME NEW x \in G
          PROVE  /\ n.role[x] \in {"dir", "stack", "table", "code", "heap"}
                 /\ n.role[x] = "dir" => \E t \in DOMAIN ts : x = ts[t].cr3
                 /\ n.role[x] = "stack" => \E t \in DOMAIN ts : x = ts[t].stack
                 /\ n.role[x] = "heap" => \/ \E j \in DOMAIN n.pd[Master] : x = n.pd[Master][j]
                                          \/ \E w \in DOMAIN g.at : x = g.at[w]
      <3>2. /\ n.role[x] \in {"dir", "stack", "table", "code", "heap"}
            /\ n.role[x] = "dir" => \E t \in DOMAIN ts : x = ts[t].cr3
            /\ n.role[x] = "stack" => \E t \in DOMAIN ts : x = ts[t].stack
            /\ n.role[x] = "heap" => \/ \E j \in DOMAIN m.pd[Master] : x = m.pd[Master][j]
                                     \/ \E w \in DOMAIN h.at : x = h.at[w]
        BY <1>12, <2>1 DEF Found
      <3> QED BY <1>8, <3>2
    <2>3. v \in DOMAIN g.at /\ f = g.at[v] /\ n.role[f] = "heap"
      BY <1>3a, <1>5, <1>6
    <2>4. i \in DOMAIN n.pd[Master] /\ T = n.pd[Master][i] /\ n.role[T] = "heap"
      BY <1>4, <1>6, <1>8
    <2> QED BY <2>2, <2>3, <2>4 DEF Found
  <1> QED BY <1>9, <1>11, <1>15, <1>16, <1>17, <1>18, <1>19, <1>20 DEF Core

\* exec makes directory d, enters the stack s in it, and adds the task.
LEMMA ExecCore ==
  ASSUME NEW m, IsMem(m), NEW ts, IsTasks(ts), NEW h, NEW s \in Frames, Core(m, ts, h, {s}),
         DOMAIN h.at \subseteq Nat, \A w \in DOMAIN h.at : PdeOf(w) >= 3, 3 \in DOMAIN m.pd[Master],
         s \notin m.free, m.role[s] = "stack",
         NEW d \in m.free, NEW c, c = CreateDirectory(m, d), NEW n, n = MapPage(c, d, StackPage, s), ~n.broken,
         NEW t, t \notin DOMAIN ts, NEW us, DOMAIN us = DOMAIN ts \cup {t}, \A u \in DOMAIN ts : us[u] = ts[u],
         us[t].cr3 = d, us[t].stack = s, DOMAIN us[t].code = {}
  PROVE  /\ Core(n, us, h, {})
         /\ Found(m, ts, h, InUse(m, {s})) => Found(n, us, h, InUse(n, {}))
  <1>1. PICK T, in : T = Alloc(c) /\ in = Sharers(d, StackPage)
    OBVIOUS
  <1>2. /\ Master \in All /\ \A u \in DOMAIN ts : ts[u].cr3 \in All /\ ts[u].cr3 # Master
        /\ \A j \in DOMAIN m.pd[Master] : j \in Nat /\ j >= 3 /\ m.pd[Master][j] \in All
        /\ \A w \in DOMAIN h.at : PdeOf(w) \in DOMAIN m.pd[Master]
        /\ \A u \in DOMAIN ts : \A j \in Own(m, ts, u) : j \in Nat /\ j < 3 /\ Pd(m, ts, u)[j] \in All
        /\ \A u \in DOMAIN ts : 2 \in Own(m, ts, u)
        /\ \A u \in DOMAIN ts : DOMAIN ts[u].code # {} => 1 \in Own(m, ts, u)
    BY CoreIs
  <1>3. d \in Frames /\ d \in All /\ s \in All /\ d # Master /\ d # s
    BY VMMAssumption DEF IsMem, All, Master, Frames
  <1>4. /\ IsMem(c) /\ c.free = m.free \ {d} /\ c.pt = m.pt
        /\ \A x \in All : c.role[x] = IF x = d THEN "dir" ELSE m.role[x]
        /\ \A x \in All \ {d} : c.pd[x] = m.pd[x]
        /\ DOMAIN c.pd[d] = {j \in DOMAIN m.pd[Master] : j >= 3}
        /\ \A j \in DOMAIN c.pd[d] : c.pd[d][j] = m.pd[Master][j]
    BY <1>3, CreateIs
  <1>5. /\ DOMAIN c.pd[d] = DOMAIN m.pd[Master] /\ 2 \notin DOMAIN c.pd[d]
        /\ \A j \in DOMAIN m.pd[Master] : c.pd[d][j] = m.pd[Master][j]
    BY <1>2, <1>4
  <1>6. n.broken = (c.broken \/ T = 0 \/ KernelHas(c, StackPage)) /\ IsMem(n) /\ T \in All /\ n.free = c.free \ {T}
        /\ RoleSet(c, n, T, TableRole(StackPage))
        /\ DirsSet(c, n, in, 2, T) /\ TableNew(c, n, T, PtSize - 1, s)
    <2>1. StackPage \in Nat /\ 2 = PdeOf(StackPage) /\ PtSize - 1 = PteOf(StackPage)
      BY Places
    <2>2. PICK i, q : i = PdeOf(StackPage) /\ q = PteOf(StackPage)
      OBVIOUS
    <2>3. i = 2 /\ q = PtSize - 1
      BY <2>1, <2>2
    <2>6. i \notin DOMAIN c.pd[d]
      BY <1>5, <2>3
    <2>7. IsMem(c) /\ d \in All /\ s \in All /\ StackPage \in Nat
      BY <1>3, <1>4, <2>1
    <2>4. n.broken = (c.broken \/ T = 0 \/ KernelHas(c, StackPage))
      BY <1>1, <2>2, <2>6, <2>7, MapPageNew
    <2>5. /\ IsMem(n) /\ T \in All /\ n.free = c.free \ {T}
          /\ RoleSet(c, n, T, TableRole(StackPage))
          /\ DirsSet(c, n, in, i, T) /\ TableNew(c, n, T, q, s)
      BY <1>1, <2>2, <2>6, <2>7, MapPageNew
    <2> QED BY <2>3, <2>4, <2>5
  <1>7. T \in m.free /\ T \in Frames /\ T # d /\ T # s
    <2>1. T # 0
      BY <1>6
    <2>2. T \in c.free
      BY <1>1, <1>4, <2>1, AllocIs
    <2> QED BY <1>4, <2>2 DEF IsMem
  <1>8. \A x \in All : n.role[x] = IF x = T THEN "table" ELSE IF x = d THEN "dir" ELSE m.role[x]
    <2>1. TableRole(StackPage) = "table"
      BY Places DEF TableRole
    <2> QED BY <1>4, <1>6, <2>1 DEF RoleSet
  <1>9. /\ DOMAIN n.pt[T] = {PtSize - 1} /\ n.pt[T][PtSize - 1] = s
        /\ \A x \in All \ {T} : n.pt[x] = m.pt[x]
    BY <1>4, <1>6 DEF TableNew
  <1>10. in = {d}
    BY <1>1, Places DEF Sharers
  <1>11. /\ DOMAIN n.pd[d] = DOMAIN m.pd[Master] \cup {2} /\ n.pd[d][2] = T
         /\ \A j \in DOMAIN m.pd[Master] : n.pd[d][j] = m.pd[Master][j]
         /\ \A x \in All \ {d} : n.pd[x] = m.pd[x]
    BY <1>3, <1>4, <1>5, <1>6, <1>10 DEF DirsSet
  <1>12. n.pd[Master] = m.pd[Master]
    BY <1>2, <1>3, <1>11
  <1>13. PICK G : G = InUse(m, {s})
    OBVIOUS
  <1>14. Within(m, ts, h, G) /\ G \subseteq Frames /\ T \notin G /\ s \notin G /\ d \notin G
    BY <1>7, <1>13 DEF Core, InUse
  <1>15. InUse(n, {}) = G \cup {s, d, T}
    BY <1>3, <1>4, <1>6, <1>7, <1>13 DEF InUse
  <1>16. \A x \in G : n.role[x] = m.role[x] /\ n.pt[x] = m.pt[x] /\ x \in All
    BY <1>8, <1>9, <1>14 DEF All
  <1>17. \A u \in DOMAIN ts : u # t /\ Own(n, us, u) = Own(m, ts, u) /\ Pd(n, us, u) = Pd(m, ts, u)
    <2>1. \A u \in DOMAIN ts : ts[u].cr3 \in All \ {d}
      BY <1>2, <1>14 DEF Within
    <2>2. \A u \in DOMAIN ts : us[u] = ts[u] /\ u # t
      OBVIOUS
    <2> QED BY <1>11, <2>1, <2>2 DEF Own, Pd
  <1>18. Pd(n, us, t) = n.pd[d] /\ Own(n, us, t) = {2}
    <2>1. Pd(n, us, t) = n.pd[d]
      BY DEF Pd
    <2>2. \A j \in DOMAIN m.pd[Master] : ~(j < 3)
      BY <1>2
    <2> QED BY <1>11, <2>1, <2>2 DEF Own
  <1>19. \A u \in DOMAIN ts : \A j \in Own(m, ts, u) : Pd(m, ts, u)[j] \in G
    BY <1>14 DEF Within
  <1>20. Shared(n, us, h)
    <2>1. \A w \in DOMAIN h.at : m.pd[Master][PdeOf(w)] \in G
      BY <1>2, <1>14 DEF Within
    <2>2. ASSUME NEW w \in DOMAIN h.at
          PROVE  LET tab == n.pt[n.pd[Master][PdeOf(w)]]
                 IN PteOf(w) \in DOMAIN tab /\ tab[PteOf(w)] = h.at[w]
      <3>1. n.pt[n.pd[Master][PdeOf(w)]] = m.pt[m.pd[Master][PdeOf(w)]]
        BY <1>12, <1>16, <2>1
      <3> QED BY <3>1 DEF Core, Shared
    <2>3. \A u \in DOMAIN ts :
            /\ 3 \in DOMAIN Pd(n, us, u)
            /\ \A j \in DOMAIN Pd(n, us, u) :
                 j >= 3 => j \in DOMAIN n.pd[Master] /\ Pd(n, us, u)[j] = n.pd[Master][j]
      BY <1>12, <1>17 DEF Core, Shared
    <2>4. /\ 3 \in DOMAIN Pd(n, us, t)
          /\ \A j \in DOMAIN Pd(n, us, t) :
               j >= 3 => j \in DOMAIN n.pd[Master] /\ Pd(n, us, t)[j] = n.pd[Master][j]
      BY <1>11, <1>12, <1>18
    <2>5. DOMAIN n.pd[Master] = {PdeOf(w) : w \in DOMAIN h.at}
      BY <1>12 DEF Core, Shared
    <2> QED BY <2>2, <2>3, <2>4, <2>5 DEF Shared
  <1>21. Placed(n, us)
    <2>1. ASSUME NEW u \in DOMAIN ts
          PROVE  /\ 2 \in DOMAIN Pd(n, us, u)
                 /\ PtSize - 1 \in DOMAIN n.pt[Pd(n, us, u)[2]]
                 /\ n.pt[Pd(n, us, u)[2]][PtSize - 1] = us[u].stack
                 /\ \A i \in DOMAIN us[u].code :
                      /\ 1 \in DOMAIN Pd(n, us, u)
                      /\ i \in DOMAIN n.pt[Pd(n, us, u)[1]]
                      /\ n.pt[Pd(n, us, u)[1]][i] = us[u].code[i]
      <3>1. us[u] = ts[u]
        OBVIOUS
      <3>2. n.pt[Pd(m, ts, u)[2]] = m.pt[Pd(m, ts, u)[2]]
        BY <1>2, <1>16, <1>19
      <3>3. DOMAIN ts[u].code # {} => n.pt[Pd(m, ts, u)[1]] = m.pt[Pd(m, ts, u)[1]]
        BY <1>2, <1>16, <1>19
      <3> QED BY <1>17, <3>1, <3>2, <3>3 DEF Core, Placed
    <2>2. /\ 2 \in DOMAIN Pd(n, us, t)
          /\ PtSize - 1 \in DOMAIN n.pt[Pd(n, us, t)[2]]
          /\ n.pt[Pd(n, us, t)[2]][PtSize - 1] = us[t].stack
      BY <1>9, <1>11, <1>18
    <2> QED BY <2>1, <2>2 DEF Placed
  <1>22. Roles(n, us, h)
    <2>1. \A u \in DOMAIN ts :
            /\ n.role[us[u].cr3] = "dir" /\ n.role[us[u].stack] = "stack"
            /\ \A j \in Own(n, us, u) : n.role[Pd(n, us, u)[j]] = "table"
            /\ \A j \in DOMAIN us[u].code : n.role[us[u].code[j]] = "code"
      BY <1>14, <1>16, <1>17 DEF Core, Roles, Within
    <2>2. /\ n.role[us[t].cr3] = "dir" /\ n.role[us[t].stack] = "stack"
          /\ \A j \in Own(n, us, t) : n.role[Pd(n, us, t)[j]] = "table"
      BY <1>3, <1>6, <1>7, <1>8, <1>11, <1>18
    <2>3. /\ \A j \in DOMAIN n.pd[Master] : n.role[n.pd[Master][j]] = "heap"
          /\ \A w \in DOMAIN h.at : n.role[h.at[w]] = "heap"
      BY <1>12, <1>14, <1>16 DEF Core, Roles, Within
    <2> QED BY <2>1, <2>2, <2>3 DEF Roles
  <1>23. Within(n, us, h, G \cup {s, d, T})
    BY <1>11, <1>12, <1>14, <1>17, <1>18, <1>19 DEF Within
  <1>24. Distinct(n, us, h)
    <2>1. ASSUME NEW u \in DOMAIN us, NEW w \in DOMAIN us
          PROVE  /\ us[u].cr3 = us[w].cr3 => u = w
                 /\ us[u].stack = us[w].stack => u = w
                 /\ \A i \in Own(n, us, u), j \in Own(n, us, w) : Pd(n, us, u)[i] = Pd(n, us, w)[j] => u = w /\ i = j
                 /\ \A i \in DOMAIN us[u].code, j \in DOMAIN us[w].code :
                      us[u].code[i] = us[w].code[j] => u = w /\ i = j
      <3>1. CASE u # t /\ w # t
        BY <1>17, <3>1 DEF Core, Distinct
      <3>2. CASE u = t /\ w # t
        <4>1. us[w].cr3 \in G /\ us[w].stack \in G /\ \A j \in Own(n, us, w) : Pd(n, us, w)[j] \in G
          BY <1>14, <1>17, <3>2 DEF Within
        <4> QED BY <1>11, <1>14, <1>18, <3>2, <4>1
      <3>3. CASE u # t /\ w = t
        <4>1. us[u].cr3 \in G /\ us[u].stack \in G /\ \A j \in Own(n, us, u) : Pd(n, us, u)[j] \in G
          BY <1>14, <1>17, <3>3 DEF Within
        <4> QED BY <1>11, <1>14, <1>18, <3>3, <4>1
      <3>4. CASE u = t /\ w = t
        BY <1>18, <3>4
      <3> QED BY <3>1, <3>2, <3>3, <3>4
    <2>2. /\ \A i, j \in DOMAIN n.pd[Master] : n.pd[Master][i] = n.pd[Master][j] => i = j
          /\ \A v, w \in DOMAIN h.at : h.at[v] = h.at[w] => v = w
          /\ \A v \in DOMAIN h.at, i \in DOMAIN n.pd[Master] : h.at[v] # n.pd[Master][i]
      BY <1>12 DEF Core, Distinct
    <2> QED BY <2>1, <2>2 DEF Distinct
  <1>25. ASSUME Found(m, ts, h, InUse(m, {s})) PROVE Found(n, us, h, G \cup {s, d, T})
    <2>1. Found(m, ts, h, G)
      BY <1>13, <1>25
    <2>2. ASSUME NEW x \in G
          PROVE  /\ n.role[x] \in {"dir", "stack", "table", "code", "heap"}
                 /\ n.role[x] = "dir" => \E u \in DOMAIN us : x = us[u].cr3
                 /\ n.role[x] = "stack" => \E u \in DOMAIN us : x = us[u].stack
                 /\ n.role[x] = "heap" => \/ \E j \in DOMAIN n.pd[Master] : x = n.pd[Master][j]
                                          \/ \E w \in DOMAIN h.at : x = h.at[w]
      BY <1>12, <1>16, <2>1 DEF Found
    <2>3. t \in DOMAIN us /\ s = us[t].stack /\ n.role[s] = "stack" /\ d = us[t].cr3 /\ n.role[d] = "dir"
          /\ n.role[T] = "table"
      BY <1>3, <1>6, <1>7, <1>8
    <2> QED BY <2>2, <2>3 DEF Found
  <1> QED BY <1>13, <1>15, <1>20, <1>21, <1>22, <1>23, <1>24, <1>25 DEF Core

\* exec enters a page of code, in a table that is there.
LEMMA CodeOld ==
  ASSUME NEW m, IsMem(m), NEW ts, IsTasks(ts), NEW h, NEW f \in Frames, Core(m, ts, h, {f}),
         DOMAIN h.at \subseteq Nat, \A w \in DOMAIN h.at : PdeOf(w) >= 3,
         f \notin m.free, m.role[f] = "code",
         NEW t \in DOMAIN ts, NEW d, d = ts[t].cr3, NEW i \in 0..(PtSize - 1), i \notin DOMAIN ts[t].code,
         1 \in DOMAIN m.pd[d],
         NEW n, n = MapPage(m, d, CodeStart + i, f),
         NEW us, DOMAIN us = DOMAIN ts, \A u \in DOMAIN ts \ {t} : us[u] = ts[u],
         us[t].cr3 = ts[t].cr3, us[t].stack = ts[t].stack, DOMAIN us[t].code = DOMAIN ts[t].code \cup {i},
         us[t].code[i] = f, \A j \in DOMAIN ts[t].code : us[t].code[j] = ts[t].code[j]
  PROVE  /\ Core(n, us, h, {})
         /\ Found(m, ts, h, InUse(m, {f})) => Found(n, us, h, InUse(n, {}))
  <1>2. /\ Master \in All /\ \A u \in DOMAIN ts : ts[u].cr3 \in All /\ ts[u].cr3 # Master
        /\ \A j \in DOMAIN m.pd[Master] : j \in Nat /\ j >= 3 /\ m.pd[Master][j] \in All
        /\ \A w \in DOMAIN h.at : PdeOf(w) \in DOMAIN m.pd[Master]
        /\ \A u \in DOMAIN ts : \A j \in Own(m, ts, u) : j \in Nat /\ j < 3 /\ Pd(m, ts, u)[j] \in All
        /\ \A u \in DOMAIN ts : \A j \in DOMAIN Pd(m, ts, u) : j \in Nat /\ (j < 3 => j \in Own(m, ts, u))
        /\ \A u \in DOMAIN ts : 2 \in Own(m, ts, u)
        /\ \A u \in DOMAIN ts : DOMAIN ts[u].code # {} => 1 \in Own(m, ts, u)
    BY CoreIs
  <1>3. d \in All /\ f \in All /\ d # Master
    BY <1>2 DEF All
  <1>4. PICK v \in Nat : v = CodeStart + i
    BY Places
  <1>5. PICK p, q : p = PdeOf(v) /\ q = PteOf(v)
    OBVIOUS
  <1>6. p = 1 /\ q = i /\ v < HeapStart
    BY <1>4, <1>5, Places
  <1>7. PICK T : T = m.pd[d][1]
    OBVIOUS
  <1>8. IsMem(n) /\ T \in All /\ TableSet(m, n, T, q, f)
        /\ n.free = m.free /\ n.pd = m.pd /\ n.role = m.role
    <2>1. p \in DOMAIN m.pd[d] /\ T = m.pd[d][p] /\ n = MapPage(m, d, v, f)
      BY <1>4, <1>6, <1>7
    <2> QED BY <1>3, <1>5, <2>1, MapPageOld
  <1>9. /\ DOMAIN n.pt[T] = DOMAIN m.pt[T] \cup {i} /\ n.pt[T][i] = f
        /\ \A j \in DOMAIN m.pt[T] \ {i} : n.pt[T][j] = m.pt[T][j]
        /\ \A x \in All \ {T} : n.pt[x] = m.pt[x]
    BY <1>6, <1>8 DEF TableSet
  <1>10. 1 \in Own(m, ts, t) /\ T = Pd(m, ts, t)[1]
    BY <1>2, <1>7 DEF Pd
  <1>11. m.role[T] = "table"
    BY <1>10 DEF Core, Roles
  <1>12. \A j \in DOMAIN m.pd[Master] : n.pt[m.pd[Master][j]] = m.pt[m.pd[Master][j]]
    BY <1>2, <1>9, <1>11 DEF Core, Roles
  <1>13. \A u \in DOMAIN ts : us[u].cr3 = ts[u].cr3 /\ us[u].stack = ts[u].stack
    OBVIOUS
  <1>14. \A u \in DOMAIN ts : Own(n, us, u) = Own(m, ts, u) /\ Pd(n, us, u) = Pd(m, ts, u)
    BY <1>8, <1>13 DEF Own, Pd
  <1>15. \A u \in DOMAIN ts : \A j \in Own(m, ts, u) :
           u # t \/ j # 1 => n.pt[Pd(m, ts, u)[j]] = m.pt[Pd(m, ts, u)[j]]
    BY <1>2, <1>9, <1>10 DEF Core, Distinct
  <1>16. Shared(n, us, h)
    <2>1. DOMAIN n.pd[Master] = {PdeOf(w) : w \in DOMAIN h.at}
      BY <1>8 DEF Core, Shared
    <2>2. \A u \in DOMAIN us :
            /\ 3 \in DOMAIN Pd(n, us, u)
            /\ \A j \in DOMAIN Pd(n, us, u) :
                 j >= 3 => j \in DOMAIN n.pd[Master] /\ Pd(n, us, u)[j] = n.pd[Master][j]
      BY <1>8, <1>14 DEF Core, Shared
    <2>3. ASSUME NEW w \in DOMAIN h.at
          PROVE  LET tab == n.pt[n.pd[Master][PdeOf(w)]]
                 IN PteOf(w) \in DOMAIN tab /\ tab[PteOf(w)] = h.at[w]
      <3>1. n.pt[n.pd[Master][PdeOf(w)]] = m.pt[m.pd[Master][PdeOf(w)]]
        BY <1>2, <1>8, <1>12
      <3> QED BY <3>1 DEF Core, Shared
    <2> QED BY <2>1, <2>2, <2>3 DEF Shared
  <1>17. Placed(n, us)
    <2>1. ASSUME NEW u \in DOMAIN ts
          PROVE  /\ 2 \in DOMAIN Pd(n, us, u)
                 /\ PtSize - 1 \in DOMAIN n.pt[Pd(n, us, u)[2]]
                 /\ n.pt[Pd(n, us, u)[2]][PtSize - 1] = us[u].stack
      <3>1. n.pt[Pd(m, ts, u)[2]] = m.pt[Pd(m, ts, u)[2]]
        BY <1>2, <1>15
      <3> QED BY <1>13, <1>14, <3>1 DEF Core, Placed
    <2>2. ASSUME NEW u \in DOMAIN ts, u # t, NEW j \in DOMAIN us[u].code
          PROVE  /\ 1 \in DOMAIN Pd(n, us, u)
                 /\ j \in DOMAIN n.pt[Pd(n, us, u)[1]]
                 /\ n.pt[Pd(n, us, u)[1]][j] = us[u].code[j]
      <3>1. us[u] = ts[u]
        BY <2>2
      <3>2. n.pt[Pd(m, ts, u)[1]] = m.pt[Pd(m, ts, u)[1]]
        BY <1>2, <1>15, <2>2, <3>1
      <3> QED BY <1>14, <3>1, <3>2 DEF Core, Placed
    <2>3. ASSUME NEW j \in DOMAIN us[t].code
          PROVE  /\ 1 \in DOMAIN Pd(n, us, t)
                 /\ j \in DOMAIN n.pt[Pd(n, us, t)[1]]
                 /\ n.pt[Pd(n, us, t)[1]][j] = us[t].code[j]
      <3>1. 1 \in DOMAIN Pd(n, us, t) /\ Pd(n, us, t)[1] = T
        BY <1>10, <1>14 DEF Own
      <3>2. CASE j = i
        BY <1>9, <3>1, <3>2
      <3>3. CASE j # i
        <4>1. j \in DOMAIN ts[t].code /\ us[t].code[j] = ts[t].code[j]
          BY <3>3
        <4>2. j \in DOMAIN m.pt[T] /\ m.pt[T][j] = ts[t].code[j]
          BY <1>10, <4>1 DEF Core, Placed
        <4> QED BY <1>9, <3>1, <3>3, <4>1, <4>2
      <3> QED BY <3>2, <3>3
    <2> QED BY <2>1, <2>2, <2>3 DEF Placed
  <1>18. PICK G : G = InUse(m, {f})
    OBVIOUS
  <1>19. Within(m, ts, h, G) /\ f \notin G /\ InUse(n, {}) = G \cup {f}
    BY <1>8, <1>18 DEF Core, InUse
  <1>20. Roles(n, us, h)
    BY <1>8, <1>13, <1>14 DEF Core, Roles
  <1>21. Within(n, us, h, G \cup {f})
    BY <1>8, <1>13, <1>14, <1>19 DEF Within
  <1>22. Distinct(n, us, h)
    <2>1. ASSUME NEW u \in DOMAIN us, NEW w \in DOMAIN us
          PROVE  /\ us[u].cr3 = us[w].cr3 => u = w
                 /\ us[u].stack = us[w].stack => u = w
      BY <1>13 DEF Core, Distinct
    <2>2. ASSUME NEW u \in DOMAIN us, NEW w \in DOMAIN us, NEW j \in Own(n, us, u), NEW k \in Own(n, us, w),
                 Pd(n, us, u)[j] = Pd(n, us, w)[k]
          PROVE  u = w /\ j = k
      BY <1>14, <2>2 DEF Core, Distinct
    <2>3. ASSUME NEW u \in DOMAIN us, NEW w \in DOMAIN us, NEW j \in DOMAIN us[u].code,
                 NEW k \in DOMAIN us[w].code, us[u].code[j] = us[w].code[k]
          PROVE  u = w /\ j = k
      <3>1. \A x \in DOMAIN ts : \A l \in DOMAIN us[x].code :
              \/ x = t /\ l = i /\ us[x].code[l] = f
              \/ l \in DOMAIN ts[x].code /\ us[x].code[l] = ts[x].code[l] /\ us[x].code[l] # f
        BY <1>19 DEF Within
      <3>2. CASE us[u].code[j] = f
        <4>1. u = t /\ j = i
          BY <3>1, <3>2
        <4>2. us[w].code[k] = f
          BY <2>3, <3>2
        <4>3. w = t /\ k = i
          BY <3>1, <4>2
        <4> QED BY <4>1, <4>3
      <3>3. CASE us[u].code[j] # f
        <4>1. j \in DOMAIN ts[u].code /\ k \in DOMAIN ts[w].code /\ ts[u].code[j] = ts[w].code[k]
          BY <2>3, <3>1, <3>3
        <4> QED BY <4>1 DEF Core, Distinct
      <3> QED BY <3>2, <3>3
    <2>4. /\ \A j, k \in DOMAIN n.pd[Master] : n.pd[Master][j] = n.pd[Master][k] => j = k
          /\ \A v1, w \in DOMAIN h.at : h.at[v1] = h.at[w] => v1 = w
          /\ \A v1 \in DOMAIN h.at, j \in DOMAIN n.pd[Master] : h.at[v1] # n.pd[Master][j]
      BY <1>8 DEF Core, Distinct
    <2> QED BY <2>1, <2>2, <2>3, <2>4 DEF Distinct
  <1>23. ASSUME Found(m, ts, h, InUse(m, {f})) PROVE Found(n, us, h, InUse(n, {}))
    <2>1. Found(m, ts, h, G)
      BY <1>18, <1>23
    <2>2. ASSUME NEW x \in G
          PROVE  /\ n.role[x] \in {"dir", "stack", "table", "code", "heap"}
                 /\ n.role[x] = "dir" => \E u \in DOMAIN us : x = us[u].cr3
                 /\ n.role[x] = "stack" => \E u \in DOMAIN us : x = us[u].stack
                 /\ n.role[x] = "heap" => \/ \E j \in DOMAIN n.pd[Master] : x = n.pd[Master][j]
                                          \/ \E w \in DOMAIN h.at : x = h.at[w]
      <3>1. /\ n.role[x] \in {"dir", "stack", "table", "code", "heap"}
            /\ n.role[x] = "dir" => \E u \in DOMAIN ts : x = ts[u].cr3
            /\ n.role[x] = "stack" => \E u \in DOMAIN ts : x = ts[u].stack
            /\ n.role[x] = "heap" => \/ \E j \in DOMAIN m.pd[Master] : x = m.pd[Master][j]
                                     \/ \E w \in DOMAIN h.at : x = h.at[w]
        BY <1>8, <2>1 DEF Found
      <3> QED BY <1>8, <1>13, <3>1
    <2>3. n.role[f] = "code"
      BY <1>8
    <2>4. Found(n, us, h, G \cup {f})
      BY <2>2, <2>3 DEF Found
    <2> QED BY <1>19, <2>4
  <1> QED BY <1>16, <1>17, <1>18, <1>19, <1>20, <1>21, <1>22, <1>23 DEF Core

\* exec enters the first page of code, in a new table.
LEMMA CodeNew ==
  ASSUME NEW m, IsMem(m), NEW ts, IsTasks(ts), NEW h, NEW f \in Frames, Core(m, ts, h, {f}),
         DOMAIN h.at \subseteq Nat, \A w \in DOMAIN h.at : PdeOf(w) >= 3,
         f \notin m.free, m.role[f] = "code",
         NEW t \in DOMAIN ts, NEW d, d = ts[t].cr3, NEW i \in 0..(PtSize - 1), i \notin DOMAIN ts[t].code,
         1 \notin DOMAIN m.pd[d],
         NEW n, n = MapPage(m, d, CodeStart + i, f), ~n.broken,
         NEW us, DOMAIN us = DOMAIN ts, \A u \in DOMAIN ts \ {t} : us[u] = ts[u],
         us[t].cr3 = ts[t].cr3, us[t].stack = ts[t].stack, DOMAIN us[t].code = DOMAIN ts[t].code \cup {i},
         us[t].code[i] = f, \A j \in DOMAIN ts[t].code : us[t].code[j] = ts[t].code[j]
  PROVE  /\ Core(n, us, h, {})
         /\ Found(m, ts, h, InUse(m, {f})) => Found(n, us, h, InUse(n, {}))
  <1>2. /\ Master \in All /\ \A u \in DOMAIN ts : ts[u].cr3 \in All /\ ts[u].cr3 # Master
        /\ \A j \in DOMAIN m.pd[Master] : j \in Nat /\ j >= 3 /\ m.pd[Master][j] \in All
        /\ \A w \in DOMAIN h.at : PdeOf(w) \in DOMAIN m.pd[Master]
        /\ \A u \in DOMAIN ts : \A j \in Own(m, ts, u) : j \in Nat /\ j < 3 /\ Pd(m, ts, u)[j] \in All
        /\ \A u \in DOMAIN ts : \A j \in DOMAIN Pd(m, ts, u) : j \in Nat /\ (j < 3 => j \in Own(m, ts, u))
        /\ \A u \in DOMAIN ts : 2 \in Own(m, ts, u)
        /\ \A u \in DOMAIN ts : DOMAIN ts[u].code # {} => 1 \in Own(m, ts, u)
    BY CoreIs
  <1>3. d \in All /\ f \in All /\ d # Master
    BY <1>2 DEF All
  <1>4. PICK v \in Nat : v = CodeStart + i
    BY Places
  <1>5. PICK p, q : p = PdeOf(v) /\ q = PteOf(v)
    OBVIOUS
  <1>6. p = 1 /\ q = i /\ v < HeapStart
    BY <1>4, <1>5, Places
  <1>7. PICK T, in : T = Alloc(m) /\ in = Sharers(d, v)
    OBVIOUS
  <1>8. n.broken = (m.broken \/ T = 0 \/ KernelHas(m, v)) /\ IsMem(n) /\ T \in All /\ n.free = m.free \ {T}
        /\ RoleSet(m, n, T, TableRole(v)) /\ DirsSet(m, n, in, p, T) /\ TableNew(m, n, T, q, f)
    <2>1. p \notin DOMAIN m.pd[d]
      BY <1>6
    <2>2. n = MapPage(m, d, v, f)
      BY <1>4
    <2>3. n.broken = (m.broken \/ T = 0 \/ KernelHas(m, v))
      BY <1>3, <1>5, <1>7, <2>1, <2>2, MapPageNew
    <2>4. /\ IsMem(n) /\ T \in All /\ n.free = m.free \ {T}
          /\ RoleSet(m, n, T, TableRole(v)) /\ DirsSet(m, n, in, p, T) /\ TableNew(m, n, T, q, f)
      BY <1>3, <1>5, <1>7, <2>1, <2>2, MapPageNew
    <2> QED BY <2>3, <2>4
  <1>9. T \in m.free /\ T \in Frames /\ T # f
    <2>1. T # 0
      BY <1>8
    <2> QED BY <1>7, <2>1, AllocIs DEF IsMem
  <1>10. \A x \in All : n.role[x] = IF x = T THEN "table" ELSE m.role[x]
    <2>1. TableRole(v) = "table"
      BY <1>6, Places DEF TableRole
    <2> QED BY <1>8, <2>1 DEF RoleSet
  <1>11. /\ DOMAIN n.pt[T] = {i} /\ n.pt[T][i] = f
         /\ \A x \in All \ {T} : n.pt[x] = m.pt[x]
    BY <1>6, <1>8 DEF TableNew
  <1>12. in = {d}
    BY <1>6, <1>7, Places DEF Sharers
  <1>13. \A u \in DOMAIN ts : us[u].cr3 = ts[u].cr3 /\ us[u].stack = ts[u].stack
    OBVIOUS
  <1>14. /\ DOMAIN n.pd[d] = DOMAIN m.pd[d] \cup {1} /\ n.pd[d][1] = T
         /\ \A j \in DOMAIN m.pd[d] : j # 1 /\ n.pd[d][j] = m.pd[d][j]
         /\ \A x \in All \ {d} : n.pd[x] = m.pd[x]
    BY <1>3, <1>6, <1>8, <1>12 DEF DirsSet
  <1>15. n.pd[Master] = m.pd[Master] /\ DOMAIN ts[t].code = {}
    <2>1. 1 \notin Own(m, ts, t)
      BY DEF Own, Pd
    <2> QED BY <1>2, <1>3, <1>14, <2>1
  <1>18. PICK G : G = InUse(m, {f})
    OBVIOUS
  <1>19. Within(m, ts, h, G) /\ f \notin G /\ T \notin G /\ G \subseteq Frames
    BY <1>9, <1>18 DEF Core, InUse
  <1>24. InUse(n, {}) = G \cup {f, T}
    BY <1>8, <1>9, <1>18 DEF InUse
  <1>25. \A x \in G : n.role[x] = m.role[x] /\ n.pt[x] = m.pt[x] /\ x \in All
    BY <1>10, <1>11, <1>19 DEF All
  <1>26. \A u \in DOMAIN ts \ {t} : Own(n, us, u) = Own(m, ts, u) /\ Pd(n, us, u) = Pd(m, ts, u)
    <2>1. \A u \in DOMAIN ts \ {t} : ts[u].cr3 \in All \ {d}
      BY <1>2 DEF Core, Distinct
    <2> QED BY <1>13, <1>14, <2>1 DEF Own, Pd
  <1>27. /\ Own(n, us, t) = Own(m, ts, t) \cup {1} /\ 1 \notin Own(m, ts, t) /\ Pd(n, us, t)[1] = T
         /\ DOMAIN Pd(n, us, t) = DOMAIN Pd(m, ts, t) \cup {1}
         /\ \A j \in DOMAIN Pd(m, ts, t) : j # 1 /\ Pd(n, us, t)[j] = Pd(m, ts, t)[j]
    BY <1>14 DEF Own, Pd
  <1>28. \A u \in DOMAIN ts : \A j \in Own(m, ts, u) :
           Pd(m, ts, u)[j] \in G /\ Pd(n, us, u)[j] = Pd(m, ts, u)[j] /\ j \in DOMAIN Pd(m, ts, u)
    BY <1>19, <1>26, <1>27 DEF Own, Within
  <1>16. Shared(n, us, h)
    <2>1. DOMAIN n.pd[Master] = {PdeOf(w) : w \in DOMAIN h.at}
      BY <1>15 DEF Core, Shared
    <2>2. \A u \in DOMAIN us :
            /\ 3 \in DOMAIN Pd(n, us, u)
            /\ \A j \in DOMAIN Pd(n, us, u) :
                 j >= 3 => j \in DOMAIN n.pd[Master] /\ Pd(n, us, u)[j] = n.pd[Master][j]
      BY <1>15, <1>26, <1>27 DEF Core, Shared
    <2>3. ASSUME NEW w \in DOMAIN h.at
          PROVE  LET tab == n.pt[n.pd[Master][PdeOf(w)]]
                 IN PteOf(w) \in DOMAIN tab /\ tab[PteOf(w)] = h.at[w]
      <3>1. n.pt[n.pd[Master][PdeOf(w)]] = m.pt[m.pd[Master][PdeOf(w)]]
        BY <1>2, <1>15, <1>19, <1>25 DEF Within
      <3> QED BY <3>1 DEF Core, Shared
    <2> QED BY <2>1, <2>2, <2>3 DEF Shared
  <1>17. Placed(n, us)
    <2>1. ASSUME NEW u \in DOMAIN ts
          PROVE  /\ 2 \in DOMAIN Pd(n, us, u)
                 /\ PtSize - 1 \in DOMAIN n.pt[Pd(n, us, u)[2]]
                 /\ n.pt[Pd(n, us, u)[2]][PtSize - 1] = us[u].stack
      <3>1. n.pt[Pd(m, ts, u)[2]] = m.pt[Pd(m, ts, u)[2]]
        BY <1>2, <1>25, <1>28
      <3>2. Pd(n, us, u)[2] = Pd(m, ts, u)[2] /\ 2 \in DOMAIN Pd(n, us, u)
        BY <1>2, <1>26, <1>27, <1>28
      <3> QED BY <1>13, <3>1, <3>2 DEF Core, Placed
    <2>2. ASSUME NEW u \in DOMAIN ts, u # t, NEW j \in DOMAIN us[u].code
          PROVE  /\ 1 \in DOMAIN Pd(n, us, u)
                 /\ j \in DOMAIN n.pt[Pd(n, us, u)[1]]
                 /\ n.pt[Pd(n, us, u)[1]][j] = us[u].code[j]
      <3>1. us[u] = ts[u]
        BY <2>2
      <3>2. n.pt[Pd(m, ts, u)[1]] = m.pt[Pd(m, ts, u)[1]]
        BY <1>2, <1>25, <1>28, <2>2, <3>1
      <3>3. Pd(n, us, u) = Pd(m, ts, u)
        BY <1>26, <2>2
      <3> QED BY <3>1, <3>2, <3>3 DEF Core, Placed
    <2>3. ASSUME NEW j \in DOMAIN us[t].code
          PROVE  /\ 1 \in DOMAIN Pd(n, us, t)
                 /\ j \in DOMAIN n.pt[Pd(n, us, t)[1]]
                 /\ n.pt[Pd(n, us, t)[1]][j] = us[t].code[j]
      <3>1. j = i
        BY <1>15
      <3> QED BY <1>11, <1>27, <3>1
    <2> QED BY <2>1, <2>2, <2>3 DEF Placed
  <1>20. Roles(n, us, h)
    <2>1. ASSUME NEW u \in DOMAIN ts
          PROVE  /\ n.role[us[u].cr3] = "dir" /\ n.role[us[u].stack] = "stack"
                 /\ \A j \in Own(n, us, u) : n.role[Pd(n, us, u)[j]] = "table"
                 /\ \A j \in DOMAIN us[u].code : n.role[us[u].code[j]] = "code"
      <3>1. n.role[us[u].cr3] = "dir" /\ n.role[us[u].stack] = "stack"
        BY <1>13, <1>19, <1>25 DEF Core, Roles, Within
      <3>2. \A j \in Own(m, ts, u) : n.role[Pd(n, us, u)[j]] = "table"
        BY <1>25, <1>28 DEF Core, Roles
      <3>3. \A j \in Own(n, us, u) : n.role[Pd(n, us, u)[j]] = "table"
        BY <1>8, <1>10, <1>26, <1>27, <3>2
      <3>4. \A j \in DOMAIN us[u].code : n.role[us[u].code[j]] = "code"
        BY <1>3, <1>9, <1>10, <1>15, <1>19, <1>25 DEF Core, Roles, Within
      <3> QED BY <3>1, <3>3, <3>4
    <2>2. /\ \A j \in DOMAIN n.pd[Master] : n.role[n.pd[Master][j]] = "heap"
          /\ \A w \in DOMAIN h.at : n.role[h.at[w]] = "heap"
      BY <1>15, <1>19, <1>25 DEF Core, Roles, Within
    <2> QED BY <2>1, <2>2 DEF Roles
  <1>21. Within(n, us, h, InUse(n, {}))
    <2>1. Within(n, us, h, G \cup {f, T})
      BY <1>13, <1>15, <1>19, <1>26, <1>27, <1>28 DEF Within
    <2> QED BY <1>24, <2>1
  <1>22. Distinct(n, us, h)
    <2>1. ASSUME NEW u \in DOMAIN us, NEW w \in DOMAIN us
          PROVE  /\ us[u].cr3 = us[w].cr3 => u = w
                 /\ us[u].stack = us[w].stack => u = w
      BY <1>13 DEF Core, Distinct
    <2>2. ASSUME NEW u \in DOMAIN us, NEW w \in DOMAIN us, NEW j \in Own(n, us, u), NEW k \in Own(n, us, w),
                 Pd(n, us, u)[j] = Pd(n, us, w)[k]
          PROVE  u = w /\ j = k
      <3>1. \A x \in DOMAIN ts : \A l \in Own(n, us, x) :
              \/ x = t /\ l = 1 /\ Pd(n, us, x)[l] = T
              \/ l \in Own(m, ts, x) /\ Pd(n, us, x)[l] = Pd(m, ts, x)[l] /\ Pd(n, us, x)[l] # T
        BY <1>19, <1>26, <1>27, <1>28
      <3>2. CASE Pd(n, us, u)[j] = T
        BY <2>2, <3>1, <3>2
      <3>3. CASE Pd(n, us, u)[j] # T
        <4>1. j \in Own(m, ts, u) /\ k \in Own(m, ts, w) /\ Pd(m, ts, u)[j] = Pd(m, ts, w)[k]
          BY <2>2, <3>1, <3>3
        <4> QED BY <4>1 DEF Core, Distinct
      <3> QED BY <3>2, <3>3
    <2>3. ASSUME NEW u \in DOMAIN us, NEW w \in DOMAIN us, NEW j \in DOMAIN us[u].code,
                 NEW k \in DOMAIN us[w].code, us[u].code[j] = us[w].code[k]
          PROVE  u = w /\ j = k
      <3>1. \A x \in DOMAIN ts : \A l \in DOMAIN us[x].code :
              \/ x = t /\ l = i /\ us[x].code[l] = f
              \/ l \in DOMAIN ts[x].code /\ us[x].code[l] = ts[x].code[l] /\ us[x].code[l] # f
        BY <1>19 DEF Within
      <3>2. CASE us[u].code[j] = f
        <4>1. u = t /\ j = i
          BY <3>1, <3>2
        <4>2. us[w].code[k] = f
          BY <2>3, <3>2
        <4>3. w = t /\ k = i
          BY <3>1, <4>2
        <4> QED BY <4>1, <4>3
      <3>3. CASE us[u].code[j] # f
        <4>1. j \in DOMAIN ts[u].code /\ k \in DOMAIN ts[w].code /\ ts[u].code[j] = ts[w].code[k]
          BY <2>3, <3>1, <3>3
        <4> QED BY <4>1 DEF Core, Distinct
      <3> QED BY <3>2, <3>3
    <2>4. /\ \A j, k \in DOMAIN n.pd[Master] : n.pd[Master][j] = n.pd[Master][k] => j = k
          /\ \A v1, w \in DOMAIN h.at : h.at[v1] = h.at[w] => v1 = w
          /\ \A v1 \in DOMAIN h.at, j \in DOMAIN n.pd[Master] : h.at[v1] # n.pd[Master][j]
      BY <1>15 DEF Core, Distinct
    <2> QED BY <2>1, <2>2, <2>3, <2>4 DEF Distinct
  <1>23. ASSUME Found(m, ts, h, InUse(m, {f})) PROVE Found(n, us, h, InUse(n, {}))
    <2>1. Found(m, ts, h, G)
      BY <1>18, <1>23
    <2>2. ASSUME NEW x \in G
          PROVE  /\ n.role[x] \in {"dir", "stack", "table", "code", "heap"}
                 /\ n.role[x] = "dir" => \E u \in DOMAIN us : x = us[u].cr3
                 /\ n.role[x] = "stack" => \E u \in DOMAIN us : x = us[u].stack
                 /\ n.role[x] = "heap" => \/ \E j \in DOMAIN n.pd[Master] : x = n.pd[Master][j]
                                          \/ \E w \in DOMAIN h.at : x = h.at[w]
      <3>1. /\ n.role[x] \in {"dir", "stack", "table", "code", "heap"}
            /\ n.role[x] = "dir" => \E u \in DOMAIN ts : x = ts[u].cr3
            /\ n.role[x] = "stack" => \E u \in DOMAIN ts : x = ts[u].stack
            /\ n.role[x] = "heap" => \/ \E j \in DOMAIN m.pd[Master] : x = m.pd[Master][j]
                                     \/ \E w \in DOMAIN h.at : x = h.at[w]
        BY <1>25, <2>1 DEF Found
      <3> QED BY <1>15, <1>13, <3>1
    <2>3. n.role[f] = "code" /\ n.role[T] = "table"
      BY <1>3, <1>8, <1>9, <1>10
    <2>4. Found(n, us, h, G \cup {f, T})
      BY <2>2, <2>3 DEF Found
    <2> QED BY <1>24, <2>4
  <1> QED BY <1>16, <1>17, <1>18, <1>19, <1>20, <1>21, <1>22, <1>23 DEF Core

\* kill_task gives frames back.
Released(m, F) == [m EXCEPT !.free = @ \cup F]

LEMMA ReleasedIs ==
  ASSUME NEW m, IsMem(m), NEW F \in SUBSET Frames, NEW n, n = Released(m, F)
  PROVE  /\ IsMem(n) /\ n.free = m.free \cup F /\ n.pd = m.pd /\ n.pt = m.pt
         /\ n.role = m.role /\ n.broken = m.broken
  <1>1. /\ n.free = m.free \cup F /\ n.pd = m.pd /\ n.pt = m.pt
        /\ n.role = m.role /\ n.broken = m.broken
    BY DEF IsMem, Released
  <1>2. IsRecord(n)
    BY DEF IsMem, Released, IsRecord
  <1> QED BY <1>1, <1>2 DEF IsMem, IsRecord

LEMMA KillCore ==
  ASSUME NEW m, IsMem(m), NEW ts, IsTasks(ts), NEW h, Core(m, ts, h, {}), NEW t \in DOMAIN ts,
         NEW F, \A x : x \in F <=> x = ts[t].stack \/ x = ts[t].cr3, NEW n, n = Released(m, F),
         NEW us, DOMAIN us = DOMAIN ts \ {t}, \A u \in DOMAIN ts \ {t} : us[u] = ts[u]
  PROVE  /\ Core(n, us, h, {})
         /\ Found(m, ts, h, InUse(m, {})) => Found(n, us, h, InUse(n, {}))
  <1>1. PICK a, b : a = ts[t].stack /\ b = ts[t].cr3
    OBVIOUS
  <1>2. F \in SUBSET Frames /\ \A x : x \in F <=> x = a \/ x = b
    BY <1>1 DEF IsTasks
  <1>3. /\ IsMem(n) /\ n.free = m.free \cup F /\ n.pd = m.pd /\ n.pt = m.pt
        /\ n.role = m.role
    BY <1>2, ReleasedIs
  <1>4. \A u \in DOMAIN ts \ {t} : /\ us[u] = ts[u] /\ Own(n, us, u) = Own(m, ts, u)
                                  /\ Pd(n, us, u) = Pd(m, ts, u)
    BY <1>3 DEF Own, Pd
  <1>5. Shared(n, us, h) /\ Placed(n, us)
    <2>1. Shared(m, ts, h) /\ Placed(m, ts)
      BY DEF Core
    <2>2. n.pd = m.pd /\ n.pt = m.pt
      BY <1>3
    <2>3. Shared(n, us, h)
      BY <1>4, <2>1, <2>2 DEF Shared
    <2>4. Placed(n, us)
      BY <1>4, <2>1, <2>2 DEF Placed
    <2> QED BY <2>3, <2>4
  <1>6. Roles(n, us, h) /\ Distinct(n, us, h)
    <2>1. Roles(m, ts, h) /\ Distinct(m, ts, h)
      BY DEF Core
    <2>2. n.pd = m.pd /\ n.role = m.role
      BY <1>3
    <2>3. Roles(n, us, h)
      BY <1>4, <2>1, <2>2 DEF Roles
    <2>4. Distinct(n, us, h)
      BY <1>4, <2>1, <2>2 DEF Distinct
    <2> QED BY <2>3, <2>4
  <1>7. m.role[a] = "stack" /\ m.role[b] = "dir"
    BY <1>1 DEF Core, Roles
  <1>8. PICK G : G = InUse(m, {})
    OBVIOUS
  <1>9. InUse(n, {}) = G \ {a, b} /\ Within(m, ts, h, G)
    BY <1>2, <1>3, <1>8 DEF InUse, Core
  <1>10. Within(n, us, h, G \ {a, b})
    <2>1. ASSUME NEW u \in DOMAIN us
          PROVE  /\ us[u].cr3 \in G \ {a, b} /\ us[u].stack \in G \ {a, b}
                 /\ \A i \in Own(n, us, u) : Pd(n, us, u)[i] \in G \ {a, b}
                 /\ \A i \in DOMAIN us[u].code : us[u].code[i] \in G \ {a, b}
      <3>1. us[u].cr3 # b /\ us[u].stack # a
        BY <1>1, <1>4 DEF Core, Distinct
      <3>2. us[u].cr3 # a /\ us[u].stack # b
        BY <1>4, <1>7 DEF Core, Roles
      <3>3. \A i \in Own(n, us, u) : Pd(n, us, u)[i] \notin {a, b}
        BY <1>4, <1>7 DEF Core, Roles
      <3>4. \A i \in DOMAIN us[u].code : us[u].code[i] \notin {a, b}
        BY <1>4, <1>7 DEF Core, Roles
      <3> QED BY <1>4, <1>9, <3>1, <3>2, <3>3, <3>4 DEF Within
    <2>2. \A i \in DOMAIN n.pd[Master] : n.pd[Master][i] \in G \ {a, b}
      BY <1>3, <1>7, <1>9 DEF Core, Roles, Within
    <2>3. \A v \in DOMAIN h.at : h.at[v] \in G \ {a, b}
      BY <1>7, <1>9 DEF Core, Roles, Within
    <2> QED BY <2>1, <2>2, <2>3 DEF Within
  <1>11. ASSUME Found(m, ts, h, InUse(m, {})) PROVE Found(n, us, h, G \ {a, b})
    <2>1. Found(m, ts, h, G)
      BY <1>8, <1>11
    <2>2. ASSUME NEW x \in G \ {a, b}
          PROVE  /\ n.role[x] \in {"dir", "stack", "table", "code", "heap"}
                 /\ n.role[x] = "dir" => \E u \in DOMAIN us : x = us[u].cr3
                 /\ n.role[x] = "stack" => \E u \in DOMAIN us : x = us[u].stack
                 /\ n.role[x] = "heap" => \/ \E j \in DOMAIN n.pd[Master] : x = n.pd[Master][j]
                                          \/ \E w \in DOMAIN h.at : x = h.at[w]
      <3>1. /\ n.role[x] \in {"dir", "stack", "table", "code", "heap"}
            /\ n.role[x] = "dir" => \E u \in DOMAIN ts : x = ts[u].cr3
            /\ n.role[x] = "stack" => \E u \in DOMAIN ts : x = ts[u].stack
            /\ n.role[x] = "heap" => \/ \E j \in DOMAIN n.pd[Master] : x = n.pd[Master][j]
                                     \/ \E w \in DOMAIN h.at : x = h.at[w]
        BY <1>3, <2>1 DEF Found
      <3>2. \A u \in DOMAIN ts : x = ts[u].cr3 \/ x = ts[u].stack => u # t
        BY <1>1
      <3> QED BY <1>4, <3>1, <3>2
    <2> QED BY <2>2 DEF Found
  <1> QED BY <1>5, <1>6, <1>9, <1>10, <1>11 DEF Core

-----------------------------------------------------------------------------
(* The steps *)

HeapOK(h) ==
  /\ h = [end |-> h.end, last |-> h.last, at |-> h.at]
  /\ h.end \in (HeapStart + 1)..HeapMax /\ h.last \in HeapStart..(h.end - 1)
  /\ DOMAIN h.at = HeapStart..(h.end - 1)
TasksOK(ts, h) ==
  \A t \in DOMAIN ts : /\ ts[t].kstack \in HeapRange /\ ts[t].kstack < h.end
                       /\ DOMAIN ts[t].code \subseteq 0..(PtSize - 1)
ExecOK(ts, e) ==
  /\ \A x, y \in e : x = y
  /\ \A x \in e : /\ x = [task |-> x.task, left |-> x.left] /\ x.task \in DOMAIN ts /\ x.left \in Nat \ {0}
                  /\ \E n \in Nat : DOMAIN ts[x.task].code = 0..(n - 1) /\ n + x.left <= MaxCode
Running == current_task \in Live \cup {Shell} /\ cr3 = DirOf(current_task)
Types ==
  /\ IsMem(mem) /\ IsTasks(tasks) /\ HeapOK(heap) /\ TasksOK(tasks, heap) /\ ExecOK(tasks, exec) /\ Running
  /\ halt \in {"no", "heap", "directory", "stack", "user", "wild"}

\* Until an allocation has failed unnoticed or a table was replaced, Core holds, and no
\* frame is lost but for tables and code.
VMMInv ==
  /\ Types
  /\ mem.broken \/ Core(mem, tasks, heap, {})
  /\ mem.broken \/ halt = "directory" \/ Found(mem, tasks, heap, InUse(mem, {}))

LEMMA HeapPages ==
  ASSUME NEW h, HeapOK(h)
  PROVE  /\ h.end \in Nat /\ h.end \notin DOMAIN h.at /\ h.end >= HeapStart /\ PdeOf(h.end) >= 3
         /\ DOMAIN h.at \subseteq Nat /\ (\A w \in DOMAIN h.at : PdeOf(w) >= 3 /\ w >= HeapStart)
         /\ HeapStart \in DOMAIN h.at /\ h.last \in DOMAIN h.at
  <1>1. HeapStart \in Nat /\ HeapMax \in Nat
    BY Places, VMMAssumption DEF HeapMax
  <1>2. h.end \in Nat /\ h.end >= HeapStart + 1
    BY <1>1 DEF HeapOK
  <1>4. h.last \in DOMAIN h.at /\ HeapStart \in DOMAIN h.at /\ h.end \notin DOMAIN h.at
    BY <1>1, <1>2 DEF HeapOK
  <1>5. DOMAIN h.at \subseteq Nat /\ \A w \in DOMAIN h.at : w >= HeapStart
    BY <1>1, <1>2 DEF HeapOK
  <1>6. PdeOf(h.end) >= 3 /\ \A w \in DOMAIN h.at : PdeOf(w) >= 3
    BY <1>1, <1>2, <1>5, Places
  <1> QED BY <1>1, <1>2, <1>4, <1>5, <1>6 DEF HeapOK

LEMMA RunningDir ==
  ASSUME Types
  PROVE  IsDir(tasks, cr3) /\ cr3 \in All
  <1>1. Master \in All /\ Frames \subseteq All
    BY DEF All, Master
  <1>2. CASE current_task = Shell
    BY <1>1, <1>2 DEF Types, Running, DirOf, IsDir
  <1>3. CASE current_task # Shell
    BY <1>1, <1>3 DEF Types, Running, DirOf, IsDir, Live, IsTasks
  <1> QED BY <1>2, <1>3

\* A kernel access to heap pages keeps Core, and finds every page.
LEMMA TouchStep ==
  ASSUME NEW m, IsMem(m), IsTasks(tasks), HeapOK(heap), IsDir(tasks, cr3), cr3 \in All,
         m.broken \/ Core(m, tasks, heap, {}),
         m.broken \/ Found(m, tasks, heap, InUse(m, {})),
         NEW S, S \subseteq DOMAIN heap.at, NEW n, n = Fault(m, cr3, S)
  PROVE  /\ IsMem(n)
         /\ n.broken \/ Core(n, tasks, heap, {})
         /\ n.broken \/ Found(n, tasks, heap, InUse(n, {}))
         /\ n.broken \/ \A v \in S : Mapped(n, cr3, v)
  <1>1. IsMem(n) /\ n.broken = m.broken
    BY FaultIs
  <1>2. CASE m.broken
    BY <1>1, <1>2
  <1>3. CASE ~m.broken
    <2>1. DOMAIN heap.at \subseteq Nat /\ \A w \in DOMAIN heap.at : PdeOf(w) >= 3
      BY HeapPages
    <2>2. Core(m, tasks, heap, {}) /\ Found(m, tasks, heap, InUse(m, {}))
      BY <1>3
    <2>3. /\ Core(n, tasks, heap, {}) /\ Found(n, tasks, heap, InUse(n, {}))
          /\ \A v \in S \cap DOMAIN heap.at : Mapped(n, cr3, v)
      BY <2>1, <2>2, FaultCore
    <2> QED BY <1>1, <2>3
  <1> QED BY <1>2, <1>3

\* Only the frames of the heap's pages matter.
LEMMA SameAt ==
  ASSUME NEW m, NEW ts, NEW h, NEW g, g.at = h.at, NEW X
  PROVE  /\ Core(m, ts, h, X) => Core(m, ts, g, X)
         /\ Found(m, ts, h, InUse(m, X)) => Found(m, ts, g, InUse(m, X))
  <1>1. Shared(m, ts, h) => Shared(m, ts, g)
    BY DEF Shared
  <1>2. Roles(m, ts, h) => Roles(m, ts, g)
    BY DEF Roles
  <1>3. Distinct(m, ts, h) => Distinct(m, ts, g)
    BY DEF Distinct
  <1>4. Within(m, ts, h, InUse(m, X)) => Within(m, ts, g, InUse(m, X))
    BY DEF Within
  <1>5. Found(m, ts, h, InUse(m, X)) => Found(m, ts, g, InUse(m, X))
    BY DEF Found
  <1> QED BY <1>1, <1>2, <1>3, <1>4, <1>5 DEF Core

LEMMA UseHeapStep ==
  ASSUME VMMInv, halt = "no", NEW l \in HeapRange, UseHeap(l)
  PROVE  VMMInv' /\ OwnAccessServed'
  <1>1. /\ IsMem(mem) /\ IsTasks(tasks) /\ HeapOK(heap) /\ IsDir(tasks, cr3) /\ cr3 \in All
        /\ mem.broken \/ Core(mem, tasks, heap, {})
        /\ mem.broken \/ Found(mem, tasks, heap, InUse(mem, {}))
    BY RunningDir DEF VMMInv, Types
  <1>2. PICK S : S = {heap.last, l}
    OBVIOUS
  <1>3. S \subseteq DOMAIN heap.at /\ l \in HeapStart..(heap.end - 1)
    <2>1. heap.end \in Nat /\ heap.last \in DOMAIN heap.at /\ HeapStart \in Nat /\ HeapMax \in Nat
      BY <1>1, HeapPages, Places, VMMAssumption DEF HeapMax
    <2>2. l \in HeapStart..(heap.end - 1)
      BY <2>1 DEF UseHeap, HeapRange
    <2> QED BY <1>1, <1>2, <2>1, <2>2 DEF HeapOK
  <1>4. PICK n : n = Fault(mem, cr3, S)
    OBVIOUS
  <1>5. /\ IsMem(n)
        /\ n.broken \/ Core(n, tasks, heap, {})
        /\ n.broken \/ Found(n, tasks, heap, InUse(n, {}))
        /\ n.broken \/ \A v \in S : Mapped(n, cr3, v)
    BY <1>1, <1>3, <1>4, TouchStep
  <1>6. mem' = n /\ halt' = IF \A v \in S : Mapped(n, cr3, v) THEN halt ELSE "heap"
    BY <1>2, <1>4 DEF UseHeap, Touch
  <1>7. /\ heap' = [heap EXCEPT !.last = l]
        /\ UNCHANGED <<cr3, current_task, tasks, exec>>
    BY DEF UseHeap
  <1>8. HeapOK(heap') /\ heap'.at = heap.at /\ heap'.end = heap.end
    BY <1>1, <1>3, <1>7 DEF HeapOK
  <1>9. n.broken \/ (Core(n, tasks', heap', {}) /\ Found(n, tasks', heap', InUse(n, {})))
    <2>1. PICK us, g, h : us = tasks' /\ g = heap' /\ h = heap
      OBVIOUS
    <2>2. us = tasks /\ g.at = h.at
      BY <1>7, <1>8, <2>1
    <2>3. /\ n.broken \/ Core(n, us, h, {})
          /\ n.broken \/ Found(n, us, h, InUse(n, {}))
      BY <1>5, <2>1, <2>2
    <2>4. n.broken \/ (Core(n, us, g, {}) /\ Found(n, us, g, InUse(n, {})))
      BY <2>2, <2>3, SameAt
    <2> QED BY <2>1, <2>4
  <1>10. Types'
    BY <1>5, <1>6, <1>7, <1>8 DEF VMMInv, Types, TasksOK, ExecOK, Running, Live, DirOf
  <1>11. OwnAccessServed'
    BY <1>5, <1>6 DEF OwnAccessServed
  <1> QED BY <1>6, <1>9, <1>10, <1>11 DEF VMMInv

LEMMA GrowStep ==
  ASSUME VMMInv, halt = "no", Grow
  PROVE  VMMInv' /\ OwnAccessServed'
  <1>1. /\ IsMem(mem) /\ IsTasks(tasks) /\ HeapOK(heap) /\ IsDir(tasks, cr3) /\ cr3 \in All
        /\ mem.broken \/ Core(mem, tasks, heap, {})
        /\ mem.broken \/ Found(mem, tasks, heap, InUse(mem, {}))
    BY RunningDir DEF VMMInv, Types
  <1>2. /\ heap.end \in Nat /\ heap.end \notin DOMAIN heap.at /\ heap.end >= HeapStart
        /\ PdeOf(heap.end) >= 3
        /\ DOMAIN heap.at \subseteq Nat /\ (\A w \in DOMAIN heap.at : PdeOf(w) >= 3 /\ w >= HeapStart)
        /\ HeapStart \in DOMAIN heap.at /\ heap.last \in DOMAIN heap.at
    BY <1>1, HeapPages
  <1>3. PICK f, S : f = Alloc(mem) /\ S = {heap.last}
    OBVIOUS
  <1>4. f \in mem.free /\ f \in Frames /\ f \in All
    BY <1>1, <1>3, AllocIs DEF Grow, IsMem, All
  <1>5. PICK a : a = Fault(mem, cr3, S)
    OBVIOUS
  <1>6. /\ IsMem(a) /\ a.free = mem.free /\ a.broken = mem.broken
    BY <1>1, <1>5, FaultIs
  <1>7. PICK b : b = Taken(a, f, "heap")
    OBVIOUS
  <1>8. /\ IsMem(b) /\ b.free = a.free \ {f} /\ b.pd = a.pd /\ b.broken = a.broken /\ b.role[f] = "heap"
    BY <1>4, <1>6, <1>7, TakenIs
  <1>9. PICK v : v = heap.end
    OBVIOUS
  <1>10. PICK c : c = MapPage(b, cr3, v, f)
    OBVIOUS
  <1>11. IsMem(c) /\ (c.broken \/ ~mem.broken)
    <2>1. v \in Nat
      BY <1>2, <1>9
    <2>2. PICK i, q : i = PdeOf(v) /\ q = PteOf(v)
      OBVIOUS
    <2>3. CASE i \in DOMAIN b.pd[cr3]
      <3>1. PICK T : T = b.pd[cr3][i]
        OBVIOUS
      <3> QED BY <1>1, <1>4, <1>6, <1>8, <1>10, <2>1, <2>2, <2>3, <3>1, MapPageOld
    <2>4. CASE i \notin DOMAIN b.pd[cr3]
      <3>1. PICK T, in : T = Alloc(b) /\ in = Sharers(cr3, v)
        OBVIOUS
      <3>2. IsMem(c)
        BY <1>1, <1>4, <1>8, <1>10, <2>1, <2>2, <2>4, <3>1, MapPageNew
      <3>3. c.broken = (b.broken \/ T = 0 \/ KernelHas(b, v))
        BY <1>1, <1>4, <1>8, <1>10, <2>1, <2>2, <2>4, <3>1, MapPageNew
      <3> QED BY <1>6, <1>8, <3>2, <3>3
    <2> QED BY <2>3, <2>4
  <1>12. PICK n : n = Fault(c, cr3, S)
    OBVIOUS
  <1>13. mem' = n /\ halt' = IF \A w \in S : Mapped(n, cr3, w) THEN halt ELSE "heap"
    BY <1>3, <1>5, <1>7, <1>9, <1>10, <1>12 DEF Grow, Touch
  <1>14. PICK l \in {heap.last, heap.end} :
           heap' = [end |-> heap.end + 1, last |-> l, at |-> WithEntry(heap.at, heap.end, f)]
    BY <1>3 DEF Grow
  <1>15. /\ heap'.end = heap.end + 1 /\ heap'.last \in {heap.last, heap.end}
         /\ heap' = [end |-> heap'.end, last |-> heap'.last, at |-> heap'.at]
         /\ heap'.at = WithEntry(heap.at, heap.end, f)
    BY <1>14
  <1>16. /\ DOMAIN heap'.at = DOMAIN heap.at \cup {v} /\ heap'.at[v] = f
         /\ \A w \in DOMAIN heap.at : heap'.at[w] = heap.at[w]
    BY <1>2, <1>9, <1>15 DEF WithEntry
  <1>17. HeapOK(heap')
    <2>1. heap.end < HeapMax /\ HeapStart \in Nat /\ HeapMax \in Nat
      BY Places, VMMAssumption DEF Grow, HeapMax
    <2>2. heap'.end \in (HeapStart + 1)..HeapMax
      BY <1>1, <1>2, <1>15, <2>1 DEF HeapOK
    <2>3. DOMAIN heap'.at = HeapStart..(heap'.end - 1)
      BY <1>1, <1>2, <1>9, <1>15, <1>16, <2>1 DEF HeapOK
    <2>4. heap'.last \in HeapStart..(heap'.end - 1)
      BY <1>1, <1>2, <1>15, <2>1 DEF HeapOK
    <2> QED BY <1>15, <2>2, <2>3, <2>4 DEF HeapOK
  <1>18. UNCHANGED <<cr3, current_task, tasks, exec>>
    BY DEF Grow
  <1>19. c.broken \/ (Core(c, tasks, heap', {}) /\ Found(c, tasks, heap', InUse(c, {})))
    <2> SUFFICES ASSUME ~c.broken
                 PROVE  Core(c, tasks, heap', {}) /\ Found(c, tasks, heap', InUse(c, {}))
      OBVIOUS
    <2>1. Core(mem, tasks, heap, {}) /\ Found(mem, tasks, heap, InUse(mem, {}))
      BY <1>1, <1>11
    <2>2. /\ Core(a, tasks, heap, {}) /\ Found(a, tasks, heap, InUse(a, {}))
          /\ \A w \in S \cap DOMAIN heap.at : Mapped(a, cr3, w)
      BY <1>1, <1>2, <1>5, <2>1, FaultCore
    <2>4. PICK Y : Y = {} \cup {f}
      OBVIOUS
    <2>5. Core(b, tasks, heap, Y) /\ Found(b, tasks, heap, InUse(b, Y))
      BY <1>1, <1>4, <1>6, <1>7, <2>2, <2>4, TakeCore
    <2>6. Y = {f}
      BY <2>4
    <2>7. Core(b, tasks, heap, {f}) /\ Found(b, tasks, heap, InUse(b, {f}))
      BY <2>5, <2>6
    <2>8. v \in Nat /\ v \notin DOMAIN heap.at /\ PdeOf(v) >= 3 /\ v >= HeapStart /\ f \notin b.free
      BY <1>2, <1>8, <1>9
    <2>9. PICK g : g = heap'
      OBVIOUS
    <2>10. /\ DOMAIN g.at = DOMAIN heap.at \cup {v} /\ g.at[v] = f
           /\ \A w \in DOMAIN heap.at : g.at[w] = heap.at[w]
      BY <1>16, <2>9
    <2>11. DOMAIN heap.at \subseteq Nat /\ \A w \in DOMAIN heap.at : PdeOf(w) >= 3
      BY <1>2
    <2>12. CASE PdeOf(v) \in DOMAIN b.pd[cr3]
      <3>1. Core(c, tasks, g, {}) /\ Found(c, tasks, g, InUse(c, {}))
        BY <1>1, <1>4, <1>8, <1>10, <2>7, <2>8, <2>10, <2>11, <2>12, GrowOld
      <3> QED BY <2>9, <3>1
    <2>13. CASE PdeOf(v) \notin DOMAIN b.pd[cr3]
      <3>1. PdeOf(v) \notin DOMAIN b.pd[Master]
        <4>1. PICK i, q, T, in : i = PdeOf(v) /\ q = PteOf(v) /\ T = Alloc(b) /\ in = Sharers(cr3, v)
          OBVIOUS
        <4>2. c.broken = (b.broken \/ T = 0 \/ KernelHas(b, v))
          BY <1>1, <1>4, <1>8, <1>10, <2>8, <2>13, <4>1, MapPageNew
        <4> QED BY <2>8, <4>2 DEF KernelHas
      <3>2. Core(c, tasks, g, {}) /\ Found(c, tasks, g, InUse(c, {}))
        BY <1>1, <1>4, <1>8, <1>10, <2>7, <2>8, <2>10, <2>11, <2>13, <3>1, GrowNew
      <3> QED BY <2>9, <3>2
    <2> QED BY <2>12, <2>13
  <1>20. /\ IsMem(n)
         /\ n.broken \/ Core(n, tasks, heap', {})
         /\ n.broken \/ Found(n, tasks, heap', InUse(n, {}))
         /\ n.broken \/ \A w \in S : Mapped(n, cr3, w)
    <2>1. PICK g : g = heap'
      OBVIOUS
    <2>2. DOMAIN g.at \subseteq Nat /\ (\A w \in DOMAIN g.at : PdeOf(w) >= 3) /\ S \subseteq DOMAIN g.at
      BY <1>2, <1>3, <1>16, <1>17, <2>1, HeapPages
    <2>3. IsMem(n) /\ n.broken = c.broken
      BY <1>1, <1>11, <1>12, FaultIs
    <2>4. CASE c.broken
      BY <2>3, <2>4
    <2>5. CASE ~c.broken
      <3>1. Core(c, tasks, g, {}) /\ Found(c, tasks, g, InUse(c, {}))
        BY <1>19, <2>1, <2>5
      <3>2. /\ Core(n, tasks, g, {}) /\ Found(n, tasks, g, InUse(n, {}))
            /\ \A w \in S \cap DOMAIN g.at : Mapped(n, cr3, w)
        BY <1>1, <1>11, <1>12, <2>2, <3>1, FaultCore
      <3> QED BY <2>1, <2>2, <2>3, <3>2
    <2> QED BY <2>4, <2>5
  <1>21. Types'
    <2>1. TasksOK(tasks, heap')
      <3>1. \A t \in DOMAIN tasks : tasks[t].kstack \in HeapRange /\ tasks[t].kstack < heap.end
        BY DEF VMMInv, Types, TasksOK
      <3>2. \A k \in HeapRange : k \in Nat
        BY Places, VMMAssumption DEF HeapRange, HeapMax
      <3> QED BY <1>2, <1>15, <3>1, <3>2 DEF VMMInv, Types, TasksOK
    <2> QED BY <1>13, <1>17, <1>18, <1>20, <2>1 DEF VMMInv, Types, Running, Live, DirOf
  <1>22. OwnAccessServed'
    BY <1>13, <1>20 DEF OwnAccessServed
  <1> QED BY <1>13, <1>18, <1>20, <1>21, <1>22 DEF VMMInv

\* A failed allocation is used.
Marked(m) == [m EXCEPT !.broken = TRUE]

LEMMA MarkedIs ==
  ASSUME NEW m, IsMem(m), NEW n, n = Marked(m)
  PROVE  IsMem(n) /\ n.broken /\ n.free = m.free /\ n.pd = m.pd
  <1>1. /\ n.free = m.free /\ n.pd = m.pd /\ n.pt = m.pt /\ n.role = m.role /\ n.broken = TRUE
        /\ IsRecord(n)
    BY DEF IsMem, Marked, IsRecord
  <1> QED BY <1>1 DEF IsMem, IsRecord

\* A frame allocated and not used any more.
LEMMA Dropped ==
  ASSUME NEW m, NEW ts, NEW h, NEW X, Core(m, ts, h, X)
  PROVE  Core(m, ts, h, {})
  <1>1. InUse(m, X) \subseteq InUse(m, {}) /\ Within(m, ts, h, InUse(m, X))
    BY DEF InUse, Core
  <1>2. Within(m, ts, h, InUse(m, {}))
    BY <1>1 DEF Within
  <1> QED BY <1>2 DEF Core

\* exec without a frame for the directory: the machine stops.
LEMMA NoDirectoryStep ==
  ASSUME VMMInv, NEW s \in mem.free, NEW m, m = Taken(mem, s, "stack"), NEW d, d = Alloc(m),
         d = 0 \/ d >= LowFrames,
         mem' = IF d = 0 THEN Marked(m) ELSE Taken(m, d, "dir"), halt' = "directory",
         UNCHANGED <<cr3, current_task, tasks, heap, exec>>
  PROVE  VMMInv' /\ OwnAccessServed'
  <1>1. IsMem(mem) /\ IsTasks(tasks) /\ s \in All
    BY DEF VMMInv, Types, IsMem, All
  <1>2. IsMem(m) /\ m.free = mem.free \ {s} /\ m.broken = mem.broken
    BY <1>1, TakenIs
  <1>3. d \in All /\ (d # 0 => d \in m.free /\ \A f \in m.free : d <= f)
    BY <1>2, AllocIs
  <1>4. PICK n : n = mem'
    OBVIOUS
  <1>5. /\ IsMem(n)
        /\ n.broken \/ Core(n, tasks, heap, {})
        /\ n.broken \/ \A f \in n.free : f >= LowFrames
    <2>1. CASE d = 0
      BY <1>2, <1>4, <2>1, MarkedIs
    <2>2. CASE d # 0
      <3>1. n = Taken(m, d, "dir")
        BY <1>4, <2>2
      <3>2. IsMem(n) /\ n.free = m.free \ {d} /\ n.broken = m.broken
        BY <1>2, <1>3, <3>1, TakenIs
      <3>3. \A f \in n.free : f >= LowFrames
        <4>1. d \in Nat /\ m.free \subseteq Nat /\ LowFrames \in Nat /\ d >= LowFrames
          BY <1>2, <1>3, <2>2, VMMAssumption DEF IsMem, Frames, All
        <4> QED BY <1>3, <2>2, <3>2, <4>1
      <3>4. ASSUME ~n.broken PROVE Core(n, tasks, heap, {})
        <4>1. Core(mem, tasks, heap, {})
          BY <1>2, <3>2, <3>4 DEF VMMInv
        <4>2. PICK X : X = {} \cup {s}
          OBVIOUS
        <4>3. PICK Y : Y = X \cup {d}
          OBVIOUS
        <4>4. Core(m, tasks, heap, X)
          BY <1>1, <4>1, <4>2, TakeCore
        <4>5. Core(n, tasks, heap, Y)
          BY <1>1, <1>2, <1>3, <2>2, <3>1, <4>3, <4>4, TakeCore
        <4> QED BY <4>5, Dropped
      <3> QED BY <3>2, <3>3, <3>4
    <2> QED BY <2>1, <2>2
  <1>6. Types'
    BY <1>4, <1>5 DEF VMMInv, Types, Running, Live, DirOf
  <1>7. mem'.broken \/ Core(mem', tasks', heap', {})
    BY <1>4, <1>5
  <1>8. OwnAccessServed'
    BY <1>4, <1>5 DEF OwnAccessServed
  <1> QED BY <1>6, <1>7, <1>8 DEF VMMInv

\* exec with a directory: a task with its stack, and no code yet.
LEMMA NewTaskStep ==
  ASSUME VMMInv, halt = "no", current_task = Shell, exec = {},
         NEW t \in Users, t \notin Live, NEW k \in HeapRange, k < heap.end, NEW c \in 1..MaxCode,
         NEW s \in mem.free, NEW m, m = Taken(mem, s, "stack"), NEW d, d = Alloc(m), d # 0,
         NEW a, a = CreateDirectory(m, d), mem' = MapPage(a, d, StackPage, s),
         tasks' = WithEntry(tasks, t, [cr3 |-> d, stack |-> s, kstack |-> k, code |-> Empty]),
         exec' = {[task |-> t, left |-> c]},
         UNCHANGED <<cr3, current_task, heap, halt>>
  PROVE  VMMInv' /\ OwnAccessServed'
  <1>1. /\ IsMem(mem) /\ IsTasks(tasks) /\ HeapOK(heap) /\ s \in All /\ s \in Frames
        /\ mem.broken \/ Core(mem, tasks, heap, {})
        /\ mem.broken \/ Found(mem, tasks, heap, InUse(mem, {}))
    BY DEF VMMInv, Types, IsMem, All
  <1>2. IsMem(m) /\ m.free = mem.free \ {s} /\ m.pd = mem.pd /\ m.broken = mem.broken /\ m.role[s] = "stack"
    BY <1>1, TakenIs
  <1>3. d \in m.free /\ d \in Frames /\ d \in All
    BY <1>2, AllocIs DEF IsMem, All
  <1>4. IsMem(a) /\ a.broken = m.broken /\ DOMAIN a.pd[d] = {j \in DOMAIN m.pd[Master] : j >= 3}
    BY <1>2, <1>3, CreateIs
  <1>5. PICK n : n = MapPage(a, d, StackPage, s)
    OBVIOUS
  <1>6. PICK T : T = Alloc(a)
    OBVIOUS
  <1>7. IsMem(n) /\ n.broken = (a.broken \/ T = 0 \/ KernelHas(a, StackPage))
    <2>1. PICK i, q, in : i = PdeOf(StackPage) /\ q = PteOf(StackPage) /\ in = Sharers(d, StackPage)
      OBVIOUS
    <2>2. StackPage \in Nat /\ i = 2
      BY <2>1, Places
    <2>3. i \notin DOMAIN a.pd[d]
      BY <1>4, <2>2
    <2>4. d \in All /\ s \in All /\ StackPage \in Nat /\ IsMem(a)
      BY <1>1, <1>3, <1>4, <2>2
    <2>5. IsMem(n)
      BY <1>5, <1>6, <2>1, <2>3, <2>4, MapPageNew
    <2>6. n.broken = (a.broken \/ T = 0 \/ KernelHas(a, StackPage))
      BY <1>5, <1>6, <2>1, <2>3, <2>4, MapPageNew
    <2> QED BY <2>5, <2>6
  <1>8. PICK us, r : us = tasks' /\ r = [cr3 |-> d, stack |-> s, kstack |-> k, code |-> Empty]
    OBVIOUS
  <1>9. /\ DOMAIN us = DOMAIN tasks \cup {t} /\ (\A u \in DOMAIN tasks : us[u] = tasks[u])
        /\ us = [u \in DOMAIN us |-> us[u]] /\ us[t] = r
    BY <1>8 DEF WithEntry, Live
  <1>10. /\ r = [cr3 |-> r.cr3, stack |-> r.stack, kstack |-> r.kstack, code |-> r.code]
         /\ r.cr3 = d /\ r.stack = s /\ r.kstack = k /\ DOMAIN r.code = {}
    BY <1>8 DEF Empty
  <1>11. IsTasks(us)
    BY <1>1, <1>3, <1>9, <1>10 DEF IsTasks
  <1>12. TasksOK(us, heap)
    BY <1>9, <1>10 DEF VMMInv, Types, TasksOK
  <1>13. ExecOK(us, exec')
    <2>1. PICK x : x = [task |-> t, left |-> c]
      OBVIOUS
    <2>2. x = [task |-> x.task, left |-> x.left] /\ x.task = t /\ x.left = c
      BY <2>1
    <2>3. \A y \in exec' : y = x
      BY <2>1
    <2>4. 0 \in Nat /\ DOMAIN us[t].code = 0..(0 - 1) /\ 0 + c <= MaxCode /\ c \in Nat \ {0}
      BY <1>9, <1>10, VMMAssumption
    <2>5. \E l \in Nat : DOMAIN us[t].code = 0..(l - 1) /\ l + c <= MaxCode
      BY <2>4
    <2> QED BY <1>9, <2>2, <2>3, <2>4, <2>5 DEF ExecOK
  <1>14. n.broken \/ (Core(n, us, heap, {}) /\ Found(n, us, heap, InUse(n, {})))
    <2> SUFFICES ASSUME ~n.broken
                 PROVE  Core(n, us, heap, {}) /\ Found(n, us, heap, InUse(n, {}))
      OBVIOUS
    <2>1. Core(mem, tasks, heap, {}) /\ Found(mem, tasks, heap, InUse(mem, {}))
      <3>1. ~mem.broken
        BY <1>2, <1>4, <1>7
      <3> QED BY <1>1, <3>1
    <2>2. PICK X : X = {} \cup {s}
      OBVIOUS
    <2>3. Core(m, tasks, heap, X) /\ Found(m, tasks, heap, InUse(m, X))
      BY <1>1, <2>1, <2>2, TakeCore
    <2>4. X = {s}
      BY <2>2
    <2>5. Core(m, tasks, heap, {s}) /\ Found(m, tasks, heap, InUse(m, {s}))
      BY <2>3, <2>4
    <2>6. DOMAIN heap.at \subseteq Nat /\ (\A w \in DOMAIN heap.at : PdeOf(w) >= 3) /\ HeapStart \in DOMAIN heap.at
      BY <1>1, HeapPages
    <2>7. 3 \in DOMAIN m.pd[Master]
      BY <2>5, <2>6, Places DEF Core, Shared
    <2>8. /\ s \notin m.free /\ t \notin DOMAIN tasks /\ us[t].cr3 = d /\ us[t].stack = s
          /\ DOMAIN us[t].code = {}
      BY <1>2, <1>9, <1>10 DEF Live
    <2> QED BY <1>1, <1>2, <1>3, <1>5, <1>9, <2>5, <2>6, <2>7, <2>8, ExecCore
  <1>15. Running'
    BY DEF VMMInv, Types, Running, DirOf, Live
  <1>16. Types'
    BY <1>1, <1>5, <1>7, <1>8, <1>11, <1>12, <1>13, <1>15 DEF VMMInv, Types
  <1>17. OwnAccessServed'
    BY DEF OwnAccessServed
  <1> QED BY <1>5, <1>8, <1>14, <1>16, <1>17 DEF VMMInv

LEMMA ExecTaskStep ==
  ASSUME VMMInv, halt = "no", NEW t \in Users, NEW k \in HeapRange, NEW c \in 1..MaxCode, ExecTask(t, k, c)
  PROVE  VMMInv' /\ OwnAccessServed'
  <1>1. PICK s : s = Alloc(mem)
    OBVIOUS
  <1>2. PICK m : m = Taken(mem, s, "stack")
    OBVIOUS
  <1>3. PICK d : d = Alloc(m)
    OBVIOUS
  <1>4. PICK a : a = CreateDirectory(m, d)
    OBVIOUS
  <1>5. IsMem(mem)
    BY DEF VMMInv, Types
  <1>6. s \in mem.free
    BY <1>1, <1>5, AllocIs DEF ExecTask
  <1>7. CASE d = 0 \/ d >= LowFrames
    <2>1. /\ mem' = IF d = 0 THEN Marked(m) ELSE Taken(m, d, "dir")
          /\ halt' = "directory"
          /\ UNCHANGED <<cr3, current_task, tasks, heap, exec>>
      BY <1>1, <1>2, <1>3, <1>4, <1>7 DEF ExecTask, Marked
    <2> QED BY <1>2, <1>3, <1>6, <1>7, <2>1, NoDirectoryStep
  <1>8. CASE ~(d = 0 \/ d >= LowFrames)
    <2>1. /\ mem' = MapPage(a, d, StackPage, s)
          /\ tasks' = WithEntry(tasks, t, [cr3 |-> d, stack |-> s, kstack |-> k, code |-> Empty])
          /\ exec' = {[task |-> t, left |-> c]}
          /\ UNCHANGED <<cr3, current_task, heap, halt>>
      BY <1>1, <1>2, <1>3, <1>4, <1>8 DEF ExecTask
    <2>2. current_task = Shell /\ exec = {} /\ t \notin Live /\ k < heap.end
      BY DEF ExecTask
    <2> QED BY <1>2, <1>3, <1>4, <1>6, <1>8, <2>1, <2>2, NewTaskStep
  <1> QED BY <1>7, <1>8

\* create_user_process enters a page; the table and the page may be frame 0 once an
\* allocation has failed.
LEMMA EntersPage ==
  ASSUME NEW m, IsMem(m), NEW d \in All, NEW v \in Nat, NEW f \in All, NEW n, n = MapPage(m, d, v, f)
  PROVE  IsMem(n) /\ (m.broken => n.broken)
  <1>1. PICK i, q : i = PdeOf(v) /\ q = PteOf(v)
    OBVIOUS
  <1>2. CASE i \in DOMAIN m.pd[d]
    <2>1. PICK T : T = m.pd[d][i]
      OBVIOUS
    <2> QED BY <1>1, <1>2, <2>1, MapPageOld
  <1>3. CASE i \notin DOMAIN m.pd[d]
    <2>1. PICK T, in : T = Alloc(m) /\ in = Sharers(d, v)
      OBVIOUS
    <2>2. IsMem(n)
      BY <1>1, <1>3, <2>1, MapPageNew
    <2>3. n.broken = (m.broken \/ T = 0 \/ KernelHas(m, v))
      BY <1>1, <1>3, <2>1, MapPageNew
    <2> QED BY <2>2, <2>3
  <1> QED BY <1>2, <1>3

LEMMA ExecCodeStep ==
  ASSUME VMMInv, halt = "no", ExecCode
  PROVE  VMMInv' /\ OwnAccessServed'
  <1>1. /\ IsMem(mem) /\ IsTasks(tasks) /\ HeapOK(heap) /\ TasksOK(tasks, heap) /\ ExecOK(tasks, exec)
        /\ mem.broken \/ Core(mem, tasks, heap, {})
        /\ mem.broken \/ Found(mem, tasks, heap, InUse(mem, {}))
    BY DEF VMMInv, Types
  <1>2. PICK x \in exec :
          LET t == x.task
              i == Cardinality(DOMAIN tasks[t].code)
              f == Alloc(mem)
              m == IF f = 0 THEN [mem EXCEPT !.broken = TRUE] ELSE Taken(mem, f, "code")
          IN /\ mem' = MapPage(m, tasks[t].cr3, CodeStart + i, f)
             /\ tasks' = [tasks EXCEPT ![t].code = WithEntry(@, i, f)]
             /\ exec' = IF x.left = 1 THEN {} ELSE {[x EXCEPT !.left = @ - 1]}
             /\ UNCHANGED <<cr3, current_task, heap, halt>>
    BY DEF ExecCode
  <1>3. PICK t, f : t = x.task /\ f = Alloc(mem)
    OBVIOUS
  <1>4. PICK r, d : r = tasks[t] /\ d = tasks[t].cr3
    OBVIOUS
  <1>5. PICK i : i = Cardinality(DOMAIN r.code)
    OBVIOUS
  <1>6. PICK m : m = IF f = 0 THEN Marked(mem) ELSE Taken(mem, f, "code")
    OBVIOUS
  <1>7. PICK v : v = CodeStart + i
    OBVIOUS
  <1>8. PICK n : n = MapPage(m, d, v, f)
    OBVIOUS
  <1>9. /\ mem' = n /\ tasks' = [tasks EXCEPT ![t].code = WithEntry(@, i, f)]
        /\ exec' = IF x.left = 1 THEN {} ELSE {[x EXCEPT !.left = @ - 1]}
        /\ UNCHANGED <<cr3, current_task, heap, halt>>
    BY <1>2, <1>3, <1>4, <1>5, <1>6, <1>7, <1>8 DEF Marked
  <1>10. t \in DOMAIN tasks /\ x.left \in Nat \ {0} /\ x = [task |-> t, left |-> x.left]
    BY <1>1, <1>3 DEF ExecOK
  <1>11. PICK l \in Nat : DOMAIN r.code = 0..(l - 1) /\ l + x.left <= MaxCode
    BY <1>1, <1>3, <1>4 DEF ExecOK
  <1>12. i = l
    <2>1. Cardinality(0..(l - 1)) = l
      BY FS_Interval
    <2> QED BY <1>5, <1>11, <2>1
  <1>13. i \in 0..(PtSize - 1) /\ i \notin DOMAIN r.code /\ i \in Nat
    BY <1>10, <1>11, <1>12, VMMAssumption
  <1>14. v \in Nat /\ PdeOf(v) = 1
    BY <1>7, <1>13, Places
  <1>15. f \in All /\ d \in All /\ (f # 0 => f \in mem.free /\ f \in Frames)
    BY <1>1, <1>3, <1>4, <1>10, AllocIs DEF IsTasks, All, IsMem
  <1>16. IsMem(m) /\ (mem.broken \/ f = 0 => m.broken)
    <2>1. CASE f = 0
      BY <1>1, <1>6, <2>1, MarkedIs
    <2>2. CASE f # 0
      BY <1>1, <1>6, <1>15, <2>2, TakenIs
    <2> QED BY <2>1, <2>2
  <1>17. IsMem(n) /\ (m.broken => n.broken)
    BY <1>8, <1>14, <1>15, <1>16, EntersPage
  <1>18. PICK us, e : us = tasks' /\ e = WithEntry(r.code, i, f)
    OBVIOUS
  <1>19. /\ DOMAIN e = DOMAIN r.code \cup {i} /\ e[i] = f
         /\ \A j \in DOMAIN r.code : e[j] = r.code[j]
    BY <1>13, <1>18 DEF WithEntry
  <1>20. /\ DOMAIN us = DOMAIN tasks /\ (\A u \in DOMAIN tasks \ {t} : us[u] = tasks[u])
         /\ us = [u \in DOMAIN us |-> us[u]]
         /\ us[t] = [cr3 |-> r.cr3, stack |-> r.stack, kstack |-> r.kstack, code |-> e]
    <2>1. us = [tasks EXCEPT ![t] = [tasks[t] EXCEPT !.code = e]]
      BY <1>4, <1>9, <1>18
    <2>2. r = [cr3 |-> r.cr3, stack |-> r.stack, kstack |-> r.kstack, code |-> r.code]
      BY <1>1, <1>4, <1>10 DEF IsTasks
    <2>3. tasks = [u \in DOMAIN tasks |-> tasks[u]]
      BY <1>1 DEF IsTasks
    <2>4. [r EXCEPT !.code = e] = [cr3 |-> r.cr3, stack |-> r.stack, kstack |-> r.kstack, code |-> e]
      BY <2>2
    <2>5. us = [tasks EXCEPT ![t] = [r EXCEPT !.code = e]]
      BY <1>4, <2>1
    <2>6. PICK z : z = [r EXCEPT !.code = e]
      OBVIOUS
    <2>7. us = [u \in DOMAIN tasks |-> IF u = t THEN z ELSE tasks[u]]
      BY <2>3, <2>5, <2>6
    <2> QED BY <1>10, <2>4, <2>6, <2>7
  <1>21. us[t].cr3 = r.cr3 /\ us[t].stack = r.stack /\ us[t].kstack = r.kstack /\ us[t].code = e
         /\ us[t] = [cr3 |-> us[t].cr3, stack |-> us[t].stack, kstack |-> us[t].kstack, code |-> us[t].code]
    BY <1>20
  <1>22. IsTasks(us)
    <2>1. r.cr3 \in Frames /\ r.stack \in Frames /\ \A j \in DOMAIN r.code : r.code[j] \in All
      BY <1>1, <1>4, <1>10 DEF IsTasks
    <2>2. \A j \in DOMAIN e : e[j] \in All
      BY <1>15, <1>19, <2>1
    <2>3. ASSUME NEW u \in DOMAIN us
          PROVE  /\ us[u] = [cr3 |-> us[u].cr3, stack |-> us[u].stack, kstack |-> us[u].kstack, code |-> us[u].code]
                 /\ us[u].cr3 \in Frames /\ us[u].stack \in Frames
                 /\ \A j \in DOMAIN us[u].code : us[u].code[j] \in All
      <3>1. CASE u = t
        BY <1>21, <2>1, <2>2, <3>1
      <3>2. CASE u # t
        BY <1>1, <1>20, <3>2 DEF IsTasks
      <3> QED BY <3>1, <3>2
    <2> QED BY <1>1, <1>20, <2>3 DEF IsTasks
  <1>23. TasksOK(us, heap)
    <2>1. /\ r.kstack \in HeapRange /\ r.kstack < heap.end
          /\ DOMAIN e \subseteq 0..(PtSize - 1)
      BY <1>1, <1>4, <1>10, <1>13, <1>19 DEF TasksOK
    <2> QED BY <1>1, <1>20, <1>21, <2>1 DEF TasksOK
  <1>24. ExecOK(us, exec')
    <2>1. CASE x.left = 1
      BY <1>9, <2>1 DEF ExecOK
    <2>2. CASE x.left # 1
      <3>1. PICK y : y = [task |-> t, left |-> x.left - 1]
        OBVIOUS
      <3>2. exec' = {y}
        BY <1>9, <1>10, <2>2, <3>1
      <3>3. y.task = t /\ y.left = x.left - 1 /\ y = [task |-> y.task, left |-> y.left]
        BY <3>1
      <3>4. y.left \in Nat \ {0} /\ l + 1 \in Nat /\ l + 1 + y.left <= MaxCode
        BY <1>10, <1>11, <2>2, <3>3, VMMAssumption
      <3>5. DOMAIN us[t].code = 0..((l + 1) - 1)
        BY <1>11, <1>12, <1>19, <1>21
      <3>6. \E p \in Nat : DOMAIN us[t].code = 0..(p - 1) /\ p + y.left <= MaxCode
        BY <3>4, <3>5
      <3> QED BY <1>10, <1>20, <3>2, <3>3, <3>4, <3>6 DEF ExecOK
    <2> QED BY <2>1, <2>2
  <1>25. n.broken \/ (Core(n, us, heap, {}) /\ Found(n, us, heap, InUse(n, {})))
    <2> SUFFICES ASSUME ~n.broken
                 PROVE  Core(n, us, heap, {}) /\ Found(n, us, heap, InUse(n, {}))
      OBVIOUS
    <2>1. Core(mem, tasks, heap, {}) /\ Found(mem, tasks, heap, InUse(mem, {})) /\ f # 0
      BY <1>1, <1>16, <1>17
    <2>2. m = Taken(mem, f, "code") /\ f \in mem.free /\ f \in Frames
      BY <1>6, <1>15, <2>1
    <2>3. PICK X : X = {} \cup {f}
      OBVIOUS
    <2>4. Core(m, tasks, heap, X) /\ Found(m, tasks, heap, InUse(m, X))
      BY <1>1, <2>1, <2>2, <2>3, TakeCore
    <2>5. X = {f}
      BY <2>3
    <2>6. Core(m, tasks, heap, {f}) /\ Found(m, tasks, heap, InUse(m, {f}))
      BY <2>4, <2>5
    <2>7. f \notin m.free /\ m.role[f] = "code"
      BY <1>1, <1>15, <2>2, TakenIs
    <2>8. DOMAIN heap.at \subseteq Nat /\ (\A w \in DOMAIN heap.at : PdeOf(w) >= 3)
      BY <1>1, HeapPages
    <2>9. /\ i \notin DOMAIN tasks[t].code /\ DOMAIN us[t].code = DOMAIN tasks[t].code \cup {i}
          /\ us[t].code[i] = f /\ (\A j \in DOMAIN tasks[t].code : us[t].code[j] = tasks[t].code[j])
          /\ us[t].cr3 = tasks[t].cr3 /\ us[t].stack = tasks[t].stack
      BY <1>4, <1>13, <1>19, <1>21
    <2>10. n = MapPage(m, d, CodeStart + i, f)
      BY <1>7, <1>8
    <2>11. CASE 1 \in DOMAIN m.pd[d]
      BY <1>1, <1>4, <1>10, <1>13, <1>16, <1>20, <2>2, <2>6, <2>7, <2>8, <2>9, <2>10, <2>11, CodeOld
    <2>12. CASE 1 \notin DOMAIN m.pd[d]
      BY <1>1, <1>4, <1>10, <1>13, <1>16, <1>20, <2>2, <2>6, <2>7, <2>8, <2>9, <2>10, <2>12, CodeNew
    <2> QED BY <2>11, <2>12
  <1>26. Running'
    <2>1. \A u \in DOMAIN tasks : us[u].cr3 = tasks[u].cr3
      BY <1>4, <1>20, <1>21
    <2>2. Running
      BY DEF VMMInv, Types
    <2>3. cr3' = cr3 /\ current_task' = current_task
      BY <1>9
    <2> QED BY <1>18, <1>20, <2>1, <2>2, <2>3 DEF Running, DirOf, Live
  <1>27. Types'
    BY <1>1, <1>9, <1>17, <1>18, <1>22, <1>23, <1>24, <1>26 DEF VMMInv, Types
  <1>28. OwnAccessServed'
    BY <1>9 DEF OwnAccessServed
  <1> QED BY <1>9, <1>18, <1>25, <1>27, <1>28 DEF VMMInv

\* A kernel stack lies in the heap.
LEMMA StackInHeap ==
  ASSUME NEW ts, NEW h, HeapOK(h), TasksOK(ts, h), NEW t \in DOMAIN ts
  PROVE  ts[t].kstack \in DOMAIN h.at
  <1>1. HeapStart \in Nat /\ HeapMax \in Nat /\ h.end \in Nat
    BY Places, HeapPages, VMMAssumption DEF HeapMax
  <1>2. ts[t].kstack \in Nat /\ ts[t].kstack >= HeapStart /\ ts[t].kstack < h.end
    BY <1>1 DEF TasksOK, HeapRange
  <1> QED BY <1>1, <1>2 DEF HeapOK

LEMMA KillStep ==
  ASSUME VMMInv, halt = "no", NEW t, Kill(t)
  PROVE  VMMInv' /\ OwnAccessServed'
  <1>1. /\ IsMem(mem) /\ IsTasks(tasks) /\ HeapOK(heap) /\ TasksOK(tasks, heap)
        /\ cr3 \in All /\ Running
        /\ mem.broken \/ Core(mem, tasks, heap, {})
        /\ mem.broken \/ Found(mem, tasks, heap, InUse(mem, {}))
    BY RunningDir DEF VMMInv, Types
  <1>2. t \in DOMAIN tasks /\ t # current_task /\ exec = {}
    BY DEF Kill, Victims, Live
  <1>3. PICK F, S : F = Freed(t) /\ S = {tasks[t].kstack}
    OBVIOUS
  <1>4. F \in SUBSET Frames /\ \A x : x \in F <=> x = tasks[t].stack \/ x = tasks[t].cr3
    BY <1>1, <1>2, <1>3 DEF Freed, IsTasks
  <1>5. PICK m : m = Released(mem, F)
    OBVIOUS
  <1>6. PICK n : n = Fault(m, cr3, S)
    OBVIOUS
  <1>7. /\ mem' = n /\ halt' = IF \A v \in S : Mapped(n, cr3, v) THEN halt ELSE "heap"
        /\ tasks' = [u \in DOMAIN tasks \ {t} |-> tasks[u]]
        /\ UNCHANGED <<cr3, current_task, heap, exec>>
    BY <1>3, <1>5, <1>6 DEF Kill, Touch, Released, Live
  <1>8. IsMem(m) /\ m.broken = mem.broken
    BY <1>1, <1>4, <1>5, ReleasedIs
  <1>9. IsMem(n) /\ n.broken = m.broken
    BY <1>1, <1>6, <1>8, FaultIs
  <1>10. PICK us : us = tasks'
    OBVIOUS
  <1>11. /\ DOMAIN us = DOMAIN tasks \ {t} /\ (\A u \in DOMAIN tasks \ {t} : us[u] = tasks[u])
         /\ us = [u \in DOMAIN us |-> us[u]]
    BY <1>7, <1>10
  <1>12. IsTasks(us)
    BY <1>1, <1>11 DEF IsTasks
  <1>13. TasksOK(us, heap)
    BY <1>1, <1>11 DEF TasksOK
  <1>14. /\ current_task \in DOMAIN us \cup {Shell}
         /\ cr3 = IF current_task = Shell THEN Master ELSE us[current_task].cr3
    BY <1>1, <1>2, <1>11 DEF Running, Live, DirOf
  <1>15. IsDir(us, cr3)
    BY <1>14 DEF IsDir
  <1>16. S \subseteq DOMAIN heap.at
    BY <1>1, <1>2, <1>3, StackInHeap
  <1>17. n.broken \/ (/\ Core(n, us, heap, {}) /\ Found(n, us, heap, InUse(n, {}))
                   /\ \A v \in S : Mapped(n, cr3, v))
    <2> SUFFICES ASSUME ~n.broken
                 PROVE  /\ Core(n, us, heap, {}) /\ Found(n, us, heap, InUse(n, {}))
                        /\ \A v \in S : Mapped(n, cr3, v)
      OBVIOUS
    <2>1. Core(mem, tasks, heap, {}) /\ Found(mem, tasks, heap, InUse(mem, {}))
      BY <1>1, <1>8, <1>9
    <2>2. Core(m, us, heap, {}) /\ Found(m, us, heap, InUse(m, {}))
      BY <1>1, <1>2, <1>4, <1>5, <1>11, <2>1, KillCore
    <2>3. DOMAIN heap.at \subseteq Nat /\ \A w \in DOMAIN heap.at : PdeOf(w) >= 3
      BY <1>1, HeapPages
    <2>4. /\ Core(n, us, heap, {}) /\ Found(n, us, heap, InUse(n, {}))
          /\ \A v \in S \cap DOMAIN heap.at : Mapped(n, cr3, v)
      BY <1>6, <1>8, <1>12, <1>15, <2>2, <2>3, FaultCore
    <2> QED BY <1>16, <2>4
  <1>18. Running'
    BY <1>7, <1>10, <1>14 DEF Running, Live, DirOf
  <1>19. ExecOK(us, exec')
    BY <1>2, <1>7 DEF ExecOK
  <1>20. Types'
    BY <1>1, <1>7, <1>9, <1>10, <1>12, <1>13, <1>18, <1>19 DEF VMMInv, Types
  <1>21. OwnAccessServed'
    BY <1>7, <1>17 DEF OwnAccessServed
  <1> QED BY <1>7, <1>10, <1>17, <1>20, <1>21 DEF VMMInv

\* The stack of the task that schedule() leaves is in the first table of the heap, which
\* every directory has.
LEMMA FirstTable ==
  ASSUME NEW m, NEW ts, NEW h, HeapOK(h), Core(m, ts, h, {}), NEW d, IsDir(ts, d),
         NEW v \in DOMAIN h.at, PdeOf(v) = 3
  PROVE  Mapped(m, d, v)
  <1>1. PteOf(v) \in DOMAIN m.pt[m.pd[Master][3]] /\ 3 \in DOMAIN m.pd[Master]
    BY DEF Core, Shared
  <1>2. 3 \in DOMAIN m.pd[d] /\ m.pd[d][3] = m.pd[Master][3]
    <2>1. CASE d = Master
      BY <1>1, <2>1
    <2>2. CASE d # Master
      <3>1. PICK t \in DOMAIN ts : d = ts[t].cr3
        BY <2>2 DEF IsDir
      <3> QED BY <3>1 DEF Core, Shared, Pd
    <2> QED BY <2>1, <2>2
  <1> QED BY <1>1, <1>2 DEF Mapped

LEMMA SwitchStep ==
  ASSUME VMMInv, halt = "no", NEW t, Switch(t)
  PROVE  VMMInv' /\ OwnAccessServed'
  <1>1. t \in DOMAIN tasks \cup {Shell} /\ exec = {}
    BY DEF Switch, Live
  <1>2. /\ cr3' = DirOf(t) /\ current_task' = t
        /\ halt' = IF current_task = Shell \/ Mapped(mem, DirOf(t), tasks[current_task].kstack)
                   THEN halt ELSE "stack"
        /\ UNCHANGED <<mem, tasks, heap, exec>>
    BY DEF Switch
  <1>3. Running'
    BY <1>1, <1>2 DEF Running, DirOf, Live
  <1>4. Types'
    BY <1>2, <1>3 DEF VMMInv, Types
  <1>5. VMMInv'
    BY <1>2, <1>4 DEF VMMInv
  <1>6. ASSUME ~mem.broken, current_task # Shell
        PROVE  \/ Mapped(mem, DirOf(t), tasks[current_task].kstack)
               \/ current_task \in Live /\ PdeOf(tasks[current_task].kstack) > PdeOf(HeapStart)
    <2>1. HeapOK(heap) /\ TasksOK(tasks, heap) /\ Core(mem, tasks, heap, {}) /\ current_task \in DOMAIN tasks
      BY <1>6 DEF VMMInv, Types, Running, Live
    <2>2. PICK v : v = tasks[current_task].kstack
      OBVIOUS
    <2>3. v \in DOMAIN heap.at
      BY <2>1, <2>2, StackInHeap
    <2>4. v \in Nat /\ PdeOf(v) >= 3 /\ PdeOf(v) \in Nat /\ PdeOf(HeapStart) = 3
      BY <2>1, <2>3, HeapPages, Division, Places
    <2>5. IsDir(tasks, DirOf(t))
      BY <1>1 DEF DirOf, IsDir
    <2>6. CASE PdeOf(v) = 3
      BY <2>1, <2>2, <2>3, <2>5, <2>6, FirstTable
    <2>7. CASE PdeOf(v) # 3
      BY <2>1, <2>2, <2>4, <2>7 DEF Live
    <2> QED BY <2>6, <2>7
  <1>7. OwnAccessServed'
    <2>1. CASE halt' = "no"
      BY <2>1 DEF OwnAccessServed
    <2>2. CASE halt' # "no"
      <3>1. halt' = "stack" /\ current_task # Shell /\ ~Mapped(mem, DirOf(t), tasks[current_task].kstack)
        BY <1>2, <2>2
      <3>2. CASE mem.broken
        BY <1>2, <3>2 DEF OwnAccessServed
      <3>3. CASE ~mem.broken
        <4>1. current_task \in Live /\ PdeOf(tasks[current_task].kstack) > PdeOf(HeapStart)
          BY <1>6, <3>1, <3>3
        <4>2. \E u \in Live' : PdeOf(tasks'[u].kstack) > PdeOf(HeapStart)
          BY <1>2, <4>1 DEF Live
        <4> QED BY <3>1, <4>2 DEF OwnAccessServed
      <3> QED BY <3>2, <3>3
    <2> QED BY <2>1, <2>2
  <1> QED BY <1>5, <1>7

\* A task finds its own pages; a page of the heap is copied, and any other stops it.
LEMMA UserFaultStep ==
  ASSUME VMMInv, halt = "no", NEW t, NEW v \in Nat, UserFault(t, v)
  PROVE  VMMInv' /\ OwnAccessServed'
  <1>1. t = current_task /\ UNCHANGED <<cr3, current_task, tasks, heap, exec>>
    BY DEF UserFault
  <1>2. /\ IsMem(mem) /\ IsTasks(tasks) /\ HeapOK(heap) /\ IsDir(tasks, cr3) /\ cr3 \in All
        /\ mem.broken \/ Core(mem, tasks, heap, {})
        /\ mem.broken \/ Found(mem, tasks, heap, InUse(mem, {}))
    BY RunningDir DEF VMMInv, Types
  <1>3. CASE KernelHas(mem, v)
    <2>1. PICK S : S = {v}
      OBVIOUS
    <2>2. PICK n : n = Fault(mem, cr3, S)
      OBVIOUS
    <2>3. mem' = n /\ halt' = halt
      BY <1>3, <2>1, <2>2 DEF UserFault
    <2>4. IsMem(n) /\ n.broken = mem.broken
      BY <1>2, <2>2, FaultIs
    <2>5. n.broken \/ (Core(n, tasks, heap, {}) /\ Found(n, tasks, heap, InUse(n, {})))
      <3> SUFFICES ASSUME ~n.broken
                   PROVE  Core(n, tasks, heap, {}) /\ Found(n, tasks, heap, InUse(n, {}))
        OBVIOUS
      <3>1. DOMAIN heap.at \subseteq Nat /\ \A w \in DOMAIN heap.at : PdeOf(w) >= 3
        BY <1>2, HeapPages
      <3>2. Core(mem, tasks, heap, {}) /\ Found(mem, tasks, heap, InUse(mem, {}))
        BY <1>2, <2>4
      <3> QED BY <1>2, <2>2, <3>1, <3>2, FaultCore
    <2>6. Types'
      BY <1>1, <2>3, <2>4 DEF VMMInv, Types, TasksOK, ExecOK, Running, Live, DirOf
    <2> QED BY <1>1, <2>3, <2>5, <2>6 DEF VMMInv, OwnAccessServed
  <1>4. CASE ~KernelHas(mem, v)
    <2>1. mem' = mem /\ halt' = IF v \in OwnPages(t) THEN "user" ELSE "wild"
      BY <1>4 DEF UserFault
    <2>2. VMMInv'
      BY <1>1, <2>1 DEF VMMInv, Types, Running, DirOf, Live
    <2>3. ASSUME v \in OwnPages(t), ~mem.broken PROVE FALSE
      <3>1. /\ t # Shell /\ cr3 = tasks[t].cr3 /\ Placed(mem, tasks) /\ t \in DOMAIN tasks
            /\ DOMAIN tasks[t].code \subseteq 0..(PtSize - 1)
        BY <1>1, <2>3, VMMAssumption DEF VMMInv, Types, Core, Running, DirOf, IsTasks, TasksOK, OwnPages, Live
      <3>2. CASE v = StackPage
        <4>1. PdeOf(v) = 2 /\ PteOf(v) = PtSize - 1 /\ ~(v >= HeapStart)
          BY <3>2, Places
        <4> QED BY <3>1, <4>1 DEF Placed, Pd, Mapped, UserFault
      <3>3. CASE v # StackPage
        <4>1. PICK i \in DOMAIN tasks[t].code : v = CodeStart + i
          BY <2>3, <3>1, <3>3 DEF OwnPages
        <4>2. PdeOf(v) = 1 /\ PteOf(v) = i /\ ~(v >= HeapStart)
          BY <3>1, <4>1, Places
        <4> QED BY <3>1, <4>1, <4>2 DEF Placed, Pd, Mapped, UserFault
      <3> QED BY <3>2, <3>3
    <2> QED BY <2>1, <2>2, <2>3 DEF OwnAccessServed
  <1> QED BY <1>3, <1>4

\* init_vmm and init_heap map the first page of the heap.
LEMMA InitStep ==
  ASSUME Init
  PROVE  VMMInv
  <1>1. PICK m : m = [free |-> Frames \ {1}, pd |-> [f \in {Master} \cup Frames |-> Empty],
                      pt |-> [f \in {0} \cup Frames |-> Empty],
                      role |-> [f \in {0} \cup Frames |-> "heap"], broken |-> FALSE]
    OBVIOUS
  <1>2. /\ mem = MapPage(m, Master, HeapStart, 1) /\ cr3 = Master /\ current_task = Shell
        /\ tasks = Empty /\ exec = {} /\ halt = "no"
        /\ heap = [end |-> HeapStart + 1, last |-> HeapStart, at |-> [v \in {HeapStart} |-> 1]]
    BY <1>1 DEF Init
  <1>3. DOMAIN Empty = {} /\ Empty = [x \in DOMAIN Empty |-> Empty[x]]
    BY DEF Empty
  <1>4. 1 \in Frames /\ 2 \in Frames /\ 1 \in All /\ Master \in All
    BY VMMAssumption DEF Frames, All, Master
  <1>5. /\ m.free = Frames \ {1} /\ m.broken = FALSE
        /\ m.pd = [x \in All |-> Empty] /\ m.pt = [x \in All |-> Empty] /\ m.role = [x \in All |-> "heap"]
        /\ IsRecord(m)
    BY <1>1 DEF All, Master, IsRecord
  <1>6. IsMem(m)
    BY <1>3, <1>5 DEF IsMem, IsRecord
  <1>7. PICK ts, h : ts = Empty /\ h = [at |-> Empty]
    OBVIOUS
  <1>8. DOMAIN ts = {} /\ DOMAIN h.at = {} /\ IsTasks(ts)
    BY <1>3, <1>7 DEF IsTasks
  <1>9. DOMAIN m.pd[Master] = {} /\ m.role[1] = "heap" /\ 1 \notin m.free
    BY <1>3, <1>4, <1>5
  <1>10. Core(m, ts, h, {1})
    <2>1. Shared(m, ts, h)
      BY <1>8, <1>9 DEF Shared
    <2>2. Placed(m, ts)
      BY <1>8 DEF Placed
    <2>3. Roles(m, ts, h)
      BY <1>8, <1>9 DEF Roles
    <2>4. Distinct(m, ts, h)
      BY <1>8, <1>9 DEF Distinct
    <2>5. Within(m, ts, h, InUse(m, {1}))
      BY <1>8, <1>9 DEF Within
    <2> QED BY <2>1, <2>2, <2>3, <2>4, <2>5 DEF Core
  <1>11. Found(m, ts, h, InUse(m, {1}))
    <2>1. InUse(m, {1}) = {}
      BY <1>5 DEF InUse
    <2> QED BY <2>1 DEF Found
  <1>12. PICK n, d, v, f : n = MapPage(m, Master, HeapStart, 1) /\ d = Master /\ v = HeapStart /\ f = 1
    OBVIOUS
  <1>13. n = MapPage(m, d, v, f) /\ v \in Nat /\ d \in All /\ f \in All /\ f \in Frames
    BY <1>4, <1>12, Places
  <1>14. IsMem(n) /\ ~n.broken
    <2>1. PICK i, q, T, in : i = PdeOf(v) /\ q = PteOf(v) /\ T = Alloc(m) /\ in = Sharers(d, v)
      OBVIOUS
    <2>2. i \notin DOMAIN m.pd[d]
      BY <1>9, <1>12
    <2>3. IsMem(n)
      BY <1>6, <1>13, <2>1, <2>2, MapPageNew
    <2>4. n.broken = (m.broken \/ T = 0 \/ KernelHas(m, v))
      BY <1>6, <1>13, <2>1, <2>2, MapPageNew
    <2>5. T # 0
      <3>1. m.free # {}
        BY <1>4, <1>5
      <3> QED BY <1>6, <2>1, <3>1, AllocIs
    <2> QED BY <1>5, <1>9, <2>3, <2>4, <2>5 DEF KernelHas
  <1>15. PICK g : g = heap
    OBVIOUS
  <1>16. /\ g = [end |-> g.end, last |-> g.last, at |-> g.at]
         /\ g.end = HeapStart + 1 /\ g.last = HeapStart /\ g.at = [w \in {HeapStart} |-> 1]
    BY <1>2, <1>15
  <1>17. /\ DOMAIN g.at = DOMAIN h.at \cup {v} /\ g.at[v] = f
         /\ \A w \in DOMAIN h.at : g.at[w] = h.at[w]
    BY <1>8, <1>12, <1>16
  <1>18. HeapOK(g)
    <2>1. HeapStart \in Nat /\ HeapMax \in Nat /\ HeapMax >= HeapStart + 1
      BY Places, VMMAssumption DEF HeapMax
    <2>2. g.end \in (HeapStart + 1)..HeapMax
      BY <1>16, <2>1
    <2>3. DOMAIN g.at = HeapStart..(g.end - 1)
      BY <1>16, <2>1
    <2>4. g.last \in HeapStart..(g.end - 1)
      BY <1>16, <2>1
    <2> QED BY <1>16, <2>2, <2>3, <2>4 DEF HeapOK
  <1>19. Core(n, ts, g, {}) /\ Found(n, ts, g, InUse(n, {}))
    <2>1. IsDir(ts, d) /\ PdeOf(v) >= 3 /\ v >= HeapStart /\ v \notin DOMAIN h.at
      BY <1>8, <1>12, Places DEF IsDir
    <2>2. PdeOf(v) \notin DOMAIN m.pd[d] /\ PdeOf(v) \notin DOMAIN m.pd[Master]
      BY <1>9, <1>12
    <2>3. /\ Core(m, ts, h, {f}) /\ Found(m, ts, h, InUse(m, {f})) /\ m.role[f] = "heap" /\ f \notin m.free
      BY <1>9, <1>10, <1>11, <1>12
    <2>4. DOMAIN h.at \subseteq Nat /\ \A w \in DOMAIN h.at : PdeOf(w) >= 3
      BY <1>8
    <2> QED BY <1>6, <1>8, <1>13, <1>14, <1>17, <2>1, <2>2, <2>3, <2>4, GrowNew
  <1>20. Types
    <2>1. IsMem(mem) /\ IsTasks(tasks) /\ HeapOK(heap)
      BY <1>2, <1>7, <1>8, <1>12, <1>14, <1>15, <1>18
    <2>2. TasksOK(tasks, heap) /\ ExecOK(tasks, exec) /\ Running
      BY <1>2, <1>3 DEF TasksOK, ExecOK, Running, DirOf, Live
    <2> QED BY <1>2, <2>1, <2>2 DEF Types
  <1> QED BY <1>2, <1>7, <1>12, <1>15, <1>19, <1>20 DEF VMMInv

LEMMA VMMStep ==
  ASSUME VMMInv, [Next]_vars
  PROVE  VMMInv' /\ (OwnAccessServed => OwnAccessServed')
  <1>1. CASE Next
    <2>1. halt = "no"
      BY <1>1 DEF Next
    <2>2. ASSUME NEW l \in HeapRange, UseHeap(l) PROVE VMMInv' /\ OwnAccessServed'
      BY <2>1, <2>2, UseHeapStep
    <2>3. CASE Grow
      BY <2>1, <2>3, GrowStep
    <2>4. ASSUME NEW t \in Users, NEW k \in HeapRange, NEW c \in 1..MaxCode, ExecTask(t, k, c)
          PROVE  VMMInv' /\ OwnAccessServed'
      BY <2>1, <2>4, ExecTaskStep
    <2>5. CASE ExecCode
      BY <2>1, <2>5, ExecCodeStep
    <2>6. ASSUME NEW t, Kill(t) PROVE VMMInv' /\ OwnAccessServed'
      BY <2>1, <2>6, KillStep
    <2>7. ASSUME NEW t, Switch(t) PROVE VMMInv' /\ OwnAccessServed'
      BY <2>1, <2>7, SwitchStep
    <2>8. ASSUME NEW t, NEW v \in 0..HeapMax, UserFault(t, v) PROVE VMMInv' /\ OwnAccessServed'
      <3>1. v \in Nat
        BY Places, VMMAssumption DEF HeapMax
      <3> QED BY <2>1, <2>8, <3>1, UserFaultStep
    <2> QED BY <1>1, <2>2, <2>3, <2>4, <2>5, <2>6, <2>7, <2>8 DEF Next
  <1>2. CASE UNCHANGED vars
    <2>1. VMMInv'
      BY <1>2 DEF vars, VMMInv, Types, Running, DirOf, Live
    <2> QED BY <1>2, <2>1 DEF vars, OwnAccessServed, Live
  <1> QED BY <1>1, <1>2

-----------------------------------------------------------------------------
(* What follows from the invariant *)

\* A use of a frame is one of six kinds.
DirUse(x, t) == x = <<tasks[t].cr3, "dir", t>>
StackUse(x, t) == x = <<tasks[t].stack, "stack", t>>
TableUse(x, t, i) == x = <<Pd(mem, tasks, t)[i], "table", t>>
CodeUse(x, t, i) == x = <<tasks[t].code[i], "code", t, i>>
KernelUse(x, i) == x = <<mem.pd[Master][i], "table", Master>>
HeapUse(x, v) == x = <<heap.at[v], "heap", v>>

LEMMA UsesAre ==
  ASSUME NEW x
  PROVE  x \in Uses <=>
           \/ \E t \in DOMAIN tasks : DirUse(x, t)
           \/ \E t \in DOMAIN tasks : StackUse(x, t)
           \/ \E t \in DOMAIN tasks : \E i \in Own(mem, tasks, t) : TableUse(x, t, i)
           \/ \E t \in DOMAIN tasks : \E i \in DOMAIN tasks[t].code : CodeUse(x, t, i)
           \/ \E i \in DOMAIN mem.pd[Master] : KernelUse(x, i)
           \/ \E v \in HeapStart..(heap.end - 1) : HeapUse(x, v)
  <1> DEFINE D(t) == {<<tasks[t].cr3, "dir", t>>, <<tasks[t].stack, "stack", t>>}
             T(t) == {<<mem.pd[tasks[t].cr3][i], "table", t>> :
                        i \in {j \in DOMAIN mem.pd[tasks[t].cr3] : j < PdeOf(HeapStart)}}
             C(t) == {<<tasks[t].code[i], "code", t, i>> : i \in DOMAIN tasks[t].code}
             K == {<<mem.pd[Master][i], "table", Master>> : i \in DOMAIN mem.pd[Master]}
             H == {<<heap.at[v], "heap", v>> : v \in HeapStart..(heap.end - 1)}
  <1>1. ASSUME NEW t
        PROVE  /\ x \in D(t) <=> DirUse(x, t) \/ StackUse(x, t)
               /\ x \in T(t) <=> \E i \in Own(mem, tasks, t) : TableUse(x, t, i)
               /\ x \in C(t) <=> \E i \in DOMAIN tasks[t].code : CodeUse(x, t, i)
    <2>1. x \in D(t) <=> DirUse(x, t) \/ StackUse(x, t)
      BY DEF DirUse, StackUse
    <2>2. {j \in DOMAIN mem.pd[tasks[t].cr3] : j < PdeOf(HeapStart)} = Own(mem, tasks, t)
      BY Places DEF Own, Pd
    <2>3. x \in T(t) <=> \E i \in Own(mem, tasks, t) : TableUse(x, t, i)
      BY <2>2 DEF TableUse, Pd
    <2>4. x \in C(t) <=> \E i \in DOMAIN tasks[t].code : CodeUse(x, t, i)
      BY DEF CodeUse
    <2> QED BY <2>1, <2>3, <2>4
  <1>2. /\ x \in K <=> \E i \in DOMAIN mem.pd[Master] : KernelUse(x, i)
        /\ x \in H <=> \E v \in HeapStart..(heap.end - 1) : HeapUse(x, v)
    BY DEF KernelUse, HeapUse
  <1> DEFINE E(t) == D(t) \cup T(t) \cup C(t)
  <1>3. Uses = (UNION {E(t) : t \in Live}) \cup K \cup H
    BY DEF Uses
  <1> HIDE DEF D, T, C, K, H
  <1>4. x \in Uses <=> (\E t \in DOMAIN tasks : x \in D(t) \/ x \in T(t) \/ x \in C(t)) \/ x \in K \/ x \in H
    <2>1. \A t : x \in E(t) <=> x \in D(t) \/ x \in T(t) \/ x \in C(t)
      OBVIOUS
    <2> HIDE DEF E
    <2>2. x \in UNION {E(t) : t \in Live} <=> \E t \in Live : x \in E(t)
      OBVIOUS
    <2>3. x \in Uses <=> x \in (UNION {E(t) : t \in Live}) \/ x \in K \/ x \in H
      BY <1>3, Zenon
    <2>4. x \in Uses <=> (\E t \in Live : x \in E(t)) \/ x \in K \/ x \in H
      BY <2>2, <2>3, Zenon
    <2> QED BY <2>1, <2>4 DEF Live
  <1> QED BY <1>1, <1>2, <1>4

\* The frame of a use.
LEMMA UseFrame ==
  ASSUME NEW x
  PROVE  /\ \A t : DirUse(x, t) => x[1] = tasks[t].cr3
         /\ \A t : StackUse(x, t) => x[1] = tasks[t].stack
         /\ \A t, i : TableUse(x, t, i) => x[1] = Pd(mem, tasks, t)[i]
         /\ \A t, i : CodeUse(x, t, i) => x[1] = tasks[t].code[i]
         /\ \A i : KernelUse(x, i) => x[1] = mem.pd[Master][i]
         /\ \A v : HeapUse(x, v) => x[1] = heap.at[v]
  BY DEF DirUse, StackUse, TableUse, CodeUse, KernelUse, HeapUse

LEMMA OneUse ==
  ASSUME HeapOK(heap), Core(mem, tasks, heap, {}), NEW x \in Uses, NEW y \in Uses, x[1] = y[1]
  PROVE  x = y
  <1> DEFINE f == x[1]
  <1>1. DOMAIN heap.at = HeapStart..(heap.end - 1) /\ Roles(mem, tasks, heap) /\ Distinct(mem, tasks, heap)
    BY DEF HeapOK, Core
  <1>2. \A z \in Uses :
           \/ (\E t \in DOMAIN tasks : DirUse(z, t)) /\ mem.role[z[1]] = "dir"
           \/ (\E t \in DOMAIN tasks : StackUse(z, t)) /\ mem.role[z[1]] = "stack"
           \/ (\E t \in DOMAIN tasks : \E i \in Own(mem, tasks, t) : TableUse(z, t, i)) /\ mem.role[z[1]] = "table"
           \/ (\E t \in DOMAIN tasks : \E i \in DOMAIN tasks[t].code : CodeUse(z, t, i)) /\ mem.role[z[1]] = "code"
           \/ (\E i \in DOMAIN mem.pd[Master] : KernelUse(z, i)) /\ mem.role[z[1]] = "heap"
           \/ (\E v \in DOMAIN heap.at : HeapUse(z, v)) /\ mem.role[z[1]] = "heap"
    BY <1>1, UsesAre, UseFrame DEF Roles
  <1>3. CASE mem.role[f] = "dir"
    <2>1. PICK t, u \in DOMAIN tasks : DirUse(x, t) /\ DirUse(y, u)
      BY <1>2, <1>3
    <2>2. t = u
      BY <1>1, <2>1, UseFrame DEF Distinct
    <2> QED BY <2>1, <2>2 DEF DirUse
  <1>4. CASE mem.role[f] = "stack"
    <2>1. PICK t, u \in DOMAIN tasks : StackUse(x, t) /\ StackUse(y, u)
      BY <1>2, <1>4
    <2>2. t = u
      BY <1>1, <2>1, UseFrame DEF Distinct
    <2> QED BY <2>1, <2>2 DEF StackUse
  <1>5. CASE mem.role[f] = "table"
    <2>1. PICK t, u \in DOMAIN tasks : /\ \E i \in Own(mem, tasks, t) : TableUse(x, t, i)
                                      /\ \E j \in Own(mem, tasks, u) : TableUse(y, u, j)
      BY <1>2, <1>5
    <2>2. PICK i \in Own(mem, tasks, t), j \in Own(mem, tasks, u) : TableUse(x, t, i) /\ TableUse(y, u, j)
      BY <2>1
    <2>3. t = u /\ i = j
      BY <1>1, <2>2, UseFrame DEF Distinct
    <2> QED BY <2>2, <2>3 DEF TableUse
  <1>6. CASE mem.role[f] = "code"
    <2>1. PICK t, u \in DOMAIN tasks : /\ \E i \in DOMAIN tasks[t].code : CodeUse(x, t, i)
                                      /\ \E j \in DOMAIN tasks[u].code : CodeUse(y, u, j)
      BY <1>2, <1>6
    <2>2. PICK i \in DOMAIN tasks[t].code, j \in DOMAIN tasks[u].code : CodeUse(x, t, i) /\ CodeUse(y, u, j)
      BY <2>1
    <2>3. t = u /\ i = j
      BY <1>1, <2>2, UseFrame DEF Distinct
    <2> QED BY <2>2, <2>3 DEF CodeUse
  <1>7. CASE mem.role[f] = "heap"
    <2>1. \A z \in {x, y} : \/ \E i \in DOMAIN mem.pd[Master] : KernelUse(z, i)
                            \/ \E v \in DOMAIN heap.at : HeapUse(z, v)
      BY <1>2, <1>7
    <2>2. \A v \in DOMAIN heap.at, i \in DOMAIN mem.pd[Master] : heap.at[v] # mem.pd[Master][i]
      BY <1>1 DEF Distinct
    <2>3. \/ \E i, j \in DOMAIN mem.pd[Master] : KernelUse(x, i) /\ KernelUse(y, j)
          \/ \E v, w \in DOMAIN heap.at : HeapUse(x, v) /\ HeapUse(y, w)
      BY <2>1, <2>2, UseFrame
    <2>4. ASSUME NEW i \in DOMAIN mem.pd[Master], NEW j \in DOMAIN mem.pd[Master], KernelUse(x, i), KernelUse(y, j)
          PROVE  x = y
      <3>1. i = j
        BY <1>1, <2>4, UseFrame DEF Distinct
      <3> QED BY <2>4, <3>1 DEF KernelUse
    <2>5. ASSUME NEW v \in DOMAIN heap.at, NEW w \in DOMAIN heap.at, HeapUse(x, v), HeapUse(y, w)
          PROVE  x = y
      <3>1. v = w
        BY <1>1, <2>5, UseFrame DEF Distinct
      <3> QED BY <2>5, <3>1 DEF HeapUse
    <2> QED BY <2>3, <2>4, <2>5
  <1> QED BY <1>2, <1>3, <1>4, <1>5, <1>6, <1>7

LEMMA TypesIs ==
  ASSUME Types
  PROVE  TypeOK
  <1>1. /\ IsMem(mem) /\ IsTasks(tasks) /\ HeapOK(heap)
        /\ halt \in {"no", "heap", "directory", "stack", "user", "wild"}
    BY DEF Types
  <1>2. current_task \in Live \cup {Shell} /\ cr3 \in Dirs
    BY DEF Types, Running, DirOf, Dirs, Live
  <1>3. Dirs \subseteq All /\ Live \subseteq Users
    BY <1>1 DEF Dirs, Live, IsTasks, All, Master
  <1>4. heap.end \in (HeapStart + 1)..HeapMax /\ heap.last \in HeapStart..(heap.end - 1)
    BY <1>1 DEF HeapOK
  <1>5. mem.free \subseteq Frames /\ mem.broken \in BOOLEAN
    BY <1>1 DEF IsMem
  <1>6. \A f \in Dirs : \A i \in DOMAIN mem.pd[f] : mem.pd[f][i] \in {0} \cup Frames
    BY <1>1, <1>3 DEF IsMem, All
  <1>7. \A f \in {0} \cup Frames : \A i \in DOMAIN mem.pt[f] : mem.pt[f][i] \in {0} \cup Frames
    BY <1>1 DEF IsMem, All
  <1> QED BY <1>1, <1>2, <1>3, <1>4, <1>5, <1>6, <1>7 DEF TypeOK

LEMMA HeapSeen ==
  ASSUME VMMInv
  PROVE  OneHeap
  <1> SUFFICES ASSUME ~mem.broken, NEW v \in HeapStart..(heap.end - 1)
               PROVE  /\ PdeOf(v) \in DOMAIN mem.pd[Master]
                      /\ \A d \in Dirs : PdeOf(v) \in DOMAIN mem.pd[d] =>
                           Mapped(mem, d, v) /\ Resolve(mem, d, v) = heap.at[v]
    BY DEF OneHeap
  <1>1. HeapOK(heap) /\ Shared(mem, tasks, heap)
    BY DEF VMMInv, Types, Core
  <1>2. v \in DOMAIN heap.at /\ PdeOf(v) >= 3
    <2>1. v \in DOMAIN heap.at
      BY <1>1 DEF HeapOK
    <2> QED BY <1>1, <2>1, HeapPages
  <1>3. /\ PdeOf(v) \in DOMAIN mem.pd[Master]
        /\ PteOf(v) \in DOMAIN mem.pt[mem.pd[Master][PdeOf(v)]]
        /\ mem.pt[mem.pd[Master][PdeOf(v)]][PteOf(v)] = heap.at[v]
    BY <1>1, <1>2 DEF Shared
  <1>4. ASSUME NEW d \in Dirs, PdeOf(v) \in DOMAIN mem.pd[d]
        PROVE  mem.pd[d][PdeOf(v)] = mem.pd[Master][PdeOf(v)]
    <2>1. CASE d = Master
      BY <2>1
    <2>2. CASE d # Master
      <3>1. PICK t \in DOMAIN tasks : d = tasks[t].cr3
        BY <2>2 DEF Dirs, Live
      <3> QED BY <1>1, <1>2, <1>4, <3>1 DEF Shared, Pd
    <2> QED BY <2>1, <2>2
  <1> QED BY <1>3, <1>4 DEF Mapped, Resolve

LEMMA FramesOwned ==
  ASSUME VMMInv
  PROVE  OwnMemory
  <1>1. TypeOK
    BY TypesIs DEF VMMInv
  <1>2. ASSUME ~mem.broken
        PROVE  /\ \A x, y \in Uses : x[1] = y[1] => x = y
               /\ \A x \in Uses : x[1] \notin mem.free
    <2>1. HeapOK(heap) /\ Core(mem, tasks, heap, {})
      BY <1>2 DEF VMMInv, Types
    <2>2. \A x, y \in Uses : x[1] = y[1] => x = y
      BY <2>1, OneUse
    <2>3. ASSUME NEW x \in Uses PROVE x[1] \notin mem.free
      <3>1. PICK G : G = InUse(mem, {})
        OBVIOUS
      <3>2. Within(mem, tasks, heap, G) /\ DOMAIN heap.at = HeapStart..(heap.end - 1)
        BY <2>1, <3>1 DEF Core, HeapOK
      <3>3. x[1] \in G
        BY <3>2, UsesAre, UseFrame DEF Within
      <3> QED BY <3>1, <3>3 DEF InUse
    <2> QED BY <2>2, <2>3
  <1>3. ASSUME ~mem.broken, NEW t \in Live
        PROVE  /\ Mapped(mem, tasks[t].cr3, StackPage)
               /\ Resolve(mem, tasks[t].cr3, StackPage) = tasks[t].stack
               /\ \A i \in DOMAIN tasks[t].code :
                    /\ Mapped(mem, tasks[t].cr3, CodeStart + i)
                    /\ Resolve(mem, tasks[t].cr3, CodeStart + i) = tasks[t].code[i]
    <2>1. Placed(mem, tasks) /\ DOMAIN tasks[t].code \subseteq 0..(PtSize - 1) /\ t \in DOMAIN tasks
      BY <1>3 DEF VMMInv, Types, Core, TasksOK, Live
    <2>2. PdeOf(StackPage) = 2 /\ PteOf(StackPage) = PtSize - 1
      BY Places
    <2>3. Mapped(mem, tasks[t].cr3, StackPage) /\ Resolve(mem, tasks[t].cr3, StackPage) = tasks[t].stack
      BY <2>1, <2>2 DEF Placed, Pd, Mapped, Resolve
    <2>4. ASSUME NEW i \in DOMAIN tasks[t].code
          PROVE  /\ Mapped(mem, tasks[t].cr3, CodeStart + i)
                 /\ Resolve(mem, tasks[t].cr3, CodeStart + i) = tasks[t].code[i]
      <3>1. PdeOf(CodeStart + i) = 1 /\ PteOf(CodeStart + i) = i
        BY <2>1, Places
      <3> QED BY <2>1, <3>1 DEF Placed, Pd, Mapped, Resolve
    <2> QED BY <2>3, <2>4
  <1> QED BY <1>1, <1>2, <1>3 DEF OwnMemory

LEMMA FramesFound ==
  ASSUME VMMInv
  PROVE  OnlyTablesAndCodeLeak
  <1> SUFFICES ASSUME ~mem.broken, halt # "directory", NEW f \in Frames \ mem.free,
                      mem.role[f] \notin {"table", "code"}
               PROVE  \E x \in Uses : x[1] = f
    BY DEF OnlyTablesAndCodeLeak
  <1>1. HeapOK(heap) /\ Found(mem, tasks, heap, InUse(mem, {})) /\ f \in InUse(mem, {})
    BY DEF VMMInv, Types, InUse
  <1>2. \/ \E t \in DOMAIN tasks : f = tasks[t].cr3
        \/ \E t \in DOMAIN tasks : f = tasks[t].stack
        \/ \E i \in DOMAIN mem.pd[Master] : f = mem.pd[Master][i]
        \/ \E v \in DOMAIN heap.at : f = heap.at[v]
    BY <1>1 DEF Found
  <1>3. ASSUME NEW t \in DOMAIN tasks, f = tasks[t].cr3 PROVE \E x \in Uses : x[1] = f
    <2>1. PICK x : DirUse(x, t)
      BY DEF DirUse
    <2> QED BY <1>3, <2>1, UsesAre, UseFrame
  <1>4. ASSUME NEW t \in DOMAIN tasks, f = tasks[t].stack PROVE \E x \in Uses : x[1] = f
    <2>1. PICK x : StackUse(x, t)
      BY DEF StackUse
    <2> QED BY <1>4, <2>1, UsesAre, UseFrame
  <1>5. ASSUME NEW i \in DOMAIN mem.pd[Master], f = mem.pd[Master][i] PROVE \E x \in Uses : x[1] = f
    <2>1. PICK x : KernelUse(x, i)
      BY DEF KernelUse
    <2> QED BY <1>5, <2>1, UsesAre, UseFrame
  <1>6. ASSUME NEW v \in DOMAIN heap.at, f = heap.at[v] PROVE \E x \in Uses : x[1] = f
    <2>1. PICK x : HeapUse(x, v)
      BY DEF HeapUse
    <2>2. v \in HeapStart..(heap.end - 1)
      BY <1>1 DEF HeapOK
    <2> QED BY <1>6, <2>1, <2>2, UsesAre, UseFrame
  <1> QED BY <1>2, <1>3, <1>4, <1>5, <1>6

-----------------------------------------------------------------------------
(* Theorems.  They promise nothing once a failed allocation has been used as frame 0 or a *)
(* table of the kernel's directory was replaced (mem.broken): the code can do both, so    *)
(* these are the only two ways in which what they say can fail.                           *)

\* The invariant holds of exec, kill_task, the heap's growth, page faults and task
\* switches, in any order.
THEOREM VMMSafe == Spec => []VMMInv
  <1>1. Init => VMMInv
    BY InitStep
  <1>2. VMMInv /\ [Next]_vars => VMMInv'
    BY VMMStep
  <1> QED BY <1>1, <1>2, PTL DEF Spec

\* vmm_map_page and page_fault_handler keep one heap in all directories: a page that a
\* directory maps is the frame that kmalloc got for it, and the kernel's maps them all.
THEOREM HeapIsOne == Spec => []OneHeap
  <1>1. VMMInv => OneHeap
    BY HeapSeen
  <1>2. Spec => []VMMInv
    BY VMMSafe
  <1> QED BY <1>1, <1>2, PTL

\* No frame has two uses or is free while in use, and a program's pages are where its
\* directory says, whatever exec, kill_task and kmalloc do.
THEOREM MemoryOwned == Spec => []OwnMemory
  <1>1. VMMInv => OwnMemory
    BY FramesOwned
  <1>2. Spec => []VMMInv
    BY VMMSafe
  <1> QED BY <1>1, <1>2, PTL

\* kill_task loses page tables and code pages, and no other frame is ever lost.
THEOREM NothingElseLost == Spec => []OnlyTablesAndCodeLeak
  <1>1. VMMInv => OnlyTablesAndCodeLeak
    BY FramesFound
  <1>2. Spec => []VMMInv
    BY VMMSafe
  <1> QED BY <1>1, <1>2, PTL

\* page_fault_handler serves every access of the kernel to its heap, and a program finds its
\* own pages.  The machine stops for a page that is nobody's, for want of a frame for a
\* directory, or on a kernel stack beyond the heap's first table.
THEOREM OwnAccessAlwaysServed == Spec => []OwnAccessServed
  <1>1. Init => OwnAccessServed
    BY DEF Init, OwnAccessServed
  <1>2. VMMInv /\ OwnAccessServed /\ [Next]_vars => OwnAccessServed'
    BY VMMStep
  <1>3. Spec => []VMMInv
    BY VMMSafe
  <1> QED BY <1>1, <1>2, <1>3, PTL DEF Spec
=============================================================================

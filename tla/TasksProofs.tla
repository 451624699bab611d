---------------------------- MODULE TasksProofs ----------------------------
(***************************************************************************)
(* Proofs about Tasks, for any number of tasks, any sleeping times and any *)
(* width of the tick counter, when ticks fall only in harmless windows:    *)
(* the list of tasks stays one cycle of exactly the allocated ones and     *)
(* nothing freed is followed, the context switch keeps every task on its   *)
(* own stack and every user program in its own, complete address space,    *)
(* and no sleeper wakes early until the tick counter wraps.                *)
(***************************************************************************)
EXTENDS Tasks, FiniteSetTheorems, TLAPS

USE DEF KernelPid, SpinnerPid, IsUser

\* PIDs are naturals.
LEMMA PidFacts ==
  /\ MaxPid \in Nat /\ Pids \subseteq Nat /\ 0 \in Pids /\ 1 \in Pids
  /\ TypeOK => next_pid \in Nat
  <1>1. MaxPid \in Nat /\ MaxPid >= 1
    BY TasksAssumption
  <1> QED BY <1>1 DEF Pids, TypeOK

-----------------------------------------------------------------------------
(* The ring *)

\* A nonempty set of natural numbers has a least element.
LEMMA Least ==
  ASSUME NEW S \in SUBSET Nat, S # {}
  PROVE  \E x \in S : \A y \in S : x <= y
  <1>1. PICK s \in S : TRUE
    OBVIOUS
  <1> DEFINE T == {y \in S : y <= s}
             Below(x) == {y \in T : y <= x}
             F == {Below(x) : x \in T}
  <1>2. IsFiniteSet(T)
    <2>1. T \in SUBSET Nat /\ s \in Nat /\ \A t \in T : t <= s
      OBVIOUS
    <2> QED BY <2>1, FS_BoundedSetOfNaturals
  <1>3. F \subseteq FiniteSubsetsOf(T)
    BY <1>2, FS_FiniteSubsetsOfFinite
  <1>4. F # {}
    <2>1. s \in T
      OBVIOUS
    <2>2. Below(s) \in F
      BY <2>1
    <2> HIDE DEF F
    <2> QED BY <2>2
  <1>5. IsWellFoundedOn(StrictSubsetOrdering(T), FiniteSubsetsOf(T))
    BY FS_StrictSubsetOrderingWellFounded
  <1>6. PICK U \in F : \A V \in F : ~(<<V, U>> \in StrictSubsetOrdering(T))
    BY <1>3, <1>4, <1>5, WFMin
  <1>7. PICK x \in T : U = Below(x)
    OBVIOUS
  <1>8. ASSUME NEW y \in T, y < x PROVE FALSE
    <2>1. \A z \in Below(y) : z \in U
      BY <1>7, <1>8
    <2>2. x \in U /\ x \notin Below(y)
      BY <1>7, <1>8
    <2>3. <<Below(y), U>> \in (SUBSET T) \X (SUBSET T)
      BY <1>7
    <2>4. Below(y) \in F
      BY <1>8
    <2> HIDE DEF Below, F
    <2>5. Below(y) \subseteq U /\ Below(y) # U
      BY <2>1, <2>2
    <2>6. <<Below(y), U>> \in StrictSubsetOrdering(T)
      BY <2>3, <2>5 DEF StrictSubsetOrdering
    <2> QED BY <1>6, <2>4, <2>6
  <1>9. x \in S /\ \A y \in S : x <= y
    BY <1>8
  <1> QED BY <1>9

\* Min of a nonempty set of naturals.
LEMMA MinIs ==
  ASSUME NEW S \in SUBSET Nat, S # {}
  PROVE  Min(S) \in S /\ \A y \in S : Min(S) <= y
  <1>1. \E x \in S : \A y \in S : x <= y
    BY Least
  <1> QED BY <1>1 DEF Min

\* s are the first m + 1 tasks behind c.
IsTrail(s, nx, c, m) == s = [k \in 0..m |-> IF k = 0 THEN nx[c] ELSE nx[s[k - 1]]]

\* Following next pointers has a result.
LEMMA TrailExists ==
  ASSUME NEW nx, NEW c, NEW n \in Nat
  PROVE  \E s : IsTrail(s, nx, c, n)
  <1> DEFINE Bad == {m \in 0..n : ~\E s : IsTrail(s, nx, c, m)}
  <1>1. ASSUME Bad # {} PROVE FALSE
    <2>1. Bad \in SUBSET Nat
      OBVIOUS
    <2>2. PICK m \in Bad : \A y \in Bad : m <= y
      <3> HIDE DEF Bad
      <3> QED BY <1>1, <2>1, Least
    <2>3. CASE m = 0
      <3>1. IsTrail([k \in 0..0 |-> nx[c]], nx, c, 0)
        BY DEF IsTrail
      <3> QED BY <2>3, <3>1
    <2>4. CASE m # 0
      <3>1. m - 1 \in 0..n /\ m \in Nat /\ ~(m <= m - 1)
        BY <2>4
      <3>2. m - 1 \notin Bad
        BY <2>2, <3>1
      <3>3. PICK s : IsTrail(s, nx, c, m - 1)
        BY <3>1, <3>2
      <3>4. PICK h : h = [k \in 0..m |-> IF k = m THEN nx[s[m - 1]] ELSE s[k]]
        OBVIOUS
      <3>5. \A k \in 0..(m - 1) : h[k] = s[k]
        BY <3>1, <3>4
      <3>6. \A k \in 0..(m - 1) : s[k] = IF k = 0 THEN nx[c] ELSE nx[s[k - 1]]
        BY <3>3 DEF IsTrail
      <3>7. ASSUME NEW k \in 0..m PROVE h[k] = IF k = 0 THEN nx[c] ELSE nx[h[k - 1]]
        <4>1. CASE k = m
          <5>1. h[k] = nx[s[m - 1]] /\ h[m - 1] = s[m - 1]
            BY <2>4, <3>1, <3>4, <3>5, <4>1
          <5> QED BY <2>4, <4>1, <5>1
        <4>2. CASE k # m
          <5>1. k \in 0..(m - 1) /\ (k # 0 => k - 1 \in 0..(m - 1))
            BY <3>1, <4>2
          <5>2. h[k] = s[k] /\ (k # 0 => h[k - 1] = s[k - 1])
            BY <3>5, <5>1
          <5> QED BY <3>6, <5>1, <5>2
        <4> QED BY <4>1, <4>2
      <3>8. h = [k \in 0..m |-> h[k]]
        BY <3>4
      <3>9. IsTrail(h, nx, c, m)
        BY <3>7, <3>8 DEF IsTrail
      <3> QED BY <3>9
    <2> QED BY <2>3, <2>4
  <1>2. n \notin Bad
    BY <1>1
  <1> QED BY <1>2

\* What Trail is.
LEMMA TrailIs ==
  ASSUME NEW nx, NEW c
  PROVE  /\ Trail(nx, c)[0] = nx[c]
         /\ \A k \in Pids : k > 0 => k - 1 \in Pids /\ Trail(nx, c)[k] = nx[Trail(nx, c)[k - 1]]
  <1>1. MaxPid \in Nat
    BY TasksAssumption
  <1>2. \E s : IsTrail(s, nx, c, MaxPid)
    BY <1>1, TrailExists
  <1>3. PICK s : s = CHOOSE t : IsTrail(t, nx, c, MaxPid)
    OBVIOUS
  <1>4. IsTrail(s, nx, c, MaxPid)
    BY <1>2, <1>3
  <1>5. Trail(nx, c) = s
    BY <1>3 DEF Trail, IsTrail, Pids
  <1> QED BY <1>1, <1>4, <1>5 DEF IsTrail, Pids

\* A trail that enters a cycle stays in it and meets all its tasks.
LEMMA TrailMeetsAll ==
  ASSUME NEW nx, NEW R \in SUBSET Pids, Cycle(nx, R), NEW c, nx[c] \in R
  PROVE  /\ \A k \in Pids : Trail(nx, c)[k] \in R
         /\ \A r \in R : \E k \in Pids : Trail(nx, c)[k] = r
  <1>0. MaxPid \in Nat /\ Pids = 0..MaxPid
    BY TasksAssumption DEF Pids
  <1>1. PICK s : s = Trail(nx, c)
    OBVIOUS
  <1>2. s[0] = nx[c] /\ \A k \in Pids : k > 0 => k - 1 \in Pids /\ s[k] = nx[s[k - 1]]
    BY <1>1, TrailIs
  <1>3. \A k \in Pids : s[k] \in R
    <2> DEFINE Bad == {k \in Pids : s[k] \notin R}
    <2>1. ASSUME Bad # {} PROVE FALSE
      <3>1. Bad \in SUBSET Nat
        BY <1>0
      <3>2. PICK m \in Bad : \A y \in Bad : m <= y
        <4> HIDE DEF Bad
        <4> QED BY <2>1, <3>1, Least
      <3>3. m \in Nat /\ m # 0
        BY <1>0, <1>2
      <3>4. m - 1 \in Pids /\ ~(m <= m - 1) /\ s[m] = nx[s[m - 1]]
        BY <1>0, <1>2, <3>3
      <3>5. s[m - 1] \in R
        BY <3>2, <3>4
      <3> QED BY <3>4, <3>5 DEF Cycle
    <2> QED BY <2>1
  <1> DEFINE T == {s[k] : k \in Pids}
  <1>4. CASE \E i, j \in Pids : i < j /\ s[i] = s[j]
    <2>1. PICK i \in Pids, j \in Pids : i < j /\ s[i] = s[j]
      BY <1>4
    <2> DEFINE S == {s[k] : k \in i..(j - 1)}
    <2>2. i \in Nat /\ j \in Nat /\ j <= MaxPid
      BY <1>0, <2>1
    <2>3. \A k \in i..(j - 1) : k \in Pids /\ k + 1 \in Pids /\ k + 1 > 0 /\ (k + 1) - 1 = k
      BY <1>0, <2>2
    <2>4. S \in SUBSET R
      BY <1>3, <2>3
    <2>5. s[i] \in S
      BY <2>1, <2>2
    <2>6. ASSUME NEW k \in i..(j - 1) PROVE nx[s[k]] \in S
      <3>1. nx[s[k]] = s[k + 1]
        BY <1>2, <2>3
      <3>2. CASE k = j - 1
        BY <2>1, <2>2, <2>5, <3>1, <3>2
      <3>3. CASE k # j - 1
        <4>1. k + 1 \in i..(j - 1)
          BY <2>2, <3>3
        <4> QED BY <3>1, <4>1
      <3> QED BY <3>2, <3>3
    <2>7. \A p \in S : nx[p] \in S
      BY <2>6
    <2>8. S = R
      <3> HIDE DEF S
      <3> QED BY <2>4, <2>5, <2>7 DEF Cycle
    <2> QED BY <1>1, <1>3, <2>3, <2>8
  <1>5. CASE \A i, j \in Pids : ~(i < j /\ s[i] = s[j])
    <2>1. \A i, j \in Pids : i # j => s[i] # s[j]
      BY <1>0, <1>5
    <2>2. PICK f : f = [k \in Pids |-> s[k]]
      OBVIOUS
    <2>3. f \in Injection(Pids, R)
      BY <1>3, <2>1, <2>2 DEF Injection, IsInjective
    <2>4. IsFiniteSet(Pids) /\ Cardinality(Pids) = MaxPid + 1
      BY <1>0, FS_Interval
    <2>5. IsFiniteSet(R) /\ Cardinality(R) <= Cardinality(Pids) /\ Cardinality(R) \in Nat
      BY <2>4, FS_Subset, FS_CardinalityType
    <2>6. Cardinality(Pids) = Cardinality(R) /\ f \in Surjection(Pids, R)
      BY <1>0, <2>3, <2>4, <2>5, FS_Injection
    <2> QED BY <1>1, <1>3, <2>2, <2>6 DEF Surjection
  <1> QED BY <1>4, <1>5

\* Inserting a new task n behind c (create_user_task) leaves one cycle.
LEMMA CycleInsert ==
  ASSUME NEW nx \in [Pids -> Pids], NEW R \in SUBSET Pids, Cycle(nx, R),
         NEW c \in R, NEW n \in Pids \ R
  PROVE  Cycle([nx EXCEPT ![n] = nx[c], ![c] = n], R \cup {n})
  <1>1. PICK u : u = [nx EXCEPT ![n] = nx[c], ![c] = n]
    OBVIOUS
  <1>2. u[c] = n /\ u[n] = nx[c] /\ \A p \in R \ {c} : u[p] = nx[p]
    BY <1>1
  <1>3. \A p \in R \cup {n} : u[p] \in R \cup {n}
    BY <1>2 DEF Cycle
  <1>4. \A p, q \in R \cup {n} : u[p] = u[q] => p = q
    BY <1>2 DEF Cycle
  <1>5. ASSUME NEW S \in SUBSET (R \cup {n}), S # {}, \A p \in S : u[p] \in S
        PROVE  S = R \cup {n}
    <2>1. S \ {n} # {}
      BY <1>2, <1>5 DEF Cycle
    <2>2. \A p \in S \ {n} : nx[p] \in S \ {n}
      BY <1>2, <1>5 DEF Cycle
    <2>3. S \ {n} \in SUBSET R
      OBVIOUS
    <2>4. S \ {n} = R
      BY <2>1, <2>2, <2>3 DEF Cycle
    <2>5. n \in S
      BY <1>2, <1>5, <2>4
    <2> QED BY <2>4, <2>5
  <1>6. Cycle(u, R \cup {n})
    BY <1>3, <1>4, <1>5 DEF Cycle
  <1> QED BY <1>1, <1>6

\* kill_task's prev->next = t->next leaves one cycle without t.
LEMMA CycleRemove ==
  ASSUME NEW nx \in [Pids -> Pids], NEW R \in SUBSET Pids, Cycle(nx, R),
         NEW c \in R, nx[c] # c
  PROVE  Cycle([nx EXCEPT ![c] = nx[nx[c]]], R \ {nx[c]})
  <1>1. PICK u, t : u = [nx EXCEPT ![c] = nx[nx[c]]] /\ t = nx[c]
    OBVIOUS
  <1>2. t \in R /\ t # c /\ u[c] = nx[t] /\ \A p \in R \ {c} : u[p] = nx[p]
    BY <1>1 DEF Cycle
  <1>3. nx[t] # t
    <2>1. ASSUME nx[t] = t PROVE FALSE
      <3>1. {t} \in SUBSET R /\ {t} # {} /\ \A p \in {t} : nx[p] \in {t}
        BY <1>2, <2>1
      <3>2. {t} = R
        BY <3>1 DEF Cycle
      <3> QED BY <1>2, <3>2
    <2> QED BY <2>1
  <1>4. \A p \in R \ {t} : u[p] \in R \ {t}
    BY <1>1, <1>2, <1>3 DEF Cycle
  <1>5. \A p, q \in R \ {t} : u[p] = u[q] => p = q
    BY <1>1, <1>2 DEF Cycle
  <1>6. ASSUME NEW S \in SUBSET (R \ {t}), S # {}, \A p \in S : u[p] \in S
        PROVE  S = R \ {t}
    <2>1. CASE c \in S
      <3>1. S \cup {t} \in SUBSET R /\ S \cup {t} # {}
        BY <1>2, <1>6
      <3>2. \A p \in S \cup {t} : nx[p] \in S \cup {t}
        BY <1>1, <1>2, <1>6, <2>1
      <3>3. S \cup {t} = R
        BY <3>1, <3>2 DEF Cycle
      <3> QED BY <3>3
    <2>2. CASE c \notin S
      <3>1. S \in SUBSET R /\ \A p \in S : nx[p] \in S
        BY <1>2, <1>6, <2>2
      <3>2. S = R
        BY <1>6, <3>1 DEF Cycle
      <3> QED BY <1>2, <3>2
    <2> QED BY <2>1, <2>2
  <1>7. Cycle(u, R \ {t})
    BY <1>4, <1>5, <1>6 DEF Cycle
  <1> QED BY <1>1, <1>7

\* Unlink leads every task to the first one behind it that stays.
LEMMA UnlinkSkips ==
  ASSUME NEW nx, NEW R \in SUBSET Pids, Cycle(nx, R),
         NEW gone \in SUBSET R, gone # R, NEW p \in Pids, nx[p] \in R
  PROVE  \E k \in Pids :
           /\ Unlink(nx, gone)[p] = Trail(nx, p)[k]
           /\ Trail(nx, p)[k] \in R \ gone
           /\ \A j \in Pids : j < k => Trail(nx, p)[j] \in gone
  <1>0. Pids \subseteq Nat /\ 0 \in Pids
    BY PidFacts
  <1>1. PICK s : s = Trail(nx, p)
    OBVIOUS
  <1>2. /\ s[0] = nx[p]
        /\ \A k \in Pids : s[k] \in R
        /\ \A r \in R : \E k \in Pids : s[k] = r
    BY <1>1, TrailMeetsAll, TrailIs
  <1> DEFINE K == {k \in Pids : s[k] \notin gone}
  <1>3. K \in SUBSET Nat /\ K # {}
    BY <1>0, <1>2
  <1>4. Min(K) \in K /\ \A y \in K : Min(K) <= y
    <2> HIDE DEF K
    <2> QED BY <1>3, MinIs
  <1>5. Unlink(nx, gone)[p] = IF nx[p] \notin gone THEN nx[p] ELSE s[Min(K)]
    BY <1>1 DEF Unlink
  <1>6. PICK k : k = Min(K)
    OBVIOUS
  <1>7. k \in Pids /\ s[k] \notin gone /\ \A y \in Pids : s[y] \notin gone => k <= y
    BY <1>4, <1>6
  <1>8. nx[p] \notin gone => k = 0
    BY <1>0, <1>2, <1>7
  <1>9. Unlink(nx, gone)[p] = s[k]
    <2> HIDE DEF K
    <2> QED BY <1>2, <1>5, <1>6, <1>8
  <1>10. \A j \in Pids : j < k => s[j] \in gone
    BY <1>0, <1>7
  <1> QED BY <1>1, <1>2, <1>7, <1>9, <1>10

\* Trails through a cycle that meet come from the same task.
LEMMA TrailsBack ==
  ASSUME NEW nx, NEW R \in SUBSET Pids, Cycle(nx, R), NEW p \in R, NEW q \in R,
         NEW k \in Pids, NEW l \in Pids, k <= l, Trail(nx, p)[k] = Trail(nx, q)[l]
  PROVE  p = q \/ \E j \in Pids : j < l /\ Trail(nx, q)[j] = p
  <1>0. MaxPid \in Nat /\ Pids = 0..MaxPid
    BY TasksAssumption DEF Pids
  <1>1. PICK s, t : s = Trail(nx, p) /\ t = Trail(nx, q)
    OBVIOUS
  <1>2. /\ s[0] = nx[p] /\ \A i \in Pids : i > 0 => i - 1 \in Pids /\ s[i] = nx[s[i - 1]]
        /\ t[0] = nx[q] /\ \A i \in Pids : i > 0 => i - 1 \in Pids /\ t[i] = nx[t[i - 1]]
    BY <1>1, TrailIs
  <1>3. nx[p] \in R /\ nx[q] \in R
    BY DEF Cycle
  <1>4. \A i \in Pids : s[i] \in R /\ t[i] \in R
    BY <1>1, <1>3, TrailMeetsAll
  <1>5. k \in Nat /\ l \in Nat /\ l <= MaxPid
    BY <1>0
  <1> DEFINE Bad == {i \in 0..k : s[k - i] # t[l - i]}
  <1>6. ASSUME Bad # {} PROVE FALSE
    <2>1. Bad \in SUBSET Nat
      OBVIOUS
    <2>2. PICK m \in Bad : \A y \in Bad : m <= y
      <3> HIDE DEF Bad
      <3> QED BY <1>6, <2>1, Least
    <2>3. m \in 0..k /\ m # 0
      BY <1>1, <1>5
    <2>4. /\ m - 1 \in 0..k /\ ~(m <= m - 1)
          /\ k - (m - 1) = (k - m) + 1 /\ l - (m - 1) = (l - m) + 1
          /\ k - m \in Pids /\ l - m \in Pids /\ (k - m) + 1 \in Pids /\ (l - m) + 1 \in Pids
          /\ (k - m) + 1 > 0 /\ (l - m) + 1 > 0
          /\ ((k - m) + 1) - 1 = k - m /\ ((l - m) + 1) - 1 = l - m
      BY <1>0, <1>5, <2>3
    <2>5. s[(k - m) + 1] = t[(l - m) + 1]
      BY <2>2, <2>4
    <2>6. nx[s[k - m]] = nx[t[l - m]]
      BY <1>2, <2>4, <2>5
    <2>7. s[k - m] = t[l - m]
      BY <1>4, <2>4, <2>6 DEF Cycle
    <2> QED BY <2>7
  <1>7. s[0] = t[l - k]
    <2>1. k \in 0..k /\ k - k = 0
      BY <1>5
    <2> QED BY <1>6, <2>1
  <1>8. l - k \in Pids
    BY <1>0, <1>5
  <1>9. CASE l - k = 0
    <2>1. nx[p] = nx[q]
      BY <1>2, <1>7, <1>9
    <2> QED BY <2>1 DEF Cycle
  <1>10. CASE l - k # 0
    <2>1. l - k > 0 /\ (l - k) - 1 < l
      BY <1>5, <1>10
    <2>2. (l - k) - 1 \in Pids /\ t[l - k] = nx[t[(l - k) - 1]]
      BY <1>2, <1>8, <2>1
    <2>3. nx[p] = nx[t[(l - k) - 1]] /\ t[(l - k) - 1] \in R
      BY <1>2, <1>4, <1>7, <2>2
    <2>4. t[(l - k) - 1] = p
      BY <2>3 DEF Cycle
    <2> QED BY <1>1, <2>1, <2>2, <2>4
  <1> QED BY <1>9, <1>10

\* Reaping some tasks of a cycle, not all, leaves one cycle of the others.
LEMMA CycleUnlink ==
  ASSUME NEW nx, NEW R \in SUBSET Pids, Cycle(nx, R), NEW gone \in SUBSET R, gone # R
  PROVE  Cycle(Unlink(nx, gone), R \ gone)
  <1>0. Pids \subseteq Nat /\ 0 \in Pids /\ MaxPid \in Nat /\ Pids = 0..MaxPid
    BY PidFacts, TasksAssumption DEF Pids
  <1>1. PICK u : u = Unlink(nx, gone)
    OBVIOUS
  <1>2. \A p \in R : p \in Pids /\ nx[p] \in R
    BY DEF Cycle
  <1>3. ASSUME NEW p \in R
        PROVE  \E k \in Pids : /\ u[p] = Trail(nx, p)[k]
                               /\ u[p] \in R \ gone
                               /\ \A j \in Pids : j < k => Trail(nx, p)[j] \in gone
    BY <1>1, <1>2, UnlinkSkips
  <1>4. \A p \in R \ gone : u[p] \in R \ gone
    BY <1>3
  <1>5. ASSUME NEW p \in R \ gone, NEW q \in R \ gone, u[p] = u[q]
        PROVE  p = q
    <2>1. PICK k \in Pids : /\ u[p] = Trail(nx, p)[k]
                            /\ \A j \in Pids : j < k => Trail(nx, p)[j] \in gone
      BY <1>3
    <2>2. PICK l \in Pids : /\ u[q] = Trail(nx, q)[l]
                            /\ \A j \in Pids : j < l => Trail(nx, q)[j] \in gone
      BY <1>3
    <2>0. p \in R /\ q \in R /\ Trail(nx, p)[k] = Trail(nx, q)[l]
      BY <1>5, <2>1, <2>2
    <2>3. CASE k <= l
      <3>1. p = q \/ \E j \in Pids : j < l /\ Trail(nx, q)[j] = p
        BY <2>0, <2>3, TrailsBack
      <3> QED BY <2>2, <3>1
    <2>4. CASE l <= k
      <3>1. q = p \/ \E j \in Pids : j < k /\ Trail(nx, p)[j] = q
        BY <2>0, <2>4, TrailsBack
      <3> QED BY <2>1, <3>1
    <2> QED BY <1>0, <2>3, <2>4
  <1>6. ASSUME NEW S \in SUBSET (R \ gone), S # {}, \A p \in S : u[p] \in S
        PROVE  S = R \ gone
    <2> DEFINE Passed(x) == \E p \in S, j \in Pids :
                              x = Trail(nx, p)[j] /\ \A i \in 0..j : Trail(nx, p)[i] \in gone
               T == {x \in R : x \in S \/ (x \in gone /\ Passed(x))}
    <2>0. /\ S \subseteq R /\ S \cap gone = {} /\ S # {} /\ \A p \in S : u[p] \in S
          /\ S \subseteq T
      <3>1. S \subseteq R /\ S \cap gone = {} /\ S # {}
        BY <1>6
      <3>2. \A p \in S : u[p] \in S
        BY <1>6
      <3>3. \A p \in S : p \in T
        <4> HIDE DEF Passed
        <4> QED BY <3>1
      <3> HIDE DEF T
      <3> QED BY <3>1, <3>2, <3>3
    <2>1. T \in SUBSET R /\ T # {}
      <3>1. T \in SUBSET R
        OBVIOUS
      <3> HIDE DEF T
      <3> QED BY <2>0, <3>1
    <2>2. ASSUME NEW p \in S PROVE nx[p] \in T
      <3>0. p \in R
        OBVIOUS
      <3>1. PICK k \in Pids : /\ u[p] = Trail(nx, p)[k]
                              /\ \A j \in Pids : j < k => Trail(nx, p)[j] \in gone
        BY <1>3, <3>0
      <3>2. nx[p] = Trail(nx, p)[0] /\ nx[p] \in R
        BY <1>2, <3>0, TrailIs
      <3>3. CASE k = 0
        <4>1. nx[p] = u[p]
          BY <3>1, <3>2, <3>3
        <4>2. u[p] \in T
          BY <2>0
        <4> QED BY <4>1, <4>2
      <3>4. CASE k # 0
        <4>1. 0 < k /\ \A i \in 0..0 : i = 0
          BY <1>0, <3>4
        <4>2. nx[p] \in gone /\ Passed(nx[p])
          BY <1>0, <3>1, <3>2, <4>1
        <4> QED BY <3>2, <4>2
      <3> QED BY <3>3, <3>4
    <2>3. ASSUME NEW x \in R, x \in gone, Passed(x) PROVE nx[x] \in T
      <3>1. PICK p \in S, j \in Pids :
               x = Trail(nx, p)[j] /\ \A i \in 0..j : Trail(nx, p)[i] \in gone
        BY <2>3
      <3>0. p \in R /\ j \in Nat /\ nx[x] \in R
        BY <1>0, <1>2
      <3>2. PICK k \in Pids : /\ u[p] = Trail(nx, p)[k] /\ u[p] \in R \ gone
                              /\ \A m \in Pids : m < k => Trail(nx, p)[m] \in gone
        BY <1>3, <3>0
      <3>3. k > j
        <4>1. k \in Nat /\ (k <= j => k \in 0..j)
          BY <1>0, <3>0
        <4>2. k \notin 0..j
          BY <3>1, <3>2
        <4> QED BY <3>0, <4>1, <4>2
      <3>4. j + 1 \in Pids /\ j + 1 > 0 /\ (j + 1) - 1 = j /\ j + 1 <= k
        BY <1>0, <3>0, <3>3
      <3>5. nx[x] = Trail(nx, p)[j + 1]
        BY <3>1, <3>4, TrailIs
      <3>6. CASE j + 1 = k
        <4>1. nx[x] = u[p]
          BY <3>2, <3>5, <3>6
        <4>2. u[p] \in T
          BY <2>0
        <4> QED BY <4>1, <4>2
      <3>7. CASE j + 1 # k
        <4>1. j + 1 < k
          BY <1>0, <3>4, <3>7
        <4>2. \A i \in 0..(j + 1) : i \in 0..j \/ i = j + 1
          BY <3>0
        <4>3. \A i \in 0..(j + 1) : Trail(nx, p)[i] \in gone
          BY <3>1, <3>2, <3>4, <4>1, <4>2
        <4>4. nx[x] \in gone /\ Passed(nx[x])
          BY <3>2, <3>4, <3>5, <4>1, <4>3
        <4> QED BY <3>0, <4>4
      <3> QED BY <3>6, <3>7
    <2>4. \A x \in T : nx[x] \in T
      BY <2>2, <2>3
    <2>5. T = R
      <3> HIDE DEF T
      <3> QED BY <2>1, <2>4 DEF Cycle
    <2>6. \A x \in R \ gone : x \in S
      BY <2>5
    <2> QED BY <2>6
  <1>7. Cycle(u, R \ gone)
    BY <1>4, <1>5, <1>6 DEF Cycle
  <1> QED BY <1>1, <1>7

\* The Task objects outside the cycle keep next pointers of the right type too.
LEMMA UnlinkType ==
  ASSUME NEW nx \in [Pids -> Pids], NEW R \in SUBSET Pids, Cycle(nx, R),
         NEW gone \in SUBSET R, gone # R
  PROVE  Unlink(nx, gone) \in [Pids -> Pids]
  <1>1. ASSUME NEW p \in Pids PROVE Unlink(nx, gone)[p] \in Pids
    <2>1. CASE nx[p] \in gone
      BY <2>1, UnlinkSkips
    <2>2. CASE nx[p] \notin gone
      BY <2>2 DEF Unlink
    <2> QED BY <2>1, <2>2
  <1>2. \E f : Unlink(nx, gone) = [p \in Pids |-> f[p]]
    <2>1. Unlink(nx, gone) = [p \in Pids |-> Unlink(nx, gone)[p]]
      BY DEF Unlink
    <2> QED BY <2>1
  <1> QED BY <1>1, <1>2

\* schedule's loop ends at a task of the cycle, and reaps DEAD tasks of it, never the
\* current one.
LEMMA PickedFromRing ==
  ASSUME NEW st, NEW R \in SUBSET Pids, Cycle(next, R), current_task \in R
  PROVE  /\ Picked(st).task \in R
         /\ \A p \in Picked(st).reaped : p \in R \ {current_task} /\ st[p] = "DEAD"
  <1>0. Pids \subseteq Nat /\ MaxPid \in Nat /\ Pids = 0..MaxPid
    BY PidFacts, TasksAssumption DEF Pids
  <1>1. PICK s : s = Trail(next, current_task)
    OBVIOUS
  <1>2. next[current_task] \in R
    BY DEF Cycle
  <1>3. /\ \A k \in Pids : s[k] \in R
        /\ \A r \in R : \E k \in Pids : s[k] = r
    BY <1>1, <1>2, TrailMeetsAll
  <1> DEFINE K == {j \in Pids : st[s[j]] = "READY" \/ s[j] = current_task}
  <1>4. K \in SUBSET Nat /\ K # {}
    BY <1>0, <1>3
  <1>5. PICK k : k = Min(K)
    OBVIOUS
  <1>6. k \in K /\ \A y \in K : k <= y
    <2> HIDE DEF K
    <2> QED BY <1>4, <1>5, MinIs
  <1>7. k \in Pids /\ \A y \in Pids : s[y] = current_task => k <= y
    BY <1>6
  <1>8. Picked(st) = [task |-> s[k],
                      reaped |-> {s[j] : j \in {i \in 0..k : i < k /\ st[s[i]] = "DEAD"}}]
    BY <1>1, <1>5 DEF Picked
  <1>9. Picked(st).task = s[k]
    BY <1>8
  <1>10. Picked(st).reaped = {s[j] : j \in {i \in 0..k : i < k /\ st[s[i]] = "DEAD"}}
    BY <1>8
  <1>11. ASSUME NEW p \in Picked(st).reaped
         PROVE  p \in R \ {current_task} /\ st[p] = "DEAD"
    <2>1. PICK j \in 0..k : j < k /\ st[s[j]] = "DEAD" /\ p = s[j]
      BY <1>10
    <2>2. j \in Pids /\ ~(k <= j)
      BY <1>0, <1>7, <2>1
    <2> QED BY <1>3, <1>7, <2>1, <2>2
  <1> QED BY <1>3, <1>7, <1>9, <1>11

-----------------------------------------------------------------------------
(* The context switch *)

\* The part of the invariant that a call of schedule() can disturb.
ScheduleInv ==
  /\ alive \in SUBSET Pids
  /\ next \in [Pids -> Pids]
  /\ state \in [Pids -> TaskState]
  /\ esp \in [Pids -> Pids]
  /\ current_task \in Pids /\ cpu \in Pids /\ cr3 \in Pids /\ tss \in Pids
  /\ pc \in [Pids -> Labels]
  /\ OffCpu /\ Owners /\ OnCpu /\ Context

\* What schedule() with IF = 0 does: it reaps DEAD tasks, not the current one, and
\* leaves a cycle of the others; it keeps the CPU or hands it to a READY task of the cycle.
LEMMA ScheduleEffect ==
  ASSUME TypeOK, RingInv, NEW st \in [Pids -> TaskState], Schedule(st)
  PROVE  /\ next' \in [Pids -> Pids]
         /\ \E gone \in SUBSET Members :
              /\ \A p \in gone : st[p] = "DEAD" /\ p # current_task
              /\ alive' = alive \ gone
              /\ Cycle(next', Members \ gone)
         /\ \/ state' = st /\ UNCHANGED cpuVars
            \/ \E n \in Members :
                 /\ st[n] = "READY"
                 /\ state' = Handover(st, current_task, n)
                 /\ tss' = TssFor(n)
                 /\ cr3' = Cr3For(current_task, n)
                 /\ current_task' = n
                 /\ esp' = [esp EXCEPT ![current_task] = cpu]
                 /\ cpu' = esp'[n]
  <1>1. PICK gone, n : gone = Picked(st).reaped /\ n = Picked(st).task
    OBVIOUS
  <1>2. Members \in SUBSET Pids /\ current_task \in Members /\ Cycle(next, Members)
    BY DEF RingInv, TypeOK, Members
  <1>3. n \in Members /\ \A p \in gone : p \in Members \ {current_task} /\ st[p] = "DEAD"
    BY <1>1, <1>2, PickedFromRing
  <1>4. gone \in SUBSET Members /\ gone # Members
    BY <1>2, <1>3
  <1>5. next' = Unlink(next, gone) /\ alive' = alive \ gone
    BY <1>1 DEF Schedule
  <1>6. next' \in [Pids -> Pids]
    BY <1>2, <1>4, <1>5, UnlinkType DEF TypeOK
  <1>7. Cycle(next', Members \ gone)
    BY <1>2, <1>4, <1>5, CycleUnlink
  <1>8. \/ state' = st /\ UNCHANGED cpuVars
        \/ /\ st[n] = "READY"
           /\ state' = Handover(st, current_task, n)
           /\ tss' = TssFor(n)
           /\ cr3' = Cr3For(current_task, n)
           /\ current_task' = n
           /\ esp' = [esp EXCEPT ![current_task] = cpu]
           /\ cpu' = esp'[n]
    BY <1>1 DEF Schedule
  <1> QED BY <1>3, <1>4, <1>5, <1>6, <1>7, <1>8

\* schedule() entered with IF = 0 from a quiet label keeps the invariant.
LEMMA ScheduleKeepsInv ==
  ASSUME TypeOK, RingInv, OffCpu, Owners, OnCpu, Context,
         NEW st \in [Pids -> TaskState], NEW l \in Quiet,
         \A p \in Pids : st[p] # "DEAD" => p < next_pid,
         \A p \in Pids : st[p] = "RUNNING" => p = current_task,
         pc[cpu] \in Quiet, l \in KillLabels => cpu = KernelPid,
         Goto(l), Schedule(st), UNCHANGED <<next_pid, sel, image>>
  PROVE  ScheduleInv'
  <1> DEFINE prev == current_task
  <1> USE DEF Quiet, HarmlessWindows, LoopLabels, KillLabels, ExecLabels
  <1>1. /\ cpu \in Pids /\ current_task \in Pids /\ cr3 \in Pids /\ tss \in Pids
        /\ pc \in [Pids -> Labels] /\ esp \in [Pids -> Pids] /\ sel \in [Pids -> Pids]
        /\ alive \in SUBSET Pids /\ next_pid \in Nat /\ Pids \subseteq Nat /\ 0 \in Pids
        /\ Members \subseteq Pids
    BY PidFacts DEF TypeOK, Members
  <1>2. /\ cpu = current_task /\ cpu < next_pid /\ ~Switching
        /\ cr3 = Dir(cpu) /\ (IsUser(cpu) => tss = cpu)
    BY DEF OnCpu, Context, At, Switching
  <1>3. \A p \in Pids : esp[p] = p
    BY DEF Owners
  <1>4. /\ pc' = [pc EXCEPT ![cpu] = l] /\ pc' \in [Pids -> Labels]
        /\ \A p \in Pids : pc'[p] \in Quiet
        /\ \A p \in Pids : pc'[p] \in KillLabels => p = KernelPid
    BY <1>1 DEF Goto, OffCpu, Owners, Labels, WindowLabels, SwitchLabels
  <1>5. \A p \in Pids : ~Loading(p) /\ ~Loading(p)'
    BY <1>1, <1>4, <1>2 DEF Loading, OffCpu
  <1>6. alive' \in SUBSET Pids /\ next' \in [Pids -> Pids]
    BY <1>1, ScheduleEffect
  <1>7. CASE state' = st /\ UNCHANGED cpuVars
    BY <1>1, <1>2, <1>3, <1>4, <1>5, <1>6, <1>7
    DEF ScheduleInv, cpuVars, OffCpu, Owners, OnCpu, Context, Switching, At
  <1>8. ASSUME NEW n \in Pids, st[n] = "READY",
               state' = Handover(st, current_task, n),
               tss' = TssFor(n), cr3' = Cr3For(current_task, n), current_task' = n,
               esp' = [esp EXCEPT ![current_task] = cpu], cpu' = esp'[n]
        PROVE  ScheduleInv'
    <2>1. cpu' = n /\ esp' = esp
      BY <1>1, <1>2, <1>3, <1>8
    <2>2. /\ state' \in [Pids -> TaskState]
          /\ \A p \in Pids : state'[p] # "DEAD" => p < next_pid
          /\ \A p \in Pids : state'[p] = "RUNNING" => p = n
      BY <1>1, <1>8 DEF Handover, TaskState
    <2>3. n < next_pid
      BY <1>8
    <2>4. tss' \in Pids /\ (IsUser(n) => tss' = n)
      BY <1>1, <1>8 DEF TssFor
    <2>5. cr3' \in Pids /\ cr3' = Dir(n)
      BY <1>1, <1>2, <1>8 DEF Cr3For, Dir
    <2>6. OffCpu' /\ Owners'
      BY <1>1, <1>3, <1>4, <1>8, <2>1, <2>2 DEF OffCpu, Owners, At
    <2>7. OnCpu' /\ Context'
      BY <1>1, <1>2, <1>4, <1>5, <1>8, <2>1, <2>3, <2>4, <2>5
      DEF OnCpu, Context, Switching, At
    <2>8. /\ current_task' \in Pids /\ cpu' \in Pids /\ esp' \in [Pids -> Pids]
          /\ pc' \in [Pids -> Labels]
      BY <1>1, <1>4, <1>8, <2>1
    <2> QED BY <1>6, <2>2, <2>4, <2>5, <2>6, <2>7, <2>8 DEF ScheduleInv
  <1> QED BY <1>1, <1>7, <1>8, ScheduleEffect

\* The conversion yields a number of ticks, the wanted one when the product does not wrap.
LEMMA TicksFacts ==
  ASSUME NEW ms \in Delays
  PROVE  /\ Ticks(ms) \in Nat /\ Owed(ms) \in Nat
         /\ ms * TimerFreq < TickMod => Ticks(ms) = Owed(ms)
  <1>1. /\ TickMod \in Nat \ {0} /\ Second \in Nat \ {0} /\ TimerFreq \in Nat /\ ms \in Nat
    BY TasksAssumption
  <1>2. PICK x \in Nat : x = ms * TimerFreq
    BY <1>1
  <1>3. x % TickMod \in Nat /\ (x < TickMod => x % TickMod = x)
    BY <1>1
  <1>4. \A y \in Nat : y \div Second \in Nat
    BY <1>1
  <1>5. \A y \in Nat : AtLeastOne(ms, y) \in Nat
    BY <1>4 DEF AtLeastOne
  <1> QED BY <1>2, <1>3, <1>5 DEF Ticks, Owed

\* The history and the alarm that task_sleep writes stay in range.
LEMMA AlarmType ==
  ASSUME TypeOK, NEW d \in Delays, SetAlarm(d)
  PROVE  /\ wake_tick' \in [Pids -> 0..(TickMod - 1)]
         /\ left' \in [Pids -> Nat]
  <1>1. TickMod \in Nat \ {0} /\ Ticks(d) \in Nat /\ Owed(d) \in Nat
    BY TasksAssumption, TicksFacts
  <1>2. timer_ticks \in Nat /\ (timer_ticks + Ticks(d)) % TickMod \in 0..(TickMod - 1)
    BY <1>1 DEF TypeOK
  <1> QED BY <1>1, <1>2 DEF TypeOK, SetAlarm

\* The initial state satisfies the invariant.
LEMMA SwitchInit == Init => SwitchInv
  <1> SUFFICES ASSUME Init PROVE SwitchInv
    OBVIOUS
  <1>1. /\ TickMod \in Nat \ {0} /\ BootTick \in 0..(TickMod - 1)
        /\ MaxPid \in Nat /\ MaxPid >= 1
    BY TasksAssumption
  <1>2. TypeOK
    BY <1>1 DEF Init, TypeOK, Pids, TaskState, Labels, Regions
  <1> QED BY <1>1, <1>2, PidFacts
         
          DEF Init, SwitchInv, OffCpu, Owners, OnCpu, Context, Quiet, ExecLabels,
              KillLabels,
              Switching, Loading, At, Dir, Pids

\* Every step keeps the invariant while ticks fall in harmless windows.
LEMMA SwitchStep ==
  ASSUME SwitchInv, RingInv, [Next]_vars, Windows \subseteq HarmlessWindows
  PROVE  SwitchInv'
  <1> USE DEF SwitchInv
  <1>0. /\ cpu \in Pids /\ current_task \in Pids /\ cr3 \in Pids /\ tss \in Pids
        /\ pc \in [Pids -> Labels] /\ esp \in [Pids -> Pids] /\ sel \in [Pids -> Pids]
        /\ next \in [Pids -> Pids] /\ state \in [Pids -> TaskState]
        /\ image \in [Pids -> SUBSET Regions]
        /\ alive \in SUBSET Pids /\ kprev \in Pids /\ kpid \in Pids
        /\ next_pid \in Nat /\ Pids \subseteq Nat /\ 0 \in Pids /\ MaxPid \in Nat
    BY PidFacts DEF TypeOK
  <1>1. CASE TimerIRQ
    <2>1. TickMod \in Nat \ {0} /\ timer_ticks \in Nat
      BY TasksAssumption DEF TypeOK
    <2>2. timer_ticks' \in 0..(TickMod - 1) /\ left' \in [Pids -> Nat]
      BY <1>1, <2>1 DEF TimerIRQ, TypeOK
    <2> DEFINE st == Woken(timer_ticks')
               l == IF At("hlt") THEN "while" ELSE pc[cpu]
    <2>3. /\ st \in [Pids -> TaskState]
          /\ \A p \in Pids : st[p] # "DEAD" => p < next_pid
          /\ \A p \in Pids : st[p] = "RUNNING" => p = current_task
      <3>1. ~At("load")
        BY <1>1 DEF TimerIRQ, At, HarmlessWindows, LoopLabels
      <3> QED BY <1>0, <3>1 DEF Woken, TaskState, Owners
    <2>4. pc[cpu] \in Quiet /\ l \in Quiet /\ (l \in KillLabels => cpu = KernelPid)
      BY <1>0, <1>1 DEF TimerIRQ, Quiet, HarmlessWindows, LoopLabels, KillLabels, Owners, At
    <2>5. Goto(l) /\ Schedule(st) /\ UNCHANGED <<next_pid, sel, image, kprev, kpid, wake_tick>>
      BY <1>1 DEF TimerIRQ, localVars
    <2> HIDE DEF st, l
    <2>6. ScheduleInv'
      BY <2>3, <2>4, <2>5, ScheduleKeepsInv
    <2> QED BY <2>2, <2>5, <2>6 DEF ScheduleInv, TypeOK
  <1>2. CASE KeyIRQ
    <2>1. TypeOK'
      BY <1>0, <1>2
      DEF KeyIRQ, TypeOK, Goto, Labels, WindowLabels, SwitchLabels, ExecLabels, KillLabels,
          LoopLabels, cpuVars, ringVars, localVars
    <2>2. OffCpu' /\ Owners'
      BY <1>0, <1>2
      DEF KeyIRQ, OffCpu, Owners, OnCpu, Context, Switching, Loading, At, Quiet,
          HarmlessWindows, Goto, Labels, WindowLabels, SwitchLabels, ExecLabels, KillLabels,
          LoopLabels, cpuVars, ringVars, localVars
    <2>3. OnCpu' /\ Context'
      BY <1>0, <1>2
      DEF KeyIRQ, OffCpu, Owners, OnCpu, Context, Switching, Loading, At, Quiet,
          HarmlessWindows, Goto, Labels, WindowLabels, SwitchLabels, ExecLabels, KillLabels,
          LoopLabels, cpuVars, ringVars, localVars
    <2> QED BY <2>1, <2>2, <2>3
  <1>3. ASSUME NEW d \in Delays, SysSleep(d)
        PROVE  SwitchInv'
    <2> DEFINE st == [state EXCEPT ![current_task] = "SLEEPING"]
    <2>1. /\ st \in [Pids -> TaskState]
          /\ \A p \in Pids : st[p] # "DEAD" => p < next_pid
          /\ \A p \in Pids : st[p] = "RUNNING" => p = current_task
      BY <1>0, <1>3 DEF SysSleep, TaskState, Owners, OnCpu, At
    <2>2. pc[cpu] \in Quiet /\ "slept" \in Quiet /\ ("slept" \in KillLabels => cpu = KernelPid)
      BY <1>3 DEF SysSleep, Quiet, KillLabels, At
    <2>3. Goto("slept") /\ Schedule(st) /\ UNCHANGED <<next_pid, sel, image, kprev, kpid, timer_ticks>>
      BY <1>0, <1>3 DEF SysSleep, localVars, At, Goto
    <2> HIDE DEF st
    <2>4. ScheduleInv'
      BY <2>1, <2>2, <2>3, ScheduleKeepsInv
    <2>5. /\ wake_tick' \in [Pids -> 0..(TickMod - 1)]
          /\ left' \in [Pids -> Nat]
      BY <1>3, AlarmType DEF SysSleep
    <2> QED BY <2>3, <2>4, <2>5 DEF ScheduleInv, TypeOK
  <1>4. ASSUME NEW d \in Delays, TaskSleep(d)
        PROVE  SwitchInv'
    <2>1. TypeOK'
      BY <1>0, <1>4, AlarmType
      DEF TaskSleep, TypeOK, Goto, Labels, WindowLabels, SwitchLabels, ExecLabels,
          KillLabels, LoopLabels, cpuVars, ringVars, localVars
    <2>2. OffCpu' /\ Owners'
      BY <1>0, <1>4
      DEF TaskSleep, OffCpu, Owners, OnCpu, Context, Switching, Loading, At, Quiet,
          HarmlessWindows, Goto, Labels, WindowLabels, SwitchLabels, ExecLabels, KillLabels,
          LoopLabels, cpuVars, ringVars, localVars
    <2>3. OnCpu' /\ Context'
      BY <1>0, <1>4
      DEF TaskSleep, OffCpu, Owners, OnCpu, Context, Switching, Loading, At, Quiet,
          HarmlessWindows, Goto, Labels, WindowLabels, SwitchLabels, ExecLabels, KillLabels,
          LoopLabels, cpuVars, ringVars, localVars
    <2> QED BY <2>1, <2>2, <2>3
  <1>5. CASE SysYield
    <2> DEFINE st == state
    <2>1. /\ st \in [Pids -> TaskState]
          /\ \A p \in Pids : st[p] # "DEAD" => p < next_pid
          /\ \A p \in Pids : st[p] = "RUNNING" => p = current_task
      BY <1>0, <1>5 DEF SysYield, TaskState, Owners, OnCpu, At
    <2>2. pc[cpu] \in Quiet /\ "run" \in Quiet /\ ("run" \in KillLabels => cpu = KernelPid)
      BY <1>5 DEF SysYield, Quiet, KillLabels, At
    <2>3. Goto("run") /\ Schedule(st) /\ UNCHANGED <<next_pid, sel, image, kprev, kpid, timer_ticks>>
      BY <1>0, <1>5 DEF SysYield, localVars, At, Goto
    <2> HIDE DEF st
    <2>4. ScheduleInv'
      BY <2>1, <2>2, <2>3, ScheduleKeepsInv
    <2>5. UNCHANGED <<wake_tick, left>>
      BY <1>5 DEF SysYield
    <2> QED BY <2>3, <2>4, <2>5 DEF ScheduleInv, TypeOK
  <1>6. CASE ExitTask
    <2>1. TypeOK'
      BY <1>0, <1>6
      DEF ExitTask, TypeOK, Goto, Labels, WindowLabels, SwitchLabels, ExecLabels,
          KillLabels, LoopLabels, cpuVars, ringVars, localVars, TaskState
    <2>2. OffCpu' /\ Owners'
      BY <1>0, <1>6
      DEF ExitTask, OffCpu, Owners, OnCpu, Context, Switching, Loading, At, Quiet,
          HarmlessWindows, Goto, Labels, WindowLabels, SwitchLabels, ExecLabels, KillLabels,
          LoopLabels, cpuVars, ringVars, localVars, TaskState
    <2>3. OnCpu' /\ Context'
      BY <1>0, <1>6
      DEF ExitTask, OffCpu, Owners, OnCpu, Context, Switching, Loading, At, Quiet,
          HarmlessWindows, Goto, Labels, WindowLabels, SwitchLabels, ExecLabels, KillLabels,
          LoopLabels, cpuVars, ringVars, localVars, TaskState
    <2> QED BY <2>1, <2>2, <2>3
  <1>7. CASE ExecBegin
    <2>0. next_pid \in Pids
      BY <1>0, <1>7 DEF ExecBegin, Pids
    <2>1. TypeOK'
      BY <1>0, <1>7, <2>0
      DEF ExecBegin, TypeOK, Goto, Labels, WindowLabels, SwitchLabels, ExecLabels,
          KillLabels, LoopLabels, cpuVars, ringVars, localVars
    <2>2. OffCpu' /\ Owners'
      BY <1>0, <1>7, <2>0
      DEF ExecBegin, OffCpu, Owners, OnCpu, Context, Switching, Loading, At, Quiet,
          HarmlessWindows, Goto, Labels, WindowLabels, SwitchLabels, ExecLabels, KillLabels,
          LoopLabels, cpuVars, ringVars, localVars
    <2>3. OnCpu' /\ Context'
      BY <1>0, <1>7, <2>0
      DEF ExecBegin, OffCpu, Owners, OnCpu, Context, Switching, Loading, At, Quiet,
          HarmlessWindows, Goto, Labels, WindowLabels, SwitchLabels, ExecLabels, KillLabels,
          LoopLabels, cpuVars, ringVars, localVars
    <2> QED BY <2>1, <2>2, <2>3
  <1>8. ASSUME NEW pid \in Pids, KillBegin(pid)
        PROVE  SwitchInv'
    <2>1. TypeOK'
      BY <1>0, <1>8
      DEF KillBegin, TypeOK, Goto, Labels, WindowLabels, SwitchLabels, ExecLabels,
          KillLabels, LoopLabels, cpuVars, ringVars, localVars
    <2>2. OffCpu' /\ Owners'
      BY <1>0, <1>8
      DEF KillBegin, OffCpu, Owners, OnCpu, Context, Switching, Loading, At, Quiet,
          HarmlessWindows, Goto, Labels, WindowLabels, SwitchLabels, ExecLabels, KillLabels,
          LoopLabels, cpuVars, ringVars, localVars
    <2>3. OnCpu' /\ Context'
      BY <1>0, <1>8
      DEF KillBegin, OffCpu, Owners, OnCpu, Context, Switching, Loading, At, Quiet,
          HarmlessWindows, Goto, Labels, WindowLabels, SwitchLabels, ExecLabels, KillLabels,
          LoopLabels, cpuVars, ringVars, localVars
    <2> QED BY <2>1, <2>2, <2>3
  <1>9. CASE Doze
    <2>1. TypeOK'
      BY <1>0, <1>9
      DEF Doze, TypeOK, Goto, Labels, WindowLabels, SwitchLabels, ExecLabels, KillLabels,
          LoopLabels, cpuVars, ringVars, localVars, TaskState
    <2>2. OffCpu' /\ Owners'
      BY <1>0, <1>9
      DEF Doze, OffCpu, Owners, OnCpu, Context, Switching, Loading, At, Quiet,
          HarmlessWindows, Goto, Labels, WindowLabels, SwitchLabels, ExecLabels, KillLabels,
          LoopLabels, cpuVars, ringVars, localVars, TaskState
    <2>3. OnCpu' /\ Context'
      BY <1>0, <1>9
      DEF Doze, OffCpu, Owners, OnCpu, Context, Switching, Loading, At, Quiet,
          HarmlessWindows, Goto, Labels, WindowLabels, SwitchLabels, ExecLabels, KillLabels,
          LoopLabels, cpuVars, ringVars, localVars, TaskState
    <2> QED BY <2>1, <2>2, <2>3
  <1>10. CASE LoopTest
    <2>1. TypeOK'
      BY <1>0, <1>10
      DEF LoopTest, TypeOK, Goto, Labels, WindowLabels, SwitchLabels, ExecLabels,
          KillLabels, LoopLabels, cpuVars, ringVars, localVars
    <2>2. OffCpu' /\ Owners'
      BY <1>0, <1>10
      DEF LoopTest, OffCpu, Owners, OnCpu, Context, Switching, Loading, At, Quiet,
          HarmlessWindows, Goto, Labels, WindowLabels, SwitchLabels, ExecLabels, KillLabels,
          LoopLabels, cpuVars, ringVars, localVars
    <2>3. OnCpu' /\ Context'
      BY <1>0, <1>10
      DEF LoopTest, OffCpu, Owners, OnCpu, Context, Switching, Loading, At, Quiet,
          HarmlessWindows, Goto, Labels, WindowLabels, SwitchLabels, ExecLabels, KillLabels,
          LoopLabels, cpuVars, ringVars, localVars
    <2> QED BY <2>1, <2>2, <2>3
  <1>11. CASE SchedEnter
    <2>1. TypeOK'
      BY <1>0, <1>11
      DEF SchedEnter, TypeOK, Goto, Labels, WindowLabels, SwitchLabels, ExecLabels,
          KillLabels, LoopLabels, cpuVars, ringVars, localVars, AfterSchedule
    <2>2. OffCpu' /\ Owners'
      BY <1>0, <1>11
      DEF SchedEnter, OffCpu, Owners, OnCpu, Context, Switching, Loading, At, Quiet,
          HarmlessWindows, Goto, Labels, WindowLabels, SwitchLabels, ExecLabels, KillLabels,
          LoopLabels, cpuVars, ringVars, localVars, AfterSchedule
    <2>3. OnCpu' /\ Context'
      BY <1>0, <1>11
      DEF SchedEnter, OffCpu, Owners, OnCpu, Context, Switching, Loading, At, Quiet,
          HarmlessWindows, Goto, Labels, WindowLabels, SwitchLabels, ExecLabels, KillLabels,
          LoopLabels, cpuVars, ringVars, localVars, AfterSchedule
    <2> QED BY <2>1, <2>2, <2>3
  <1>12. CASE SchedWalk
    <2>0. next' \in [Pids -> Pids]
      <3>1. CASE next' = next
        BY <1>0, <3>1
      <3>2. CASE next' = Unlink(next, {sel[cpu]}) /\ sel[cpu] # cpu
        <4>1. Members \in SUBSET Pids /\ cpu \in Members /\ Cycle(next, Members) /\ sel[cpu] \in Members
          BY <1>0, <1>12 DEF SchedWalk, At, RingInv, Members, SwitchLabels
        <4>2. {sel[cpu]} \in SUBSET Members /\ {sel[cpu]} # Members
          BY <3>2, <4>1
        <4> QED BY <1>0, <3>2, <4>1, <4>2, UnlinkType
      <3> QED BY <1>12, <3>1, <3>2 DEF SchedWalk
    <2>1. TypeOK'
      BY <1>0, <1>12, <2>0
      DEF SchedWalk, TypeOK, Goto, Labels, WindowLabels, SwitchLabels, ExecLabels,
          KillLabels, LoopLabels, cpuVars, ringVars, localVars, AfterSchedule
    <2>2. OffCpu' /\ Owners'
      BY <1>0, <1>12
      DEF SchedWalk, OffCpu, Owners, OnCpu, Context, Switching, Loading, At, Quiet,
          HarmlessWindows, Goto, Labels, WindowLabels, SwitchLabels, ExecLabels, KillLabels,
          LoopLabels, cpuVars, ringVars, localVars, AfterSchedule
    <2>3. OnCpu' /\ Context'
      BY <1>0, <1>12
      DEF SchedWalk, OffCpu, Owners, OnCpu, Context, Switching, Loading, At, Quiet,
          HarmlessWindows, Goto, Labels, WindowLabels, SwitchLabels, ExecLabels, KillLabels,
          LoopLabels, cpuVars, ringVars, localVars, AfterSchedule
    <2> QED BY <2>1, <2>2, <2>3
  <1>13. CASE SchedMark
    <2> DEFINE n == sel[cpu]
    <2>0. /\ n \in Pids /\ state[n] = "READY" /\ n < next_pid /\ cpu = current_task
          /\ cr3 = Dir(cpu) /\ (IsUser(cpu) => tss = cpu)
      BY <1>0, <1>13 DEF SchedMark, Owners, OnCpu, Context, Switching, At
    <2>1. cr3' \in Pids /\ tss' \in Pids /\ cr3' = Dir(n) /\ (IsUser(n) => tss' = n)
      BY <1>0, <1>13, <2>0 DEF SchedMark, Cr3For, TssFor, Dir
    <2>2. /\ state' \in [Pids -> TaskState]
          /\ \A p \in Pids : state'[p] # "DEAD" => p < next_pid
          /\ \A p \in Pids : state'[p] = "RUNNING" => p = n
      BY <1>0, <1>13, <2>0 DEF SchedMark, Handover, TaskState, Owners, At
    <2>3. /\ pc' = [pc EXCEPT ![cpu] = "load"]
          /\ UNCHANGED <<timer_ticks, next_pid, ringVars, wake_tick, current_task, cpu, esp,
                          localVars, image, left>>
      BY <1>13 DEF SchedMark, Goto
    <2>4. \A p \in Pids : ~Loading(p) /\ ~Loading(p)'
      BY <1>0, <1>13, <2>3
      DEF SchedMark, Loading, At, OffCpu, Quiet, HarmlessWindows, LoopLabels
    <2>5. TypeOK'
      BY <1>0, <2>1, <2>2, <2>3
      DEF TypeOK, Labels, WindowLabels, SwitchLabels, ExecLabels, KillLabels, LoopLabels,
          ringVars, localVars
    <2>6. OffCpu' /\ Owners'
      BY <1>0, <2>0, <2>2, <2>3 DEF OffCpu, Owners, At, ExecLabels, KillLabels, localVars
    <2>7. OnCpu' /\ Context'
      BY <1>0, <2>0, <2>1, <2>3, <2>4 DEF OnCpu, Context, Switching, At, localVars
    <2> QED BY <2>5, <2>6, <2>7
  <1>14. CASE SchedLoad
    <2>1. TypeOK'
      BY <1>0, <1>14
      DEF SchedLoad, TypeOK, Goto, Labels, WindowLabels, SwitchLabels, ExecLabels,
          KillLabels, LoopLabels, cpuVars, ringVars, localVars
    <2>2. OffCpu' /\ Owners'
      BY <1>0, <1>14
      DEF SchedLoad, OffCpu, Owners, OnCpu, Context, Switching, Loading, At, Quiet,
          HarmlessWindows, Goto, Labels, WindowLabels, SwitchLabels, ExecLabels, KillLabels,
          LoopLabels, cpuVars, ringVars, localVars
    <2>3. OnCpu' /\ Context'
      BY <1>0, <1>14
      DEF SchedLoad, OffCpu, Owners, OnCpu, Context, Switching, Loading, At, Quiet,
          HarmlessWindows, Goto, Labels, WindowLabels, SwitchLabels, ExecLabels, KillLabels,
          LoopLabels, cpuVars, ringVars, localVars
    <2> QED BY <2>1, <2>2, <2>3
  <1>15. CASE SchedSwitch
    <2>1. TypeOK'
      BY <1>0, <1>15
      DEF SchedSwitch, TypeOK, Goto, Labels, WindowLabels, SwitchLabels, ExecLabels,
          KillLabels, LoopLabels, cpuVars, ringVars, localVars, AfterSchedule
    <2>2. OffCpu' /\ Owners'
      BY <1>0, <1>15
      DEF SchedSwitch, OffCpu, Owners, OnCpu, Context, Switching, Loading, At, Quiet,
          HarmlessWindows, Goto, Labels, WindowLabels, SwitchLabels, ExecLabels, KillLabels,
          LoopLabels, cpuVars, ringVars, localVars, AfterSchedule
    <2>3. OnCpu' /\ Context'
      BY <1>0, <1>15
      DEF SchedSwitch, OffCpu, Owners, OnCpu, Context, Switching, Loading, At, Quiet,
          HarmlessWindows, Goto, Labels, WindowLabels, SwitchLabels, ExecLabels, KillLabels,
          LoopLabels, cpuVars, ringVars, localVars, AfterSchedule
    <2> QED BY <2>1, <2>2, <2>3
  <1>16. CASE ExecMapStack
    <2> DEFINE new == next_pid
    <2>0. /\ cpu = KernelPid /\ current_task = KernelPid /\ cr3 = new
          /\ new \in Pids /\ new \in 2..MaxPid /\ image[new] = {}
      <3>1. cpu = KernelPid /\ current_task = KernelPid /\ cr3 = new /\ new <= MaxPid
        BY <1>0, <1>16 DEF ExecMapStack, Owners, OnCpu, Context, Switching, At, ExecLabels
      <3>2. new \in Pids /\ new \in 2..MaxPid
        BY <1>0, <3>1 DEF TypeOK, Pids
      <3> QED BY <1>0, <3>1, <3>2 DEF Context
    <2>1. /\ pc' = [pc EXCEPT ![cpu] = "spawned"] /\ sel' = [sel EXCEPT ![cpu] = new]
          /\ image' = [image EXCEPT ![new] = {"stack"}]
          /\ cr3' = KernelPid /\ next_pid' = new + 1
          /\ alive' = alive \cup {new}
          /\ next' = [next EXCEPT ![new] = next[current_task], ![current_task] = new]
          /\ state' = [state EXCEPT ![new] = "READY"]
          /\ UNCHANGED <<timer_ticks, wake_tick, current_task, cpu, esp, tss, kprev, kpid, left>>
      BY <1>0, <1>16, <2>0 DEF ExecMapStack, Goto, MapIn, Dir
    <2>2. \A p \in Pids : ~Loading(p) /\ (Loading(p)' <=> p = new)
      BY <1>0, <1>16, <2>0, <2>1 DEF ExecMapStack, Loading, At
    <2>3. TypeOK'
      <3>1. next_pid' \in 2..(MaxPid + 1) /\ next' \in [Pids -> Pids]
        BY <1>0, <2>0, <2>1
      <3>2. /\ state' \in [Pids -> TaskState] /\ image' \in [Pids -> SUBSET Regions]
            /\ pc' \in [Pids -> Labels] /\ sel' \in [Pids -> Pids]
        BY <1>0, <2>0, <2>1
        DEF TaskState, Regions, Labels, WindowLabels, SwitchLabels, ExecLabels, KillLabels,
            LoopLabels
      <3> QED BY <1>0, <2>0, <2>1, <3>1, <3>2 DEF TypeOK
    <2>4. OffCpu' /\ Owners'
      BY <1>0, <1>16, <2>0, <2>1
      DEF ExecMapStack, OffCpu, Owners, At, ExecLabels, KillLabels
    <2>5. OnCpu'
      BY <1>0, <2>0, <2>1, <2>2 DEF OnCpu, Switching, At
    <2>6. Context'
      <3>1. \A p \in Pids : IsUser(p) =>
              image'[p] = IF p >= next_pid' THEN {}
                          ELSE IF p = new THEN {"stack"} ELSE Regions
        <4> TAKE p \in Pids
        <4>1. p \in Nat /\ new \in Nat /\ next_pid' = new + 1
          BY <1>0, <2>1
        <4>2. CASE p = new
          BY <1>0, <2>1, <4>1, <4>2
        <4>3. CASE p # new
          <5>1. image'[p] = image[p]
            BY <1>0, <2>0, <2>1, <4>3
          <5> QED BY <2>2, <4>1, <4>3, <5>1 DEF Context
        <4> QED BY <4>2, <4>3
      <3> QED BY <1>0, <2>0, <2>1, <2>2, <3>1 DEF Context, Switching, At, Dir
    <2> QED BY <2>3, <2>4, <2>5, <2>6
  <1>17. CASE ExecHold
    <2>0. TickMod - 1 \in 0..(TickMod - 1)
      BY TasksAssumption
    <2>1. /\ sel[cpu] \in Pids /\ cpu = KernelPid /\ current_task = KernelPid
          /\ sel[cpu] < next_pid /\ IsUser(sel[cpu]) /\ cr3 = Dir(cpu)
      BY <1>0, <1>17
      DEF ExecHold, Owners, OnCpu, Context, Switching, Loading, At, ExecLabels
    <2>2. TypeOK'
      <3>1. wake_tick' \in [Pids -> 0..(TickMod - 1)]
        BY <1>0, <1>17, <2>0, <2>1 DEF ExecHold, TypeOK
      <3>2. state' \in [Pids -> TaskState] /\ cr3' \in Pids /\ pc' \in [Pids -> Labels]
        BY <1>0, <1>17, <2>1
        DEF ExecHold, Goto, TaskState, Labels, WindowLabels, SwitchLabels, ExecLabels,
            KillLabels, LoopLabels
      <3> QED BY <1>17, <3>1, <3>2 DEF ExecHold, TypeOK, ringVars, localVars
    <2>3. OffCpu' /\ Owners'
      <3>1. /\ \A p \in Pids : state'[p] # "DEAD" => p < next_pid
            /\ \A p \in Pids : state'[p] = "RUNNING" => state[p] = "RUNNING"
        BY <1>0, <1>17, <2>1 DEF ExecHold, Owners
      <3>2. /\ pc' \in [Pids -> Labels] /\ pc'[cpu] \in {"hold", "loading"}
            /\ \A p \in Pids \ {cpu} : pc'[p] = pc[p]
            /\ UNCHANGED <<cpu, current_task, esp, next_pid>> /\ ~At("load")
        BY <1>0, <1>17
        DEF ExecHold, Goto, At, Labels, WindowLabels, SwitchLabels, ExecLabels, KillLabels,
            LoopLabels
      <3> QED BY <1>0, <2>1, <3>1, <3>2 DEF OffCpu, Owners, At, ExecLabels, KillLabels
    <2>4. OnCpu' /\ Context'
      BY <1>0, <1>17, <2>1
      DEF ExecHold, Goto, OnCpu, Context, Switching, Loading, At, Dir, localVars
    <2> QED BY <2>2, <2>3, <2>4
  <1>18. CASE ExecLoad
    <2> DEFINE new == sel[cpu]
    <2>0. 0 \in 0..(TickMod - 1)
      BY TasksAssumption
    <2>1. /\ new \in Pids /\ cpu = KernelPid /\ current_task = KernelPid /\ new # cpu
          /\ new < next_pid /\ IsUser(new) /\ cr3 = new /\ image[new] = {"stack"}
          /\ \A p \in Pids : Loading(p) <=> p = new
      BY <1>0, <1>18
      DEF ExecLoad, Owners, OnCpu, Context, Switching, Loading, At, ExecLabels
    <2>2. /\ pc' = [pc EXCEPT ![cpu] = "run"]
          /\ image' = [image EXCEPT ![new] = Regions]
          /\ cr3' = KernelPid
          /\ state' = [state EXCEPT ![new] = "READY"]
          /\ wake_tick' = [wake_tick EXCEPT ![new] = 0]
          /\ UNCHANGED <<timer_ticks, next_pid, alive, next, current_task, cpu, esp, tss,
                          sel, kprev, kpid, left>>
      BY <1>0, <1>18, <2>1 DEF ExecLoad, Goto, MapIn, Dir, Regions, ringVars, localVars
    <2>3. \A p \in Pids : ~Loading(p)'
      BY <1>0, <2>1, <2>2 DEF Loading
    <2>4. TypeOK'
      <3>1. wake_tick' \in [Pids -> 0..(TickMod - 1)]
        BY <2>0, <2>1, <2>2 DEF TypeOK
      <3>2. /\ state' \in [Pids -> TaskState] /\ pc' \in [Pids -> Labels]
            /\ image' \in [Pids -> SUBSET Regions]
        BY <1>0, <2>1, <2>2
        DEF TaskState, Labels, WindowLabels, SwitchLabels, ExecLabels, KillLabels,
            LoopLabels
      <3> QED BY <1>0, <2>2, <3>1, <3>2 DEF TypeOK
    <2>5. OffCpu' /\ Owners'
      BY <1>0, <1>18, <2>1, <2>2 DEF ExecLoad, OffCpu, Owners, At, ExecLabels, KillLabels
    <2>6. OnCpu' /\ Context'
      <3>1. pc[cpu] = "loading" /\ pc'[cpu'] = "run" /\ cpu' = 0
        BY <1>0, <1>18, <2>1, <2>2 DEF ExecLoad, At
      <3>2. OnCpu'
        BY <1>0, <2>1, <2>2, <2>3, <3>1 DEF OnCpu, Switching, At
      <3>3. \A p \in Pids : IsUser(p) =>
              image'[p] = IF p >= next_pid THEN {} ELSE Regions
        BY <1>0, <2>1, <2>2 DEF Context
      <3>4. Context'
        BY <2>1, <2>2, <2>3, <3>1, <3>3 DEF Context, Switching, At, Dir
      <3> QED BY <3>2, <3>4
    <2> QED BY <2>4, <2>5, <2>6
  <1>19. CASE KillWalk
    <2>0. /\ sel' \in [Pids -> Pids] /\ next' \in [Pids -> Pids] /\ kprev' \in Pids
          /\ pc' \in [Pids -> Labels]
      <3>1. CASE sel[cpu] = kpid
        BY <1>0, <1>19, <3>1
        DEF KillWalk, Goto, Labels, WindowLabels, SwitchLabels, ExecLabels, KillLabels,
            LoopLabels
      <3>2. CASE sel[cpu] # kpid
        <4>1. pc' \in [Pids -> Labels]
          BY <1>0, <1>19, <3>2
          DEF KillWalk, Goto, Labels, WindowLabels, SwitchLabels, ExecLabels, KillLabels,
              LoopLabels
        <4>2. next[sel[cpu]] \in Pids /\ sel[cpu] \in Pids
          BY <1>0
        <4> QED BY <1>0, <1>19, <3>2, <4>1, <4>2 DEF KillWalk
      <3> QED BY <3>1, <3>2
    <2>1. TypeOK'
      BY <1>19, <2>0 DEF KillWalk, TypeOK, cpuVars, ringVars, localVars
    <2>2. OffCpu' /\ Owners'
      BY <1>0, <1>19
      DEF KillWalk, OffCpu, Owners, OnCpu, Context, Switching, Loading, At, Quiet,
          HarmlessWindows, Goto, Labels, WindowLabels, SwitchLabels, ExecLabels, KillLabels,
          LoopLabels, cpuVars, ringVars, localVars
    <2>3. OnCpu' /\ Context'
      BY <1>0, <1>19
      DEF KillWalk, OffCpu, Owners, OnCpu, Context, Switching, Loading, At, Quiet,
          HarmlessWindows, Goto, Labels, WindowLabels, SwitchLabels, ExecLabels, KillLabels,
          LoopLabels, cpuVars, ringVars, localVars
    <2> QED BY <2>1, <2>2, <2>3
  <1>20. CASE KillFree
    <2>1. TypeOK'
      BY <1>0, <1>20
      DEF KillFree, TypeOK, Goto, Labels, WindowLabels, SwitchLabels, ExecLabels,
          KillLabels, LoopLabels, cpuVars, ringVars, localVars
    <2>2. OffCpu' /\ Owners'
      BY <1>0, <1>20
      DEF KillFree, OffCpu, Owners, OnCpu, Context, Switching, Loading, At, Quiet,
          HarmlessWindows, Goto, Labels, WindowLabels, SwitchLabels, ExecLabels, KillLabels,
          LoopLabels, cpuVars, ringVars, localVars
    <2>3. OnCpu' /\ Context'
      BY <1>0, <1>20
      DEF KillFree, OffCpu, Owners, OnCpu, Context, Switching, Loading, At, Quiet,
          HarmlessWindows, Goto, Labels, WindowLabels, SwitchLabels, ExecLabels, KillLabels,
          LoopLabels, cpuVars, ringVars, localVars
    <2> QED BY <2>1, <2>2, <2>3
  <1>21. CASE UNCHANGED vars
    BY <1>21 DEF vars, ringVars, cpuVars, localVars, TypeOK, OffCpu, Owners, OnCpu, Context,
                 Switching, Loading, At
  <1> QED BY <1>1, <1>2, <1>3, <1>4, <1>5, <1>6, <1>7, <1>8, <1>9, <1>10, <1>11, <1>12,
             <1>13, <1>14, <1>15, <1>16, <1>17, <1>18, <1>19, <1>20, <1>21
          DEF Next, TaskChoice, KernelStep

-----------------------------------------------------------------------------
(* The list, step by step. *)

\* In the initial list the shell and the spinner follow each other.
LEMMA RingInit == Init => RingInv
  <1> SUFFICES ASSUME Init PROVE RingInv
    OBVIOUS
  <1>1. /\ next[0] = 1 /\ next[1] = 0 /\ alive = {0, 1} /\ next_pid = 2
        /\ pc[0] = "run" /\ cpu = 0 /\ current_task = 0 /\ state[0] = "RUNNING"
    BY PidFacts DEF Init
  <1>2. Members = {0, 1}
    BY <1>1 DEF Members
  <1>3. ASSUME NEW S \in SUBSET {0, 1}, S # {}, \A p \in S : next[p] \in S
        PROVE  S = {0, 1}
    <2>0. PICK x \in S : x \in {0, 1}
      BY <1>3
    <2>1. 0 \in S \/ 1 \in S
      BY <2>0
    <2>2. 0 \in S /\ 1 \in S
      BY <1>1, <1>3, <2>1
    <2> QED BY <2>2
  <1>4. Cycle(next, Members)
    BY <1>1, <1>2, <1>3 DEF Cycle
  <1> QED BY <1>1, <1>2, <1>4 DEF RingInv, SwitchLabels, Loading

\* schedule() entered with IF = 0 keeps the list whole.
LEMMA ScheduleKeepsRing ==
  ASSUME SwitchInv, RingInv, NEW st \in [Pids -> TaskState], NEW l \in Quiet,
         st[KernelPid] # "DEAD", pc[cpu] \in Quiet, l = "kfree" <=> pc[cpu] = "kfree",
         Goto(l), Schedule(st), UNCHANGED <<next_pid, sel>>
  PROVE  RingInv'
  <1>0. /\ cpu \in Pids /\ current_task \in Pids /\ pc \in [Pids -> Labels]
        /\ sel \in [Pids -> Pids] /\ alive \in SUBSET Pids /\ 0 \in Pids /\ TypeOK
    BY PidFacts DEF SwitchInv, TypeOK
  <1>1. PICK gone \in SUBSET Members :
          /\ \A p \in gone : st[p] = "DEAD" /\ p # current_task
          /\ alive' = alive \ gone
          /\ Cycle(next', Members \ gone)
    BY <1>0, ScheduleEffect
  <1>2. /\ pc' = [pc EXCEPT ![cpu] = l] /\ sel' = sel /\ \A p \in Pids : pc'[p] \in Quiet
        /\ pc'[0] = "kfree" <=> pc[0] = "kfree"
    BY <1>0 DEF Goto, SwitchInv, OffCpu
  <1>3. Members' = Members \ gone
    BY <1>1, <1>2 DEF Members
  <1>4. cpu = current_task
    BY DEF SwitchInv, OnCpu, At, Quiet, HarmlessWindows, LoopLabels
  <1>5. \A p \in Pids : esp[p] = p
    BY DEF SwitchInv, Owners
  <1>6. \/ state' = st /\ UNCHANGED cpuVars
        \/ \E n \in Members : /\ st[n] = "READY" /\ state' = Handover(st, current_task, n)
                              /\ current_task' = n /\ esp' = [esp EXCEPT ![current_task] = cpu]
                              /\ cpu' = esp'[n]
    BY <1>0, ScheduleEffect
  <1>7. {KernelPid, current_task', cpu'} \subseteq Members \ gone /\ state'[KernelPid] # "DEAD"
    <2>0. 0 \in Members /\ 0 \notin gone
      BY <1>1 DEF RingInv
    <2>1. CASE state' = st /\ UNCHANGED cpuVars
      BY <1>1, <1>4, <2>0, <2>1 DEF RingInv, cpuVars
    <2>2. ASSUME NEW n \in Members, st[n] = "READY", state' = Handover(st, current_task, n),
                 current_task' = n, esp' = [esp EXCEPT ![current_task] = cpu], cpu' = esp'[n]
          PROVE  {KernelPid, current_task', cpu'} \subseteq Members \ gone /\ state'[KernelPid] # "DEAD"
      <3>1. n \in Pids
        BY <1>0 DEF Members
      <3>2. cpu' = n /\ n \notin gone
        BY <1>0, <1>1, <1>4, <1>5, <2>2, <3>1 DEF TypeOK
      <3>3. state'[0] # "DEAD"
        BY <1>0, <2>2, <3>1 DEF Handover
      <3> QED BY <2>0, <2>2, <3>2, <3>3
    <2> QED BY <1>6, <2>1, <2>2
  <1>8. \A p \in alive' : p < next_pid'
    BY <1>1 DEF RingInv
  <1>9. cpu' \in Pids
    BY <1>0, <1>7 DEF Members
  <1> QED BY <1>0, <1>1, <1>2, <1>3, <1>7, <1>8, <1>9
          DEF RingInv, Loading, Quiet, HarmlessWindows, LoopLabels, SwitchLabels

\* A step that leaves the list, its tasks' memory and the running task alone.
LEMMA RingUntouched ==
  ASSUME SwitchInv, RingInv, UNCHANGED <<alive, next, next_pid>>,
         {current_task', cpu'} \subseteq Members,
         state'[KernelPid] # "DEAD",
         NEW l, pc' = [pc EXCEPT ![cpu] = l], l # "kfree", pc[cpu] # "kfree",
         NEW q \in Members, sel' = sel \/ sel' = [sel EXCEPT ![cpu] = q],
         l \in SwitchLabels => cpu' = cpu /\ sel'[cpu] \in Members,
         l \in {"spawned", "hold", "loading"} =>
           pc[cpu] \in {"spawned", "hold", "loading"} /\ sel' = sel,
         l = "kwalk" => kprev' \in Members /\ sel'[cpu] = next[kprev'] /\ kpid' # KernelPid
  PROVE  RingInv'
  <1>0. /\ cpu \in Pids /\ pc \in [Pids -> Labels] /\ sel \in [Pids -> Pids]
        /\ alive \in SUBSET Pids /\ 0 \in Pids
        /\ \A p \in Pids \ {cpu} : pc[p] \in Quiet
    BY PidFacts DEF SwitchInv, TypeOK, OffCpu
  <1>1. /\ pc'[cpu] = l /\ \A p \in Pids \ {cpu} : pc'[p] = pc[p] /\ sel'[p] = sel[p]
        /\ \A p \in Pids \ {cpu} : pc'[p] \notin SwitchLabels \cup {"spawned", "hold", "loading", "kwalk"}
    BY <1>0 DEF Quiet, HarmlessWindows, LoopLabels, SwitchLabels
  <1>2. Members' = Members
    BY <1>0, <1>1 DEF Members
  <1>3. \A p \in Pids : Loading(p)' => Loading(p)
    BY <1>0, <1>1 DEF Loading
  <1>4. cpu' \in Pids
    BY <1>0 DEF Members
  <1>5. pc'[cpu'] \in SwitchLabels => sel'[cpu'] \in Members
    BY <1>0, <1>1, <1>4
  <1>6. pc'[0] = "kwalk" => kprev' \in Members /\ sel'[0] = next[kprev'] /\ kpid' # KernelPid
    BY <1>0, <1>1
  <1> QED BY <1>2, <1>3, <1>5, <1>6 DEF RingInv

LEMMA RingStep ==
  ASSUME SwitchInv, RingInv, [Next]_vars, Windows \subseteq HarmlessWindows
  PROVE  RingInv'
  <1>0. /\ cpu \in Pids /\ current_task \in Pids /\ pc \in [Pids -> Labels]
        /\ sel \in [Pids -> Pids] /\ next \in [Pids -> Pids] /\ state \in [Pids -> TaskState]
        /\ esp \in [Pids -> Pids] /\ alive \in SUBSET Pids /\ Members \in SUBSET Pids
        /\ next_pid \in Nat /\ Pids \subseteq Nat /\ 0 \in Pids /\ TypeOK
    BY PidFacts DEF SwitchInv, TypeOK, Members
  <1>01. /\ \A p \in Pids \ {cpu} : pc[p] \in Quiet
         /\ \A p \in Pids : pc[p] \in ExecLabels \cup KillLabels => p = 0
         /\ \A p \in Pids : esp[p] = p
         /\ current_task = IF pc[cpu] = "switch" THEN sel[cpu] ELSE cpu
         /\ pc[cpu] = "mapstack" => next_pid <= MaxPid
         /\ \A p \in Pids : Loading(p) => IsUser(p)
    BY DEF SwitchInv, OffCpu, Owners, OnCpu, At
  <1>02. /\ Cycle(next, Members) /\ 0 \in Members /\ current_task \in Members /\ cpu \in Members
         /\ state[0] # "DEAD" /\ (\A p \in alive : p < next_pid)
         /\ (pc[cpu] \in SwitchLabels => sel[cpu] \in Members)
         /\ (\A p \in Pids : Loading(p) => p \in Members)
         /\ (pc[0] = "kwalk" => kprev \in Members /\ sel[0] = next[kprev] /\ kpid # 0)
    BY DEF RingInv
  <1>03. \A p \in Members : next[p] \in Members
    BY <1>02 DEF Cycle
  <1>1. CASE TimerIRQ
    <2> DEFINE st == Woken(timer_ticks')
               l == IF At("hlt") THEN "while" ELSE pc[cpu]
    <2>1. st \in [Pids -> TaskState] /\ st[0] # "DEAD"
      BY <1>0, <1>02 DEF Woken, TaskState
    <2>2. pc[cpu] \in Quiet /\ l \in Quiet /\ (l = "kfree" <=> pc[cpu] = "kfree")
      BY <1>1 DEF TimerIRQ, Quiet, HarmlessWindows, LoopLabels, At
    <2>3. Goto(l) /\ Schedule(st) /\ UNCHANGED <<next_pid, sel>>
      BY <1>1 DEF TimerIRQ, localVars
    <2> HIDE DEF st, l
    <2> QED BY <2>1, <2>2, <2>3, ScheduleKeepsRing
  <1>2. ASSUME NEW d \in Delays, SysSleep(d) PROVE RingInv'
    <2> DEFINE st == [state EXCEPT ![current_task] = "SLEEPING"]
    <2>1. st \in [Pids -> TaskState] /\ st[0] # "DEAD"
      BY <1>0, <1>02 DEF TaskState
    <2>2. pc[cpu] = "run" /\ "run" \in Quiet /\ "slept" \in Quiet
      BY <1>2 DEF SysSleep, Quiet, At
    <2>3. Goto("slept") /\ Schedule(st) /\ UNCHANGED <<next_pid, sel>>
      BY <1>2 DEF SysSleep, localVars
    <2> HIDE DEF st
    <2> QED BY <2>1, <2>2, <2>3, ScheduleKeepsRing
  <1>3. CASE SysYield
    <2>1. pc[cpu] = "run" /\ "run" \in Quiet
      BY <1>3 DEF SysYield, Quiet, At
    <2>2. Goto("run") /\ Schedule(state) /\ UNCHANGED <<next_pid, sel>>
      BY <1>0, <1>3, <2>1 DEF SysYield, localVars, Goto
    <2> QED BY <1>0, <1>02, <2>1, <2>2, ScheduleKeepsRing
  <1>4. CASE \/ KeyIRQ \/ LoopTest \/ Doze \/ ExitTask \/ ExecBegin
             \/ \E d \in Delays : TaskSleep(d)
    <2>1. /\ UNCHANGED <<alive, next, next_pid, current_task, cpu, sel>>
          /\ pc[cpu] # "kfree"
      BY <1>4 DEF KeyIRQ, LoopTest, Doze, ExitTask, ExecBegin, TaskSleep, ringVars, cpuVars,
                  localVars, At
    <2>2. state'[0] # "DEAD"
      BY <1>0, <1>01, <1>02, <1>4
      DEF KeyIRQ, LoopTest, Doze, ExitTask, ExecBegin, TaskSleep, At
    <2>3. PICK l : pc' = [pc EXCEPT ![cpu] = l]
                   /\ l \notin {"kfree", "kwalk", "spawned", "hold", "loading"} \cup SwitchLabels
      BY <1>4 DEF KeyIRQ, LoopTest, Doze, ExitTask, ExecBegin, TaskSleep, Goto, SwitchLabels
    <2> QED BY <1>02, <2>1, <2>2, <2>3, RingUntouched
  <1>5. CASE SchedEnter
    <2>1. /\ UNCHANGED <<alive, next, next_pid, current_task, cpu, state>>
          /\ pc[cpu] = "sched" /\ sel' = [sel EXCEPT ![cpu] = next[current_task]]
      BY <1>5 DEF SchedEnter, ringVars, cpuVars, At
    <2>2. PICK l \in {"dead", "check", "walk"} : pc' = [pc EXCEPT ![cpu] = l]
      BY <1>5 DEF SchedEnter, Goto, AfterSchedule
    <2>3. next[current_task] \in Members /\ sel'[cpu] \in Members
      BY <1>0, <1>02, <1>03, <2>1
    <2> QED BY <1>02, <2>1, <2>2, <2>3, RingUntouched
  <1>6. CASE SchedWalk
    <2> DEFINE t == sel[cpu]
    <2>1. /\ pc[cpu] = "walk" /\ t \in Members /\ next[t] \in Members /\ cpu = current_task
          /\ UNCHANGED <<next_pid, current_task, cpu, state>>
      BY <1>01, <1>02, <1>03, <1>6 DEF SchedWalk, At, SwitchLabels, cpuVars
    <2>2. PICK l \in {"walk", "mark", "dead", "check"} :
            pc' = [pc EXCEPT ![cpu] = l] /\ (l = "walk" => sel' = [sel EXCEPT ![cpu] = next[t]])
            /\ (l # "walk" => sel' = sel)
      BY <1>6 DEF SchedWalk, Goto, AfterSchedule
    <2>3. CASE UNCHANGED <<alive, next>>
      BY <1>0, <1>02, <2>1, <2>2, <2>3, RingUntouched
    <2>4. CASE /\ next' = Unlink(next, {t}) /\ alive' = alive \ {t} /\ t # cpu
               /\ state[t] = "DEAD" /\ l = "walk"
      <3>1. t \in Pids /\ {t} \in SUBSET Members /\ {t} # Members
        BY <1>0, <1>02, <2>1, <2>4
      <3>2. Cycle(next', Members \ {t})
        BY <1>0, <1>02, <2>4, <3>1, CycleUnlink
      <3>3. next[t] # t
        <4>1. (\A p \in {t} : next[p] \in {t}) => {t} = Members
          BY <1>02, <3>1 DEF Cycle
        <4> QED BY <3>1, <4>1
      <3>4. /\ pc'[cpu] = "walk" /\ sel'[cpu] = next[t]
            /\ \A p \in Pids \ {cpu} : pc'[p] = pc[p] /\ sel'[p] = sel[p]
        BY <1>0, <2>2, <2>4
      <3>5. Members' = Members \ {t}
        BY <1>0, <2>1, <2>4, <3>4 DEF Members
      <3>6. pc'[0] # "kwalk" /\ \A p \in Pids : ~Loading(p)'
        BY <1>0, <1>01, <3>4 DEF Loading, Quiet, HarmlessWindows, LoopLabels
      <3>7. {0, current_task, cpu, next[t]} \subseteq Members \ {t}
        BY <1>02, <2>1, <2>4, <3>3
      <3>8. \A p \in alive' : p < next_pid
        BY <1>02, <2>4
      <3> HIDE DEF t
      <3> QED BY <1>02, <2>1, <3>2, <3>4, <3>5, <3>6, <3>7, <3>8 DEF RingInv
    <2>5. \/ UNCHANGED <<alive, next>>
          \/ /\ next' = Unlink(next, {t}) /\ alive' = alive \ {t} /\ t # cpu
             /\ state[t] = "DEAD" /\ pc' = [pc EXCEPT ![cpu] = "walk"]
      BY <1>6 DEF SchedWalk, Goto
    <2>6. pc'[cpu] = l
      BY <1>0, <2>2
    <2> QED BY <1>0, <2>3, <2>4, <2>5, <2>6
  <1>7. CASE SchedMark
    <2>1. /\ UNCHANGED <<alive, next, next_pid, current_task, cpu, sel>>
          /\ pc[cpu] = "mark" /\ pc' = [pc EXCEPT ![cpu] = "load"]
          /\ sel[cpu] \in Members /\ state' = Handover(state, cpu, sel[cpu])
      BY <1>02, <1>7 DEF SchedMark, ringVars, localVars, At, Goto, SwitchLabels
    <2>2. state'[0] # "DEAD"
      BY <1>0, <1>02, <2>1 DEF Handover
    <2>3. PICK l : /\ pc' = [pc EXCEPT ![cpu] = l]
                   /\ l \notin {"kfree", "kwalk", "spawned", "hold", "loading"}
                   /\ pc[cpu] # "kfree" /\ cpu' = cpu /\ sel'[cpu] \in Members
      BY <2>1
    <2> QED BY <1>02, <2>1, <2>2, <2>3, RingUntouched
  <1>8. CASE SchedLoad
    <2>1. /\ UNCHANGED <<alive, next, next_pid, state, cpu, sel>> /\ current_task' = sel[cpu]
          /\ pc[cpu] = "load" /\ pc' = [pc EXCEPT ![cpu] = "switch"] /\ sel[cpu] \in Members
      BY <1>02, <1>8 DEF SchedLoad, ringVars, localVars, At, Goto, SwitchLabels
    <2>2. PICK l : /\ pc' = [pc EXCEPT ![cpu] = l]
                   /\ l \notin {"kfree", "kwalk", "spawned", "hold", "loading"}
                   /\ pc[cpu] # "kfree" /\ cpu' = cpu /\ sel'[cpu] \in Members
      BY <2>1
    <2> QED BY <1>02, <2>1, <2>2, RingUntouched
  <1>9. CASE SchedSwitch
    <2>1. /\ UNCHANGED <<alive, next, next_pid, state, current_task, sel>> /\ pc[cpu] = "switch"
          /\ esp' = [esp EXCEPT ![cpu] = cpu] /\ cpu' = esp'[sel[cpu]] /\ sel[cpu] \in Members
      BY <1>02, <1>9 DEF SchedSwitch, ringVars, localVars, At, SwitchLabels
    <2>2. PICK l \in {"dead", "check"} : pc' = [pc EXCEPT ![cpu] = l]
      BY <1>9 DEF SchedSwitch, Goto, AfterSchedule
    <2>3. cpu' = sel[cpu]
      BY <1>0, <1>01, <2>1
    <2>4. l \notin SwitchLabels
      BY DEF SwitchLabels
    <2> QED BY <1>02, <2>1, <2>2, <2>3, <2>4, RingUntouched
  <1>10. CASE ExecMapStack
    <2>1. PICK new : new = next_pid
      OBVIOUS
    <2>2. /\ pc[cpu] = "mapstack" /\ pc' = [pc EXCEPT ![cpu] = "spawned"]
          /\ sel' = [sel EXCEPT ![cpu] = new] /\ alive' = alive \cup {new} /\ next_pid' = new + 1
          /\ next' = [next EXCEPT ![new] = next[current_task], ![current_task] = new]
          /\ state' = [state EXCEPT ![new] = "READY"] /\ UNCHANGED <<current_task, cpu>>
      BY <1>10, <2>1 DEF ExecMapStack, At, Goto
    <2>3. cpu = 0 /\ new \in Pids
      <3>1. cpu = 0 /\ new <= MaxPid /\ new \in Nat
        BY <1>0, <1>01, <2>1, <2>2 DEF ExecLabels
      <3> QED BY <3>1, PidFacts DEF Pids
    <2>4. new \notin alive /\ new \notin Members
      BY <1>0, <1>02, <2>1 DEF Members
    <2>5. Cycle(next', Members \cup {new})
      BY <1>0, <1>02, <2>2, <2>3, <2>4, CycleInsert
    <2>6. pc'[0] = "spawned" /\ sel'[0] = new
      BY <1>0, <2>2, <2>3
    <2>7. Members = alive /\ Members' = alive \cup {new}
      BY <1>0, <2>2, <2>3, <2>6 DEF Members
    <2>8. state'[0] # "DEAD"
      BY <1>0, <1>02, <2>2
    <2>9. \A p \in alive' : p < next_pid'
      BY <1>0, <1>02, <2>1, <2>2
    <2>10. \A p \in Pids : Loading(p)' => p = new
      BY <2>6 DEF Loading
    <2> QED BY <1>02, <2>2, <2>3, <2>5, <2>6, <2>7, <2>8, <2>9, <2>10 DEF RingInv, SwitchLabels
  <1>11. CASE ExecHold \/ ExecLoad
    <2>1. /\ UNCHANGED <<alive, next, next_pid, current_task, cpu, sel>>
          /\ pc[cpu] \in {"spawned", "hold", "loading"}
      BY <1>11 DEF ExecHold, ExecLoad, ringVars, localVars, At
    <2>2. PICK l \in {"hold", "loading", "run"} : pc' = [pc EXCEPT ![cpu] = l]
      BY <1>11 DEF ExecHold, ExecLoad, Goto
    <2>3. cpu = 0 /\ IsUser(sel[cpu])
      BY <1>0, <1>01, <2>1 DEF ExecLabels, Loading
    <2>4. state'[0] # "DEAD"
      BY <1>0, <1>02, <1>11, <2>3 DEF ExecHold, ExecLoad
    <2>5. l \notin SwitchLabels
      BY DEF SwitchLabels
    <2> QED BY <1>02, <2>1, <2>2, <2>4, <2>5, RingUntouched
  <1>12. ASSUME NEW pid \in Pids, KillBegin(pid) PROVE RingInv'
    <2>1. /\ UNCHANGED <<alive, next, next_pid, current_task, cpu, state>> /\ cpu = 0 /\ pc[cpu] = "run"
          /\ pc' = [pc EXCEPT ![cpu] = "kwalk"] /\ kprev' = current_task /\ kpid' # 0
          /\ sel' = [sel EXCEPT ![cpu] = next[current_task]]
      BY <1>12 DEF KillBegin, ringVars, cpuVars, At, Goto
    <2>2. "kwalk" \notin SwitchLabels /\ sel'[cpu] = next[kprev'] /\ next[current_task] \in Members
      BY <1>0, <1>02, <1>03, <2>1 DEF SwitchLabels
    <2> QED BY <1>02, <2>1, <2>2, RingUntouched
  <1>13. CASE KillWalk
    <2>1. PICK t : t = sel[cpu]
      OBVIOUS
    <2>2. cpu = 0 /\ current_task = 0 /\ pc[0] = "kwalk"
      BY <1>0, <1>01, <1>13 DEF KillWalk, KillLabels, At
    <2>3. kprev \in Members /\ t = next[kprev] /\ kpid # 0 /\ t \in Members
      BY <1>02, <1>03, <2>1, <2>2
    <2>4. UNCHANGED <<alive, next_pid, current_task, cpu, state, kpid>>
      BY <1>13 DEF KillWalk, cpuVars
    <2>5. CASE t = kpid
      <3>1. next' = [next EXCEPT ![kprev] = next[t]] /\ pc' = [pc EXCEPT ![0] = "kfree"] /\ sel' = sel
        BY <1>13, <2>1, <2>2, <2>5 DEF KillWalk, Goto
      <3>2. t # kprev
        <4>1. kprev \in Pids /\ {kprev} \in SUBSET Members
          BY <1>0, <2>3
        <4>2. next[kprev] = kprev => {kprev} = Members
          BY <1>02, <4>1 DEF Cycle
        <4> QED BY <1>02, <2>3, <2>5, <4>2
      <3>3. Cycle(next', Members \ {t})
        BY <1>0, <1>02, <2>3, <3>1, <3>2, CycleRemove
      <3>4. Members' = Members \ {t} /\ pc'[0] = "kfree"
        BY <1>0, <2>1, <2>2, <2>4, <3>1 DEF Members
      <3> QED BY <1>02, <2>2, <2>3, <2>4, <2>5, <3>3, <3>4 DEF RingInv, Loading, SwitchLabels
    <2>6. CASE t # kpid
      <3>1. /\ next' = next /\ kprev' = t /\ sel' = [sel EXCEPT ![cpu] = next[t]]
            /\ \E l \in {"run", "kwalk"} : pc' = [pc EXCEPT ![cpu] = l]
        BY <1>13, <2>1, <2>6 DEF KillWalk, Goto
      <3>2. next[t] \in Members /\ sel'[cpu] = next[kprev'] /\ kpid' # 0
        BY <1>0, <1>03, <2>3, <2>4, <3>1
      <3>3. "run" \notin SwitchLabels /\ "kwalk" \notin SwitchLabels
        BY DEF SwitchLabels
      <3> QED BY <1>02, <2>2, <2>3, <2>4, <3>1, <3>2, <3>3, RingUntouched
    <2> QED BY <2>5, <2>6
  <1>14. CASE KillFree
    <2>1. cpu = 0 /\ pc[0] = "kfree"
      BY <1>0, <1>01, <1>14 DEF KillFree, KillLabels, At
    <2>2. /\ pc' = [pc EXCEPT ![0] = "run"] /\ alive' = alive \ {sel[0]}
          /\ UNCHANGED <<next, next_pid, state, current_task, cpu, sel>>
      BY <1>14, <2>1 DEF KillFree, Goto, cpuVars, localVars
    <2>3. Members' = Members /\ pc'[0] = "run"
      BY <1>0, <2>1, <2>2 DEF Members
    <2> QED BY <1>02, <2>1, <2>2, <2>3 DEF RingInv, Loading, SwitchLabels
  <1>15. CASE UNCHANGED vars
    BY <1>15 DEF vars, ringVars, cpuVars, localVars, RingInv, Members, Loading
  <1> QED BY <1>1, <1>2, <1>3, <1>4, <1>5, <1>6, <1>7, <1>8, <1>9, <1>10, <1>11, <1>12,
             <1>13, <1>14, <1>15
          DEF Next, TaskChoice, KernelStep

\* The invariant holds throughout, if ticks fall only in harmless windows.
THEOREM KernelInvariant ==
  Windows \subseteq HarmlessWindows => (Spec => [](SwitchInv /\ RingInv))
  <1> SUFFICES ASSUME Windows \subseteq HarmlessWindows PROVE Spec => [](SwitchInv /\ RingInv)
    OBVIOUS
  <1>1. Init => SwitchInv /\ RingInv
    BY SwitchInit, RingInit
  <1>2. SwitchInv /\ RingInv /\ [Next]_vars => SwitchInv' /\ RingInv'
    BY SwitchStep, RingStep
  <1> QED BY <1>1, <1>2, PTL DEF Spec

\* The list that schedule, task_timer_tick and kill_task walk is one cycle of exactly the
\* allocated tasks, whoever is reaped, killed or created.
THEOREM RingAlwaysIntact == Windows \subseteq HarmlessWindows => (Spec => []RingIntact)
  <1> SUFFICES ASSUME Windows \subseteq HarmlessWindows PROVE Spec => []RingIntact
    OBVIOUS
  <1>1. SwitchInv /\ RingInv => RingIntact
    <2> SUFFICES ASSUME SwitchInv, RingInv PROVE RingIntact
      OBVIOUS
    <2>1. Members \in SUBSET Pids /\ Cycle(next, Members) /\ next[current_task] \in Members
      BY DEF SwitchInv, TypeOK, Members, RingInv, Cycle
    <2>2. /\ \A k \in Pids : Trail(next, current_task)[k] \in Members
          /\ \A r \in Members : \E k \in Pids : Trail(next, current_task)[k] = r
      BY <2>1, TrailMeetsAll
    <2>3. Ring = Members
      BY <2>2 DEF Ring
    <2>4. \A p, q \in Members : next[p] = next[q] => p = q
      BY <2>1 DEF Cycle
    <2> QED BY <2>3, <2>4 DEF RingIntact, Members
  <1> QED BY <1>1, KernelInvariant, PTL

\* Nothing that schedule(), switch_context or kill_task is about to follow has been freed.
THEOREM NothingFreedUsed == Windows \subseteq HarmlessWindows => (Spec => []NoUseAfterFree)
  <1> SUFFICES ASSUME Windows \subseteq HarmlessWindows PROVE Spec => []NoUseAfterFree
    OBVIOUS
  <1>1. SwitchInv /\ RingInv => NoUseAfterFree
    <2> SUFFICES ASSUME SwitchInv, RingInv PROVE NoUseAfterFree
      OBVIOUS
    <2>1. /\ cpu \in Pids /\ alive \in SUBSET Pids /\ sel \in [Pids -> Pids]
          /\ Members \subseteq alive /\ 0 \in Pids
          /\ {0, cpu, current_task} \subseteq Members
      BY PidFacts DEF SwitchInv, TypeOK, Members, RingInv
    <2>2. \A p \in alive : pc[p] \in SwitchLabels => sel[p] \in alive
      <3>1. \A p \in alive : pc[p] \in SwitchLabels => p = cpu
        BY <2>1 DEF SwitchInv, OffCpu, Quiet, HarmlessWindows, LoopLabels, SwitchLabels
      <3> QED BY <2>1, <3>1 DEF RingInv
    <2>3. \A p \in alive : pc[p] = "kwalk" => {sel[p], kprev} \subseteq alive
      <3>1. \A p \in alive : pc[p] = "kwalk" => p = 0
        BY <2>1 DEF SwitchInv, Owners, KillLabels
      <3> QED BY <2>1, <3>1 DEF RingInv, Cycle
    <2>4. cr3 \in alive \/ (pc[0] = "mapstack" /\ cr3 = next_pid)
      <3>1. CASE Switching
        <4>1. cr3 = Dir(sel[cpu]) /\ sel[cpu] \in Members
          BY <3>1 DEF SwitchInv, Context, RingInv, Switching, SwitchLabels
        <4> QED BY <2>1, <4>1 DEF Dir
      <3>2. CASE ~Switching /\ pc[cpu] = "mapstack"
        BY <2>1, <3>2 DEF SwitchInv, Context, Owners, ExecLabels, At
      <3>3. CASE ~Switching /\ pc[cpu] = "loading"
        <4>1. cpu = 0 /\ cr3 = sel[cpu]
          BY <2>1, <3>3 DEF SwitchInv, Context, Owners, ExecLabels, At
        <4>2. Loading(sel[0]) /\ sel[0] \in Pids
          BY <2>1, <3>3, <4>1 DEF Loading
        <4> QED BY <2>1, <4>1, <4>2 DEF RingInv
      <3>4. CASE ~Switching /\ pc[cpu] # "mapstack" /\ pc[cpu] # "loading"
        <4>1. cr3 = Dir(cpu)
          BY <3>4 DEF SwitchInv, Context, At
        <4> QED BY <2>1, <4>1 DEF Dir
      <3> QED BY <3>1, <3>2, <3>3, <3>4
    <2> QED BY <2>1, <2>2, <2>3, <2>4 DEF NoUseAfterFree
  <1> QED BY <1>1, KernelInvariant, PTL

\* Types, for any number of tasks.
THEOREM TypesCorrect == Windows \subseteq HarmlessWindows => (Spec => []TypeOK)
  <1> SUFFICES ASSUME Windows \subseteq HarmlessWindows PROVE Spec => []TypeOK
    OBVIOUS
  <1>1. SwitchInv => TypeOK
    BY DEF SwitchInv
  <1> QED BY <1>1, KernelInvariant, PTL

\* switch_context always saves a task's stack pointer into that task.
THEOREM StacksOwned == Windows \subseteq HarmlessWindows => (Spec => []EspOwn)
  <1> SUFFICES ASSUME Windows \subseteq HarmlessWindows PROVE Spec => []EspOwn
    OBVIOUS
  <1>1. SwitchInv => EspOwn
    BY DEF SwitchInv, TypeOK, Owners, OnCpu, EspOwn
  <1> QED BY <1>1, KernelInvariant, PTL

\* schedule() never leaves two tasks marked RUNNING.
THEOREM OneRunning == Windows \subseteq HarmlessWindows => (Spec => []RunningIsCurrent)
  <1> SUFFICES ASSUME Windows \subseteq HarmlessWindows PROVE Spec => []RunningIsCurrent
    OBVIOUS
  <1>1. SwitchInv => RunningIsCurrent
    BY DEF SwitchInv, TypeOK, Owners, RunningIsCurrent
  <1> QED BY <1>1, KernelInvariant, PTL

\* A user program only ever executes on its own directory, with its own kernel
\* stack in the TSS, after exec has mapped its stack and its code.
THEOREM UserIsolation == Windows \subseteq HarmlessWindows => (Spec => []UserContext)
  <1> SUFFICES ASSUME Windows \subseteq HarmlessWindows PROVE Spec => []UserContext
    OBVIOUS
  <1>1. SwitchInv => UserContext
    <2> SUFFICES ASSUME SwitchInv, At("run"), IsUser(cpu)
                 PROVE  cr3 = cpu /\ tss = cpu /\ image[cpu] = Regions
      BY DEF UserContext
    <2>1. cpu \in Pids /\ cpu \in Nat /\ next_pid \in Nat /\ cpu < next_pid /\ ~Switching
      BY PidFacts DEF SwitchInv, TypeOK, OnCpu, Switching, At
    <2>2. ~Loading(cpu)
      BY <2>1, PidFacts DEF SwitchInv, OffCpu, Loading, Quiet, HarmlessWindows, LoopLabels
    <2> QED BY <2>1, <2>2 DEF SwitchInv, Context, At, Dir
  <1> QED BY <1>1, KernelInvariant, PTL

-----------------------------------------------------------------------------
(* Sleeping, until the tick counter is about to wrap. *)

\* No product ms * TIMER_FREQ wraps (README names values that show what happens when
\* one does), and no deadline that a tick can still reach does.
NoWrap ==
  /\ BootTick <= MaxTick /\ MaxTick < TickMod
  /\ \A ms \in Delays : ms * TimerFreq < TickMod /\ MaxTick + Owed(ms) <= TickMod

\* A task is awake outside task_sleep's loop; a sleeper's deadline leaves at least the
\* ticks it still has to sleep, unless the last tick is past (its deadline may have
\* wrapped then, and nobody is woken any more); a task that exec loads has no sleep to finish.
Awake == {"run", "sleep"} \cup ExecLabels \cup KillLabels
WakeInv ==
  /\ timer_ticks <= MaxTick
  /\ \A p \in Pids :
       /\ pc[p] \in Awake /\ ~Loading(p) => state[p] # "SLEEPING"
       /\ p >= next_pid \/ Loading(p) => left[p] = 0
       /\ state[p] = "SLEEPING" \/ pc[p] = "sleep" =>
            left[p] = 0 \/ timer_ticks = MaxTick \/ timer_ticks + left[p] <= wake_tick[p]

\* What NoEarlyWake says of a step.
Rested == \A p \in Pids : state[p] = "SLEEPING" /\ state'[p] # "SLEEPING" => left'[p] = 0

\* schedule() hands the CPU over and leaves the sleepers asleep.
LEMMA SleepersStay ==
  ASSUME TypeOK, RingInv, NEW st \in [Pids -> TaskState], Schedule(st)
  PROVE  \A p \in Pids : state'[p] = "SLEEPING" <=> st[p] = "SLEEPING"
  <1>1. CASE state' = st
    BY <1>1
  <1>2. ASSUME NEW n \in Pids, st[n] = "READY", state' = Handover(st, current_task, n)
        PROVE  \A p \in Pids : state'[p] = "SLEEPING" <=> st[p] = "SLEEPING"
    BY <1>2 DEF Handover, TypeOK
  <1>3. Members \subseteq Pids
    BY DEF Members, TypeOK
  <1> QED BY <1>1, <1>2, <1>3, ScheduleEffect

\* A step that leaves the sleepers, the alarms and the program being loaded alone.
LEMMA Undisturbed ==
  ASSUME WakeInv, UNCHANGED <<timer_ticks, next_pid, wake_tick, left>>,
         \A p \in Pids : state'[p] = "SLEEPING" <=> state[p] = "SLEEPING",
         \A p \in Pids : Loading(p)' = Loading(p),
         \A p \in Pids : pc'[p] \in Awake => pc[p] \in Awake \/ state[p] # "SLEEPING",
         \A p \in Pids : pc'[p] = "sleep" => pc[p] = "sleep"
  PROVE  WakeInv' /\ Rested
  <1>1. Rested
    BY DEF Rested
  <1>2. WakeInv'
    BY DEF WakeInv
  <1> QED BY <1>1, <1>2

LEMMA WakeStep ==
  ASSUME SwitchInv, RingInv, WakeInv, Next, Windows \subseteq HarmlessWindows, NoWrap
  PROVE  WakeInv' /\ Rested
  <1>0. /\ cpu \in Pids /\ current_task \in Pids /\ pc \in [Pids -> Labels] /\ sel \in [Pids -> Pids]
        /\ state \in [Pids -> TaskState] /\ alive \in SUBSET Pids
        /\ wake_tick \in [Pids -> 0..(TickMod - 1)] /\ left \in [Pids -> Nat]
        /\ timer_ticks \in Nat /\ next_pid \in Nat /\ Pids \subseteq Nat /\ 0 \in Pids
        /\ TickMod \in Nat /\ MaxTick \in Nat /\ MaxTick < TickMod /\ TypeOK
    BY PidFacts, TasksAssumption DEF SwitchInv, TypeOK, NoWrap
  <1>01. /\ \A p \in Pids \ {cpu} : pc[p] \in Quiet
         /\ \A p \in Pids : pc[p] \in ExecLabels \cup KillLabels => p = 0
         /\ current_task = IF pc[cpu] = "switch" THEN sel[cpu] ELSE cpu
         /\ pc[cpu] = "mark" => state[sel[cpu]] = "READY"
         /\ \A p \in Pids : Loading(p) => p > 1
    BY DEF SwitchInv, OffCpu, Owners, OnCpu, At
  <1>02. \A p \in Pids : Loading(p) => cpu = 0
    BY <1>0, <1>01 DEF Loading, Quiet, HarmlessWindows, LoopLabels
  <1>1. CASE TimerIRQ
    <2>1. PICK t : t = timer_ticks'
      OBVIOUS
    <2>2. t = timer_ticks + 1 /\ t <= MaxTick /\ timer_ticks # MaxTick
      BY <1>0, <1>1, <2>1 DEF TimerIRQ
    <2>3. PICK st : st = Woken(t)
      OBVIOUS
    <2>4. /\ st \in [Pids -> TaskState]
          /\ \A p \in Pids : st[p] = "SLEEPING" => state[p] = "SLEEPING"
          /\ \A p \in Pids : state[p] = "SLEEPING" /\ st[p] # "SLEEPING" => t >= wake_tick[p]
      BY <1>0, <2>3 DEF Woken, TaskState
    <2>5. \A p \in Pids : state'[p] = "SLEEPING" <=> st[p] = "SLEEPING"
      BY <1>0, <1>1, <2>1, <2>3, <2>4, SleepersStay DEF TimerIRQ
    <2>6. /\ \A p \in Pids : left'[p] = IF left[p] > 0 THEN left[p] - 1 ELSE 0
          /\ wake_tick' = wake_tick /\ next_pid' = next_pid /\ sel' = sel
      BY <1>1 DEF TimerIRQ, localVars
    <2>7. \A p \in Pids : pc'[p] = pc[p] \/ pc'[p] = "while"
      BY <1>0, <1>1 DEF TimerIRQ, Goto, At
    <2>8. \A p \in Pids : ~Loading(p) /\ ~Loading(p)'
      <3>1. pc[cpu] \notin {"spawned", "hold", "loading"}
        BY <1>1 DEF TimerIRQ, HarmlessWindows, LoopLabels
      <3>2. pc[0] \notin {"spawned", "hold", "loading"}
        BY <1>0, <1>01, <3>1 DEF Quiet, HarmlessWindows, LoopLabels
      <3> QED BY <1>0, <2>7, <3>2 DEF Loading
    <2>9. Rested
      BY <1>0, <2>2, <2>4, <2>5, <2>6 DEF WakeInv, Rested
    <2>10. ASSUME NEW p \in Pids
           PROVE  /\ pc'[p] \in Awake => state'[p] # "SLEEPING"
                  /\ p >= next_pid' => left'[p] = 0
                  /\ state'[p] = "SLEEPING" \/ pc'[p] = "sleep" =>
                       left'[p] = 0 \/ t = MaxTick \/ t + left'[p] <= wake_tick'[p]
      <3>1. "while" \notin Awake
        BY DEF Awake, ExecLabels, KillLabels
      <3>2. pc'[p] \in Awake => state'[p] # "SLEEPING"
        BY <2>4, <2>5, <2>7, <2>8, <3>1 DEF WakeInv
      <3>3. p >= next_pid' => left'[p] = 0
        BY <1>0, <2>6 DEF WakeInv
      <3>4. state'[p] = "SLEEPING" \/ pc'[p] = "sleep" =>
              left[p] = 0 \/ timer_ticks = MaxTick \/ timer_ticks + left[p] <= wake_tick[p]
        BY <2>4, <2>5, <2>7 DEF WakeInv
      <3> QED BY <1>0, <2>2, <2>6, <3>2, <3>3, <3>4
    <2> QED BY <2>1, <2>2, <2>8, <2>9, <2>10 DEF WakeInv
  <1>03. \A p \in Pids : Loading(p) = (pc[0] \in {"spawned", "hold", "loading"} /\ sel[0] = p)
    BY DEF Loading
  <1>04. \A p \in Pids : Loading(p)' = (pc'[0] \in {"spawned", "hold", "loading"} /\ sel'[0] = p)
    BY DEF Loading
  <1>2. CASE \/ KeyIRQ \/ LoopTest \/ SchedLoad \/ SchedSwitch \/ ExecBegin \/ KillFree \/ SchedEnter
             \/ SchedWalk \/ KillWalk \/ \E pid \in Pids : KillBegin(pid)
    <2>1. UNCHANGED <<timer_ticks, next_pid, wake_tick, left, state>>
      BY <1>2 DEF KeyIRQ, LoopTest, SchedLoad, SchedSwitch, ExecBegin, KillFree, SchedEnter, SchedWalk,
                  KillWalk, KillBegin
    <2>2. PICK l : /\ pc' = [pc EXCEPT ![cpu] = l] /\ l \notin {"spawned", "hold", "loading", "sleep"}
                   /\ pc[cpu] \notin {"spawned", "hold", "loading"}
                   /\ l \in Awake => pc[cpu] \in Awake \/ state[current_task] # "SLEEPING"
      BY <1>2 DEF KeyIRQ, LoopTest, SchedLoad, SchedSwitch,
                  ExecBegin, KillFree, SchedEnter, SchedWalk, KillWalk, KillBegin, Goto,
                  At, AfterSchedule, Asleep, Awake, ExecLabels, KillLabels
    <2>3. sel' = sel \/ \E q : sel' = [sel EXCEPT ![cpu] = q]
      BY <1>2 DEF KeyIRQ, LoopTest, SchedLoad, SchedSwitch, ExecBegin, KillFree, SchedEnter, SchedWalk,
                  KillWalk, KillBegin, localVars
    <2>4. \A p \in Pids : Loading(p)' = Loading(p)
      BY <1>0, <1>03, <1>04, <2>2, <2>3
    <2>5. pc[cpu] # "switch" => current_task = cpu
      BY <1>01
    <2>6. \A p \in Pids : pc'[p] \in Awake => pc[p] \in Awake \/ state[p] # "SLEEPING"
      <3>1. CASE pc[cpu] = "switch"
        <4>1. l \notin Awake
          BY <1>2, <2>2, <3>1, <1>0 DEF KeyIRQ, LoopTest, SchedLoad, SchedSwitch,
                  ExecBegin, KillFree, SchedEnter, SchedWalk, KillWalk, KillBegin, Goto,
                  At, AfterSchedule, Awake, ExecLabels, KillLabels
        <4> QED BY <1>0, <2>2, <4>1
      <3>2. CASE pc[cpu] # "switch"
        BY <1>0, <2>2, <2>5, <3>2
      <3> QED BY <3>1, <3>2
    <2>7. \A p \in Pids : pc'[p] = "sleep" => pc[p] = "sleep"
      BY <1>0, <2>2
    <2> QED BY <2>1, <2>4, <2>6, <2>7, Undisturbed
  <1>3. CASE SysYield
    <2>1. UNCHANGED <<timer_ticks, next_pid, wake_tick, left, pc, sel>> /\ Schedule(state)
      BY <1>3 DEF SysYield, localVars
    <2>2. \A p \in Pids : state'[p] = "SLEEPING" <=> state[p] = "SLEEPING"
      BY <1>0, <2>1, SleepersStay
    <2>3. \A p \in Pids : Loading(p)' = Loading(p)
      BY <1>03, <1>04, <2>1
    <2> QED BY <2>1, <2>2, <2>3, Undisturbed
  <1>4. CASE SchedMark
    <2>1. UNCHANGED <<timer_ticks, next_pid, wake_tick, left, sel>> /\ pc' = [pc EXCEPT ![cpu] = "load"]
          /\ pc[cpu] = "mark" /\ state' = Handover(state, cpu, sel[cpu])
      BY <1>4 DEF SchedMark, localVars, Goto, At
    <2>2. \A p \in Pids : state'[p] = "SLEEPING" <=> state[p] = "SLEEPING"
      BY <1>0, <1>01, <2>1 DEF Handover
    <2>3. \A p \in Pids : Loading(p)' = Loading(p)
      BY <1>0, <1>03, <1>04, <2>1
    <2>4. "load" \notin Awake
      BY DEF Awake, ExecLabels, KillLabels
    <2> QED BY <1>0, <2>1, <2>2, <2>3, <2>4, Undisturbed
  <1>5. ASSUME NEW d \in Delays, SetAlarm(d), pc[cpu] = "run", next_pid' = next_pid, sel' = sel,
               timer_ticks' = timer_ticks, NEW l \in {"slept", "sleep"}, pc' = [pc EXCEPT ![cpu] = l],
               \A p \in Pids \ {cpu} : state'[p] = "SLEEPING" <=> state[p] = "SLEEPING",
               l = "sleep" => state' = state
        PROVE  WakeInv' /\ Rested
    <2>1. current_task = cpu /\ \A p \in Pids : ~Loading(p) /\ ~Loading(p)'
      BY <1>0, <1>01, <1>02, <1>03, <1>04, <1>5
    <2> DEFINE t == Owed(d)
    <2>2. t \in Nat /\ timer_ticks <= MaxTick /\ MaxTick + t <= TickMod /\ Ticks(d) = t
      BY <1>0, TicksFacts DEF NoWrap, WakeInv
    <2> HIDE DEF t
    <2>3. timer_ticks < MaxTick => (timer_ticks + t) % TickMod = timer_ticks + t
      BY <1>0, <2>2
    <2>4. /\ timer_ticks < MaxTick => wake_tick'[cpu] = timer_ticks + t
          /\ left'[cpu] = t
          /\ \A p \in Pids \ {cpu} : wake_tick'[p] = wake_tick[p] /\ left'[p] = left[p]
      BY <1>0, <1>5, <2>1, <2>2, <2>3 DEF SetAlarm, t
    <2>5. state[cpu] # "SLEEPING" /\ cpu < next_pid /\ "slept" \notin Awake
      BY <1>0, <1>5, <2>1 DEF WakeInv, Awake, ExecLabels, KillLabels, SwitchInv, OnCpu
    <2>6. Rested
      BY <1>5, <2>4, <2>5 DEF Rested, WakeInv
    <2>7. ASSUME NEW p \in Pids
          PROVE  /\ pc'[p] \in Awake => state'[p] # "SLEEPING"
                 /\ p >= next_pid' => left'[p] = 0
                 /\ state'[p] = "SLEEPING" \/ pc'[p] = "sleep" =>
                      left'[p] = 0 \/ timer_ticks' = MaxTick \/ timer_ticks' + left'[p] <= wake_tick'[p]
      <3>1. CASE p = cpu
        BY <1>0, <1>5, <2>2, <2>4, <2>5, <3>1
      <3>2. CASE p # cpu
        BY <1>0, <1>5, <2>1, <2>4, <3>2 DEF WakeInv
      <3> QED BY <3>1, <3>2
    <2> QED BY <1>5, <2>1, <2>2, <2>6, <2>7 DEF WakeInv
  <1>6. ASSUME NEW d \in Delays, SysSleep(d) PROVE WakeInv' /\ Rested
    <2>1. PICK st : st = [state EXCEPT ![current_task] = "SLEEPING"]
      OBVIOUS
    <2>2. /\ SetAlarm(d) /\ pc[cpu] = "run" /\ next_pid' = next_pid /\ sel' = sel
          /\ timer_ticks' = timer_ticks /\ pc' = [pc EXCEPT ![cpu] = "slept"] /\ Schedule(st)
      BY <1>6, <2>1 DEF SysSleep, localVars, Goto, At
    <2>3. st \in [Pids -> TaskState] /\ current_task = cpu
      BY <1>0, <1>01, <2>1, <2>2 DEF TaskState
    <2>4. \A p \in Pids : state'[p] = "SLEEPING" <=> st[p] = "SLEEPING"
      BY <1>0, <2>2, <2>3, SleepersStay
    <2>5. \A p \in Pids \ {cpu} : state'[p] = "SLEEPING" <=> state[p] = "SLEEPING"
      BY <1>0, <2>1, <2>3, <2>4
    <2> QED BY <1>5, <2>2, <2>5
  <1>7. ASSUME NEW d \in Delays, TaskSleep(d) PROVE WakeInv' /\ Rested
    <2>1. /\ SetAlarm(d) /\ pc[cpu] = "run" /\ next_pid' = next_pid /\ sel' = sel /\ state' = state
          /\ timer_ticks' = timer_ticks /\ pc' = [pc EXCEPT ![cpu] = "sleep"]
      BY <1>7 DEF TaskSleep, localVars, Goto, At
    <2> QED BY <1>5, <2>1
  <1>8. CASE Doze
    <2>1. /\ UNCHANGED <<timer_ticks, next_pid, wake_tick, left, sel>> /\ pc[cpu] = "sleep"
          /\ pc' = [pc EXCEPT ![cpu] = "while"] /\ state' = [state EXCEPT ![cpu] = "SLEEPING"]
      BY <1>01, <1>8 DEF Doze, localVars, Goto, At
    <2>2. \A p \in Pids : Loading(p)' = Loading(p)
      BY <1>0, <1>03, <1>04, <2>1
    <2>3. "while" \notin Awake
      BY DEF Awake, ExecLabels, KillLabels
    <2>4. Rested
      BY <1>0, <2>1 DEF Rested
    <2>5. ASSUME NEW p \in Pids
          PROVE  /\ pc'[p] \in Awake /\ ~Loading(p) => state'[p] # "SLEEPING"
                 /\ state'[p] = "SLEEPING" \/ pc'[p] = "sleep" =>
                      left[p] = 0 \/ timer_ticks = MaxTick \/ timer_ticks + left[p] <= wake_tick[p]
      BY <1>0, <2>1, <2>3 DEF WakeInv
    <2> QED BY <2>1, <2>2, <2>4, <2>5 DEF WakeInv
  <1>9. CASE ExitTask
    <2>1. /\ UNCHANGED <<timer_ticks, next_pid, wake_tick, left, sel>> /\ pc[cpu] = "run"
          /\ pc' = [pc EXCEPT ![cpu] = "sched"] /\ state' = [state EXCEPT ![cpu] = "DEAD"]
      BY <1>01, <1>9 DEF ExitTask, localVars, Goto, At
    <2>2. \A p \in Pids : ~Loading(p) /\ ~Loading(p)'
      BY <1>0, <1>02, <1>03, <1>04, <2>1
    <2>3. state[cpu] # "SLEEPING" /\ "sched" \notin Awake
      BY <1>0, <2>1, <2>2 DEF WakeInv, Awake, ExecLabels, KillLabels
    <2>4. \A p \in Pids : state'[p] = "SLEEPING" <=> state[p] = "SLEEPING"
      BY <1>0, <2>1, <2>3
    <2>5. \A p \in Pids : Loading(p)' = Loading(p)
      BY <1>0, <1>03, <1>04, <2>1
    <2>6. \A p \in Pids : /\ pc'[p] \in Awake => pc[p] \in Awake
                          /\ pc'[p] = "sleep" => pc[p] = "sleep"
      BY <1>0, <2>1, <2>3
    <2> QED BY <2>1, <2>4, <2>5, <2>6, Undisturbed
  <1>10. CASE ExecMapStack
    <2>1. PICK new : new = next_pid
      OBVIOUS
    <2>2. /\ UNCHANGED <<timer_ticks, wake_tick, left>> /\ pc[cpu] = "mapstack" /\ next_pid' = new + 1
          /\ pc' = [pc EXCEPT ![cpu] = "spawned"] /\ state' = [state EXCEPT ![new] = "READY"]
          /\ sel' = [sel EXCEPT ![cpu] = new]
      BY <1>10, <2>1 DEF ExecMapStack, Goto, At
    <2>3. cpu = 0 /\ new \in Pids /\ new # 0
      <3>1. cpu = 0
        BY <1>0, <1>01, <2>2 DEF ExecLabels
      <3>2. new <= MaxPid /\ new \in Nat /\ new >= 2
        BY <1>0, <2>1, <2>2 DEF SwitchInv, OnCpu, At, TypeOK
      <3> QED BY <3>1, <3>2, PidFacts DEF Pids
    <2>4. \A p \in Pids : ~Loading(p) /\ (Loading(p)' <=> p = new)
      BY <1>0, <1>03, <1>04, <2>2, <2>3
    <2>5. state[new] # "SLEEPING" /\ left[new] = 0
      <3>1. left[new] = 0
        BY <1>0, <2>1, <2>3 DEF WakeInv
      <3>2. state[new] = "DEAD"
        BY <1>0, <2>1, <2>3 DEF SwitchInv, Owners
      <3> QED BY <3>1, <3>2
    <2>6. Rested
      BY <1>0, <2>2, <2>5 DEF Rested
    <2>7. "spawned" \in Awake /\ "mapstack" \in Awake
      BY DEF Awake, ExecLabels
    <2>8. ASSUME NEW p \in Pids
          PROVE  /\ pc'[p] \in Awake /\ ~Loading(p)' => state'[p] # "SLEEPING"
                 /\ p >= next_pid' \/ Loading(p)' => left[p] = 0
                 /\ state'[p] = "SLEEPING" \/ pc'[p] = "sleep" =>
                      left[p] = 0 \/ timer_ticks = MaxTick \/ timer_ticks + left[p] <= wake_tick[p]
      <3>1. p >= next_pid' => p >= next_pid
        BY <1>0, <2>1, <2>2
      <3> QED BY <1>0, <2>2, <2>3, <2>4, <2>5, <2>7, <3>1 DEF WakeInv
    <2> QED BY <2>2, <2>6, <2>8 DEF WakeInv
  <1>11. CASE ExecHold
    <2>1. PICK new : new = sel[cpu]
      OBVIOUS
    <2>2. /\ UNCHANGED <<timer_ticks, next_pid, left, sel>>
          /\ \/ /\ pc[cpu] = "spawned" /\ state' = [state EXCEPT ![new] = "SLEEPING"]
                /\ pc' = [pc EXCEPT ![cpu] = "hold"] /\ wake_tick' = wake_tick
             \/ /\ pc[cpu] = "hold" /\ wake_tick' = [wake_tick EXCEPT ![new] = TickMod - 1]
                /\ pc' = [pc EXCEPT ![cpu] = "loading"] /\ state' = state
      BY <1>11, <2>1 DEF ExecHold, localVars, Goto, At
    <2>3. cpu = 0 /\ new \in Pids
      BY <1>0, <1>01, <2>1, <2>2 DEF ExecLabels
    <2>4. \A p \in Pids : (Loading(p) <=> p = new) /\ (Loading(p)' <=> p = new)
      BY <1>0, <1>03, <1>04, <2>1, <2>2, <2>3
    <2>5. left[new] = 0
      BY <2>3, <2>4 DEF WakeInv
    <2>6. \A p \in Pids \ {new} : state'[p] = state[p] /\ wake_tick'[p] = wake_tick[p]
      BY <1>0, <2>2
    <2>7. \A p \in Pids : state[p] = "SLEEPING" => state'[p] = "SLEEPING"
      BY <1>0, <2>2
    <2>8. {"spawned", "hold", "loading"} \subseteq Awake
      BY DEF Awake, ExecLabels
    <2>9. \A p \in Pids : /\ pc'[p] \in Awake => pc[p] \in Awake
                          /\ pc'[p] = "sleep" => pc[p] = "sleep"
      BY <1>0, <2>2, <2>8
    <2>10. ASSUME NEW p \in Pids
           PROVE  /\ pc'[p] \in Awake /\ ~Loading(p)' => state'[p] # "SLEEPING"
                  /\ p >= next_pid \/ Loading(p)' => left[p] = 0
                  /\ state'[p] = "SLEEPING" \/ pc'[p] = "sleep" =>
                       left[p] = 0 \/ timer_ticks = MaxTick \/ timer_ticks + left[p] <= wake_tick'[p]
      <3>1. CASE p = new
        BY <2>4, <2>5, <3>1
      <3>2. CASE p # new
        BY <2>4, <2>6, <2>9, <3>2 DEF WakeInv
      <3> QED BY <3>1, <3>2
    <2> QED BY <2>2, <2>7, <2>10 DEF WakeInv, Rested
  <1>12. CASE ExecLoad
    <2>1. PICK new : new = sel[cpu]
      OBVIOUS
    <2>2. /\ UNCHANGED <<timer_ticks, next_pid, left, sel>> /\ pc[cpu] = "loading"
          /\ pc' = [pc EXCEPT ![cpu] = "run"] /\ state' = [state EXCEPT ![new] = "READY"]
          /\ wake_tick' = [wake_tick EXCEPT ![new] = 0]
      BY <1>12, <2>1 DEF ExecLoad, localVars, Goto, At
    <2>3. cpu = 0 /\ new \in Pids
      BY <1>0, <1>01, <2>1, <2>2 DEF ExecLabels
    <2>4. \A p \in Pids : (Loading(p) <=> p = new) /\ ~Loading(p)'
      BY <1>0, <1>03, <1>04, <2>1, <2>2, <2>3
    <2>5. left[new] = 0
      BY <2>3, <2>4 DEF WakeInv
    <2>6. /\ \A p \in Pids \ {new} : state'[p] = state[p] /\ wake_tick'[p] = wake_tick[p]
          /\ state'[new] = "READY"
      BY <1>0, <2>2, <2>3
    <2>7. Rested
      BY <2>2, <2>5, <2>6 DEF Rested
    <2>8. "loading" \in Awake
      BY DEF Awake, ExecLabels
    <2>9. \A p \in Pids : /\ pc'[p] \in Awake => pc[p] \in Awake
                          /\ pc'[p] = "sleep" => pc[p] = "sleep"
      BY <1>0, <2>2, <2>8
    <2>10. ASSUME NEW p \in Pids
           PROVE  /\ pc'[p] \in Awake => state'[p] # "SLEEPING"
                  /\ p >= next_pid => left[p] = 0
                  /\ state'[p] = "SLEEPING" \/ pc'[p] = "sleep" =>
                       left[p] = 0 \/ timer_ticks = MaxTick \/ timer_ticks + left[p] <= wake_tick'[p]
      <3>1. CASE p = new
        BY <2>5, <2>6, <3>1
      <3>2. CASE p # new
        BY <2>4, <2>6, <2>9, <3>2 DEF WakeInv
      <3> QED BY <3>1, <3>2
    <2> QED BY <2>2, <2>4, <2>7, <2>10 DEF WakeInv
  <1> QED BY <1>1, <1>2, <1>3, <1>4, <1>6, <1>7, <1>8, <1>9, <1>10, <1>11, <1>12
          DEF Next, TaskChoice, KernelStep

\* task_timer_tick wakes no sleeper before the whole ticks of its milliseconds have been
\* counted, for any number of tasks and every timer frequency, when every sleep asked for
\* is short enough that ms * TIMER_FREQ does not wrap (task.cpp:211; 11.9 hours in the
\* code) and until timer_ticks plus a sleep reaches the end of the counter (497 days).
THEOREM NobodyWokenEarly ==
  ASSUME Windows \subseteq HarmlessWindows, NoWrap
  PROVE  Spec => NoEarlyWake
  <1>1. Init => WakeInv
    <2> SUFFICES ASSUME Init PROVE WakeInv
      OBVIOUS
    <2>1. 0 \in Pids /\ \A p \in Pids : ~Loading(p) /\ left[p] = 0 /\ state[p] # "SLEEPING"
      BY PidFacts DEF Init, Loading
    <2>2. timer_ticks <= MaxTick
      BY DEF Init, NoWrap
    <2> QED BY <2>1, <2>2 DEF WakeInv
  <1>2. SwitchInv /\ RingInv /\ WakeInv /\ [Next]_vars => WakeInv'
    <2>1. ASSUME WakeInv, UNCHANGED vars PROVE WakeInv'
      BY <2>1 DEF WakeInv, vars, localVars, Loading
    <2> QED BY <2>1, WakeStep
  <1>3. SwitchInv /\ RingInv /\ WakeInv /\ [Next]_vars =>
          [\A p \in Pids : state[p] = "SLEEPING" /\ state'[p] # "SLEEPING" => left'[p] = 0]_vars
    BY WakeStep DEF Rested
  <1>4. Spec => [](SwitchInv /\ RingInv)
    BY KernelInvariant
  <1> QED BY <1>1, <1>2, <1>3, <1>4, PTL DEF Spec, NoEarlyWake
=============================================================================

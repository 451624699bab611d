---------------------------- MODULE FilesProofs ----------------------------
(***************************************************************************)
(* Proofs about Files, for every number of tasks, descriptors, File        *)
(* objects and inodes and every set of names and paths.                    *)
(***************************************************************************)
EXTENDS Files, FiniteSetTheorems, TLAPS

AllNames == Words \cup {".", "..", "/"}
EntryNames == {n \in Names : NameLen[n] <= NameMax} \cup {".", ".."}
NodeType == [name : AllNames, ino : Inodes, parent : Inodes, dir : BOOLEAN]
FileType ==
  [type : {"stdin", "stdout", "stderr", "regular", "unused", "orphan"},
   node : SUBSET NodeType, offset : Nat]

Types ==
  /\ DOMAIN files \subseteq Objects /\ files \in [DOMAIN files -> FileType]
  /\ Shell \in Live /\ Live \subseteq Tasks
  /\ fd \in [Live -> [Fds -> {0} \cup Objects]]
  /\ cwd \in [Live -> NodeType] /\ \A t \in Live : cwd[t].dir

\* The entries that touch and mkdir made in directory d.
Proper(d) == DOMAIN ent[d] \cap Names

\* No entry for inode i has a name that paths cannot spell.
Plain(i) == \A d \in Inodes : \A n \in Proper(d) : ent[d][n] = i => n \in Words

\* No inode has two names, and what has a name that paths cannot spell stays empty, since
\* no task can enter it: the way up from a directory never meets such a name.
OneWay ==
  /\ \A d, e \in Inodes : \A n \in Proper(d), m \in Proper(e) : ent[d][n] = ent[e][m] => n = m
  /\ \A d \in Inodes : \A n \in Proper(d) :
       ent[d][n] # 0 /\ (n \notin Words => Proper(ent[d][n]) = {})
  /\ \A d \in Inodes : ".." \in DOMAIN ent[d] => ent[d][".."] = 0 \/ Proper(ent[d][".."]) # {}

\* The tables name inodes in use, and only inodes in use have one.
TreeOK ==
  /\ ent = [i \in Inodes |-> ent[i]] /\ DOMAIN size \subseteq Inodes /\ size \in [DOMAIN size -> Nat]
  /\ 0 \in DOMAIN size /\ IsDir(0)
  /\ \A i \in Inodes : IsDir(i) =>
       /\ i \in DOMAIN size /\ "." \in DOMAIN ent[i]
       /\ \A n \in DOMAIN ent[i] : n \in EntryNames /\ ent[i][n] \in DOMAIN size
  /\ OneWay

\* Inodes are taken in order, so a directory's ".." is an inode taken before it, and the
\* directory has an entry there.
TreeUp ==
  /\ \A j \in DOMAIN size : \A k \in Inodes : k < j => k \in DOMAIN size
  /\ ent[0][".."] = 0
  /\ \A i \in Inodes : IsDir(i) =>
       /\ {".", ".."} \subseteq DOMAIN ent[i] /\ ent[i]["."] = i /\ "/" \notin DOMAIN ent[i]
       /\ i # 0 => /\ ent[i][".."] \in Inodes /\ ent[i][".."] < i
                   /\ \E n \in DOMAIN ent[ent[i][".."]] : ent[ent[i][".."]][n] = i

\* A copy of an entry that is still true.
NodeOK(n) ==
  /\ n.dir = IsDir(n.ino) /\ n.ino \in DOMAIN size /\ Plain(n.ino)
  /\ n # Root => n.name \in DOMAIN ent[n.parent] /\ ent[n.parent][n.name] = n.ino

NodesOK ==
  /\ \A o \in DOMAIN files : \A n \in files[o].node : NodeOK(n)
  /\ \A t \in Live : NodeOK(cwd[t])

\* Every descriptor in use has a File of its own, and every File a descriptor, unless it was
\* closed or its task was killed.
Held(o) == \E t \in Live : \E i \in Fds : fd[t][i] = o

OwnersOK ==
  /\ \A t \in Live : \A i \in Fds : fd[t][i] # 0 =>
       /\ fd[t][i] \in DOMAIN files /\ files[fd[t][i]].type \notin {"unused", "orphan"}
       /\ \A u \in Live : \A j \in Fds : fd[u][j] = fd[t][i] => u = t /\ j = i
  /\ \A o \in DOMAIN files : files[o] \in {Unused, Orphan} \/ Held(o)

\* The inductive invariant.
FilesInv == Types /\ TreeOK /\ NodesOK /\ OwnersOK

-----------------------------------------------------------------------------
(* Numbers and names *)

\* The constants of the descriptor table and the inode table.
LEMMA Constants ==
  /\ NInodes \in Nat /\ NInodes > 0 /\ MaxFd \in Nat /\ MaxFd >= 3 /\ NFiles \in Nat /\ NFiles >= 3
  /\ Inodes \subseteq Nat /\ 0 \in Inodes /\ Objects \subseteq Nat /\ 0 \notin Objects
  /\ 1 \in Objects /\ 2 \in Objects /\ 3 \in Objects
  /\ 0 \in Fds /\ 1 \in Fds /\ 2 \in Fds /\ Fds \subseteq Nat
  BY FilesAssumption DEF Inodes, Objects, Fds

\* A nonempty set of natural numbers has a least element.
LEMMA Least ==
  ASSUME NEW S \in SUBSET Nat, S # {}
  PROVE  \E x \in S : \A y \in S : x <= y
  <1>1. PICK s \in S : TRUE
    OBVIOUS
  <1> DEFINE T == {y \in S : y <= s}
             Below(x) == {y \in T : y <= x}
             F == {Below(x) : x \in T}
  <1>2. IsFiniteSet(T)
    <2>1. T \in SUBSET Nat /\ s \in Nat /\ \A t \in T : t <= s
      OBVIOUS
    <2> QED BY <2>1, FS_BoundedSetOfNaturals
  <1>3. F \subseteq FiniteSubsetsOf(T)
    BY <1>2, FS_FiniteSubsetsOfFinite
  <1>4. F # {}
    <2>1. s \in T
      OBVIOUS
    <2>2. Below(s) \in F
      BY <2>1
    <2> HIDE DEF F
    <2> QED BY <2>2
  <1>5. IsWellFoundedOn(StrictSubsetOrdering(T), FiniteSubsetsOf(T))
    BY FS_StrictSubsetOrderingWellFounded
  <1>6. PICK U \in F : \A V \in F : ~(<<V, U>> \in StrictSubsetOrdering(T))
    BY <1>3, <1>4, <1>5, WFMin
  <1>7. PICK x \in T : U = Below(x)
    OBVIOUS
  <1>8. ASSUME NEW y \in T, y < x PROVE FALSE
    <2>1. \A z \in Below(y) : z \in U
      BY <1>7, <1>8
    <2>2. x \in U /\ x \notin Below(y)
      BY <1>7, <1>8
    <2>3. <<Below(y), U>> \in (SUBSET T) \X (SUBSET T)
      BY <1>7
    <2>4. Below(y) \in F
      BY <1>8
    <2> HIDE DEF Below, F
    <2>5. Below(y) \subseteq U /\ Below(y) # U
      BY <2>1, <2>2
    <2>6. <<Below(y), U>> \in StrictSubsetOrdering(T)
      BY <2>3, <2>5 DEF StrictSubsetOrdering
    <2> QED BY <1>6, <2>4, <2>6
  <1>9. x \in S /\ \A y \in S : x <= y
    BY <1>8
  <1> QED BY <1>9

\* h starts at a and takes step k by F[k].
Iterates(h, T, m, a, F) ==
  h \in [0..m -> T] /\ h[0] = a /\ \A k \in 1..m : h[k] = F[k][h[k - 1]]

\* A recursion whose steps stay within a type has a value at every number.
LEMMA Recursion ==
  ASSUME NEW T, NEW m \in Nat, NEW a \in T, NEW F \in [1..m -> [T -> T]]
  PROVE  \E h : Iterates(h, T, m, a, F)
  <1> DEFINE Has(n) == \E h \in [0..n -> T] : h[0] = a /\ \A k \in 1..n : h[k] = F[k][h[k - 1]]
             Bad == {n \in 0..m : ~Has(n)}
  <1>1. ASSUME Bad # {} PROVE FALSE
    <2>1. Bad \in SUBSET Nat
      OBVIOUS
    <2>2. PICK n \in Bad : \A y \in Bad : n <= y
      <3> HIDE DEF Bad
      <3> QED BY <1>1, <2>1, Least
    <2>3. n \in 0..m /\ ~Has(n)
      OBVIOUS
    <2>4. CASE n = 0
      <3>1. PICK h : h = [k \in 0..0 |-> a]
        OBVIOUS
      <3>2. h \in [0..0 -> T] /\ h[0] = a /\ 1..0 = {}
        BY <3>1
      <3>3. Has(0)
        BY <3>2
      <3> QED BY <2>3, <2>4, <3>3
    <2>5. CASE n # 0
      <3>1. n - 1 \in 0..m /\ n \in 1..m /\ ~(n <= n - 1)
        BY <2>3, <2>5
      <3>2. Has(n - 1)
        BY <2>2, <3>1
      <3>3. PICK h \in [0..(n - 1) -> T] : h[0] = a /\ \A k \in 1..(n - 1) : h[k] = F[k][h[k - 1]]
        BY <3>2
      <3>4. PICK g : g = [k \in 0..n |-> IF k = n THEN F[n][h[n - 1]] ELSE h[k]]
        OBVIOUS
      <3>5. \A k \in 0..(n - 1) : g[k] = h[k] /\ h[k] \in T
        BY <3>1, <3>3, <3>4
      <3>6. g[n] = F[n][h[n - 1]] /\ n - 1 \in 0..(n - 1)
        BY <3>1, <3>4
      <3>7. F[n][h[n - 1]] \in T
        BY <3>1, <3>5, <3>6
      <3>8. g \in [0..n -> T]
        <4>1. \A k \in 0..n : g[k] \in T
          <5>1. \A k \in 0..n : k = n \/ k \in 0..(n - 1)
            BY <3>1
          <5> QED BY <3>5, <3>6, <3>7, <5>1
        <4> QED BY <3>4, <4>1
      <3>9. g[0] = a
        BY <3>1, <3>3, <3>5
      <3>10. ASSUME NEW k \in 1..n PROVE g[k] = F[k][g[k - 1]]
        <4>1. k = n \/ k \in 1..(n - 1)
          BY <3>1
        <4>2. k - 1 \in 0..(n - 1)
          BY <3>1
        <4>3. g[k - 1] = h[k - 1]
          BY <3>5, <4>2
        <4>4. CASE k = n
          BY <3>6, <4>3, <4>4
        <4>5. CASE k \in 1..(n - 1)
          <5>1. k \in 0..(n - 1)
            BY <3>1, <4>5
          <5> QED BY <3>3, <3>5, <4>3, <4>5, <5>1
        <4> QED BY <4>1, <4>4, <4>5
      <3>11. Has(n)
        BY <3>8, <3>9, <3>10
      <3> QED BY <2>3, <3>11
    <2> QED BY <2>4, <2>5
  <1>2. m \in 0..m
    OBVIOUS
  <1>3. Has(m)
    BY <1>1, <1>2
  <1> QED BY <1>3 DEF Iterates

\* The recursion has no other value.
LEMMA RecursionOnce ==
  ASSUME NEW h, NEW g, NEW m \in Nat, g[0] = h[0], \A k \in 1..m : g[k - 1] = h[k - 1] => g[k] = h[k]
  PROVE  \A k \in 0..m : g[k] = h[k]
  <1> DEFINE Bad == {k \in 0..m : g[k] # h[k]}
  <1>1. ASSUME Bad # {} PROVE FALSE
    <2>1. Bad \in SUBSET Nat
      OBVIOUS
    <2>2. PICK n \in Bad : \A y \in Bad : n <= y
      <3> HIDE DEF Bad
      <3> QED BY <1>1, <2>1, Least
    <2>3. n \in 0..m /\ g[n] # h[n] /\ n # 0
      OBVIOUS
    <2>4. n - 1 \in 0..m /\ n \in 1..m /\ ~(n <= n - 1)
      BY <2>3
    <2>5. g[n - 1] = h[n - 1]
      BY <2>2, <2>4
    <2> QED BY <2>3, <2>4, <2>5
  <1> QED BY <1>1

\* What Min returns.
LEMMA MinIs ==
  ASSUME NEW S \in SUBSET Nat, S # {}
  PROVE  Min(S) \in S /\ \A y \in S : Min(S) <= y
  <1>1. \E x \in S : \A y \in S : x =< y
    BY Least
  <1> QED BY <1>1 DEF Min

\* The names of the entries every directory has.
LEMMA NamesAre ==
  /\ NoToken \notin Names /\ "." \notin Names /\ ".." \notin Names /\ "/" \notin Names
  /\ NoToken \notin Words /\ "." \notin Words /\ ".." \notin Words /\ "/" \notin Words
  /\ Shell \in Tasks /\ \A p \in Paths : p \in Seq(AllNames)
  BY FilesAssumption DEF AllNames

-----------------------------------------------------------------------------
(* Paths *)

\* A name has an inode in directories only.
LEMMA NoEntries == DOMAIN <<>> = {}
  OBVIOUS

\* What the way up meets can be spelled.
LEMMA PlainUp ==
  ASSUME OneWay, NEW u \in Inodes, u = 0 \/ Proper(u) # {}
  PROVE  Plain(u)
  BY DEF OneWay, Plain

\* The root.
LEMMA RootIs == TreeOK => Root \in NodeType /\ NodeOK(Root) /\ Root.dir
  <1>1. Root \in NodeType /\ Root.dir = TRUE /\ Root.ino = 0
    BY Constants DEF Root, NodeType, AllNames
  <1>2. TreeOK => Plain(0)
    BY PlainUp, Constants DEF TreeOK
  <1> QED BY <1>1, <1>2 DEF NodeOK, TreeOK

\* vfs_lookup returns a true copy of an entry.
LEMMA LookupNodes ==
  ASSUME TreeOK, NEW d \in NodeType, NodeOK(d), NEW x \in AllNames, NEW n \in Lookup(d, x)
  PROVE  n \in NodeType /\ NodeOK(n)
  <1>1. d.dir
    BY DEF Lookup
  <1>2. CASE x = "."
    BY <1>1, <1>2 DEF Lookup
  <1>3. CASE x # "."
    <2>1. x \in DOMAIN ent[d.ino] /\ d.ino \in Inodes /\ IsDir(d.ino)
      BY <1>1, <1>3 DEF Lookup, NodeOK, NodeType
    <2>2. ent[d.ino][x] \in DOMAIN size /\ ent[d.ino][x] \in Inodes
      BY <2>1 DEF TreeOK
    <2>3. n = [name |-> x, ino |-> ent[d.ino][x], parent |-> d.ino, dir |-> IsDir(ent[d.ino][x])]
      BY <1>1, <1>3 DEF Lookup
    <2>4. IsDir(ent[d.ino][x]) \in BOOLEAN
      BY DEF IsDir
    <2>5. n \in NodeType
      BY <2>1, <2>2, <2>3, <2>4 DEF NodeType
    <2>6. n.name = x /\ n.ino = ent[d.ino][x] /\ n.parent = d.ino /\ n.dir = IsDir(ent[d.ino][x])
      BY <2>3
    <2>7. Plain(ent[d.ino][x])
      <3>1. OneWay /\ x \in EntryNames
        BY <2>1 DEF TreeOK
      <3>2. CASE x = ".."
        BY <2>1, <2>2, <3>1, <3>2, PlainUp DEF OneWay
      <3>3. CASE x # ".."
        <4>1. x \in Words /\ x \in Proper(d.ino)
          BY <1>3, <2>1, <3>1, <3>3, NamesAre DEF AllNames, EntryNames, Proper
        <4> QED BY <2>1, <3>1, <4>1 DEF OneWay, Plain
      <3> QED BY <3>2, <3>3
    <2> QED BY <2>1, <2>2, <2>5, <2>6, <2>7 DEF NodeOK
  <1> QED BY <1>2, <1>3

\* What resolve_step makes of true copies.
LEMMA StepNodes ==
  ASSUME TreeOK, NEW S \in SUBSET NodeType, \A d \in S : NodeOK(d), NEW x \in AllNames \cup {NoToken},
         NEW n \in Step(S, x)
  PROVE  n \in NodeType /\ NodeOK(n)
  <1>1. CASE x = NoToken
    BY <1>1 DEF Step
  <1>2. CASE x # NoToken
    <2>1. PICK d \in S : n \in Lookup(d, x)
      BY <1>2 DEF Step
    <2> QED BY <1>2, <2>1, LookupNodes
  <1> QED BY <1>1, <1>2

\* How far vfs_resolve_path is after a character of the path, from how far it was before.
After(was, x) ==
  IF x = "/" THEN [cur |-> Step(was.cur, was.token), token |-> NoToken] ELSE [was EXCEPT !.token = x]
Start(c, p) == [cur |-> IF p # <<>> /\ p[1] = "/" THEN {Root} ELSE {c}, token |-> NoToken]
IsWalk(s, c, p, m) == s = [i \in 0..m |-> IF i = 0 THEN Start(c, p) ELSE After(s[i - 1], p[i])]

\* The loop of vfs_resolve_path has a value for every path.
LEMMA WalkExists ==
  ASSUME NEW c, NEW p, NEW k \in Nat
  PROVE  \E s : IsWalk(s, c, p, k)
  <1> DEFINE Bad == {m \in 0..k : ~\E s : IsWalk(s, c, p, m)}
  <1>1. ASSUME Bad # {} PROVE FALSE
    <2>1. Bad \in SUBSET Nat
      OBVIOUS
    <2>2. PICK m \in Bad : \A y \in Bad : m <= y
      <3> HIDE DEF Bad
      <3> QED BY <1>1, <2>1, Least
    <2>3. CASE m = 0
      <3>1. IsWalk([i \in 0..0 |-> Start(c, p)], c, p, 0)
        BY DEF IsWalk
      <3> QED BY <2>3, <3>1
    <2>4. CASE m # 0
      <3>1. m - 1 \in 0..k /\ m \in Nat /\ ~(m <= m - 1)
        BY <2>4
      <3>2. m - 1 \notin Bad
        BY <2>2, <3>1
      <3>3. PICK s : IsWalk(s, c, p, m - 1)
        BY <3>1, <3>2
      <3>4. PICK h : h = [i \in 0..m |-> IF i = m THEN After(s[m - 1], p[m]) ELSE s[i]]
        OBVIOUS
      <3>5. \A i \in 0..(m - 1) : h[i] = s[i]
        BY <3>1, <3>4
      <3>6. \A i \in 0..(m - 1) : s[i] = IF i = 0 THEN Start(c, p) ELSE After(s[i - 1], p[i])
        BY <3>3 DEF IsWalk
      <3>7. ASSUME NEW i \in 0..m PROVE h[i] = IF i = 0 THEN Start(c, p) ELSE After(h[i - 1], p[i])
        <4>1. CASE i = m
          <5>1. h[i] = After(s[m - 1], p[m]) /\ h[m - 1] = s[m - 1]
            BY <2>4, <3>1, <3>4, <3>5, <4>1
          <5> QED BY <2>4, <4>1, <5>1
        <4>2. CASE i # m
          <5>1. i \in 0..(m - 1) /\ (i # 0 => i - 1 \in 0..(m - 1))
            BY <3>1, <4>2
          <5>2. h[i] = s[i] /\ (i # 0 => h[i - 1] = s[i - 1])
            BY <3>5, <5>1
          <5> QED BY <3>6, <5>1, <5>2
        <4> QED BY <4>1, <4>2
      <3>8. h = [i \in 0..m |-> h[i]]
        BY <3>4
      <3>9. IsWalk(h, c, p, m)
        BY <3>7, <3>8 DEF IsWalk
      <3> QED BY <3>9
    <2> QED BY <2>3, <2>4
  <1>2. k \notin Bad
    BY <1>1
  <1> QED BY <1>2

\* How far vfs_resolve_path is, when all it has looked up are true copies of entries.
OnTree(x) ==
  /\ x = [cur |-> x.cur, token |-> x.token]
  /\ x.cur \in SUBSET NodeType /\ x.token \in AllNames \cup {NoToken}
  /\ \A d \in x.cur : NodeOK(d)

\* vfs_resolve_path walks from true copies of entries to true copies of entries.
LEMMA ResolveIs ==
  ASSUME TreeOK, NEW c \in NodeType, NodeOK(c), NEW p \in Seq(AllNames)
  PROVE  \E s : /\ IsWalk(s, c, p, Len(p)) /\ Resolve(c, p) = Step(s[Len(p)].cur, s[Len(p)].token)
               /\ \A i \in 0..Len(p) : OnTree(s[i])
  <1>0. PICK k \in Nat : k = Len(p)
    OBVIOUS
  <1>1. \A i \in 1..k : p[i] \in AllNames
    BY <1>0
  <1>2. PICK s : IsWalk(s, c, p, k) /\ Resolve(c, p) = Step(s[k].cur, s[k].token)
    <2>1. \E s : IsWalk(s, c, p, k)
      BY WalkExists
    <2>2. PICK s : s = CHOOSE t : IsWalk(t, c, p, k)
      OBVIOUS
    <2>3. IsWalk(s, c, p, k)
      BY <2>1, <2>2
    <2>4. Resolve(c, p) = Step(s[k].cur, s[k].token)
      BY <1>0, <2>2 DEF Resolve, IsWalk, Start, After
    <2> QED BY <2>3, <2>4
  <1> DEFINE Good(x) == /\ x.cur \in SUBSET NodeType /\ x.token \in AllNames \cup {NoToken}
                        /\ \A d \in x.cur : NodeOK(d)
  <1>3. Good(Start(c, p))
    <2>1. Root \in NodeType /\ NodeOK(Root)
      BY RootIs
    <2> QED BY <2>1 DEF Start
  <1>4. ASSUME NEW x, Good(x), x = [cur |-> x.cur, token |-> x.token], NEW y \in AllNames
        PROVE  Good(After(x, y)) /\ After(x, y) = [cur |-> After(x, y).cur, token |-> After(x, y).token]
    <2>1. CASE y = "/"
      <3>1. After(x, y) = [cur |-> Step(x.cur, x.token), token |-> NoToken]
        BY <2>1 DEF After
      <3>2. \A d \in Step(x.cur, x.token) : d \in NodeType /\ NodeOK(d)
        BY <1>4, StepNodes
      <3> QED BY <3>1, <3>2
    <2>2. CASE y # "/"
      <3>1. After(x, y) = [cur |-> x.cur, token |-> y]
        BY <1>4, <2>2 DEF After
      <3> QED BY <1>4, <3>1
    <2> QED BY <2>1, <2>2
  <1> DEFINE Fine(x) == Good(x) /\ x = [cur |-> x.cur, token |-> x.token]
             Bad == {i \in 0..k : ~Fine(s[i])}
  <1>5. ASSUME Bad # {} PROVE FALSE
    <2>1. Bad \in SUBSET Nat
      OBVIOUS
    <2>2. PICK m \in Bad : \A y \in Bad : m <= y
      <3> HIDE DEF Bad
      <3> QED BY <1>5, <2>1, Least
    <2>3. m \in 0..k /\ m \in Nat /\ ~Fine(s[m])
      OBVIOUS
    <2>4. s[m] = IF m = 0 THEN Start(c, p) ELSE After(s[m - 1], p[m])
      BY <1>2, <2>3 DEF IsWalk
    <2>5. CASE m = 0
      <3>1. Start(c, p) = [cur |-> Start(c, p).cur, token |-> Start(c, p).token]
        BY DEF Start
      <3> QED BY <1>3, <2>3, <2>4, <2>5, <3>1
    <2>6. CASE m # 0
      <3>1. m - 1 \in 0..k /\ ~(m <= m - 1) /\ m \in 1..k
        BY <1>1, <2>3, <2>6
      <3>2. m - 1 \notin Bad
        BY <2>2, <3>1
      <3>3. Fine(s[m - 1]) /\ p[m] \in AllNames
        BY <1>1, <3>1, <3>2
      <3>4. Fine(After(s[m - 1], p[m]))
        <4> HIDE DEF Good
        <4> QED BY <1>4, <3>3
      <3> HIDE DEF Fine
      <3> QED BY <2>3, <2>4, <2>6, <3>4
    <2> QED BY <2>5, <2>6
  <1>6. ASSUME NEW i \in 0..k PROVE OnTree(s[i])
    <2>1. Fine(s[i])
      <3> HIDE DEF Fine
      <3> QED BY <1>5
    <2> QED BY <2>1 DEF OnTree
  <1> QED BY <1>0, <1>2, <1>6

\* Every node vfs_resolve_path returns is a true copy of an entry.
LEMMA ResolveNodes ==
  ASSUME TreeOK, NEW c \in NodeType, NodeOK(c), NEW p \in Seq(AllNames), NEW n \in Resolve(c, p)
  PROVE  n \in NodeType /\ NodeOK(n)
  <1>1. PICK s : /\ Resolve(c, p) = Step(s[Len(p)].cur, s[Len(p)].token)
                 /\ \A i \in 0..Len(p) : OnTree(s[i])
    BY ResolveIs
  <1>2. OnTree(s[Len(p)])
    <2>1. Len(p) \in 0..Len(p)
      OBVIOUS
    <2> QED BY <1>1, <2>1
  <1> QED BY <1>1, <1>2, StepNodes DEF OnTree

-----------------------------------------------------------------------------
(* Files *)

\* What kmalloc gives is not a File yet.
LEMMA NewObjectIs ==
  ASSUME NEW fs, DOMAIN fs \subseteq Objects
  PROVE  /\ NewObject(fs) \in {0} \cup Objects
         /\ NewObject(fs) # 0 => NewObject(fs) \in Objects /\ NewObject(fs) \notin DOMAIN fs
  <1>1. CASE DOMAIN fs = Objects
    BY <1>1 DEF NewObject
  <1>2. CASE DOMAIN fs # Objects
    <2>1. Objects \ DOMAIN fs \in SUBSET Nat /\ Objects \ DOMAIN fs # {}
      BY <1>2, Constants
    <2>2. Min(Objects \ DOMAIN fs) \in Objects \ DOMAIN fs
      BY <2>1, MinIs
    <2> QED BY <1>2, <2>2 DEF NewObject
  <1> QED BY <1>1, <1>2

\* What a new File is.
LEMMA FileIs ==
  ASSUME NEW type \in {"stdin", "stdout", "stderr", "regular", "unused", "orphan"}, NEW S \in SUBSET NodeType
  PROVE  /\ File(type, S) \in FileType /\ File(type, S).type = type
         /\ File(type, S).node = S /\ File(type, S).offset = 0
  BY DEF File, FileType

\* A File that was closed or whose task was killed.
LEMMA UnusedIs ==
  /\ Unused \in FileType /\ Unused.type = "unused" /\ Unused.node = {}
  /\ Orphan \in FileType /\ Orphan.type = "orphan" /\ Orphan.node = {}
  BY FileIs DEF Unused, Orphan

\* The files and directories stay.
LEMMA TreeStays == ASSUME TreeOK, UNCHANGED <<ent, size>> PROVE TreeOK' /\ \A n : NodeOK(n)' <=> NodeOK(n)
  BY DEF TreeOK, NodeOK, IsDir, OneWay, Plain, Proper

\* Where the machine starts: the root directory and the shell with its three streams.
LEMMA FilesInit == Init => FilesInv
  <1> SUFFICES ASSUME Init PROVE FilesInv
    OBVIOUS
  <1>1. /\ ent = [i \in Inodes |-> IF i = 0 THEN Table(0, 0) ELSE <<>>]
        /\ size = [i \in {0} |-> 0]
        /\ files = [o \in 1..3 |-> File(<<"stdin", "stdout", "stderr">>[o], {})]
        /\ fd = [t \in {Shell} |-> Streams(1, 2, 3)]
        /\ cwd = [t \in {Shell} |-> Root]
    BY DEF Init
  <1>2. TreeOK
    <2>1. ent[0] = Table(0, 0) /\ \A i \in Inodes : i # 0 => ent[i] = <<>>
      BY <1>1, Constants
    <2>2. DOMAIN Table(0, 0) = {".", ".."} /\ \A n \in {".", ".."} : Table(0, 0)[n] = 0
      BY DEF Table
    <2>3. Table(0, 0) # <<>>
      BY <2>2, NoEntries
    <2>4. DOMAIN size = {0} /\ size[0] = 0 /\ size \in [DOMAIN size -> Nat] /\ {0} \subseteq Inodes
      BY <1>1, Constants
    <2>5. ent = [i \in Inodes |-> ent[i]]
      BY <1>1
    <2>6. \A i \in Inodes : IsDir(i) =>
            /\ i \in DOMAIN size /\ "." \in DOMAIN ent[i]
            /\ \A n \in DOMAIN ent[i] : n \in EntryNames /\ ent[i][n] \in DOMAIN size
      BY <2>1, <2>2, <2>4 DEF IsDir, EntryNames
    <2>7. \A i \in Inodes : Proper(i) = {}
      BY <2>1, <2>2, NamesAre, NoEntries DEF Proper
    <2>8. OneWay
      BY <2>1, <2>2, <2>7, NoEntries DEF OneWay
    <2> QED BY <2>1, <2>3, <2>4, <2>5, <2>6, <2>8 DEF TreeOK, IsDir
  <1>3. /\ DOMAIN files = {1, 2, 3} /\ files[1] = File("stdin", {}) /\ files[2] = File("stdout", {})
        /\ files[3] = File("stderr", {}) /\ files = [o \in DOMAIN files |-> files[o]]
    <2>1. 1..3 = {1, 2, 3}
      OBVIOUS
    <2> QED BY <1>1, <2>1
  <1>4. /\ Live = {Shell} /\ fd[Shell] \in [Fds -> {0} \cup Objects]
        /\ \A i \in Fds : fd[Shell][i] = IF i = 0 THEN 1 ELSE IF i = 1 THEN 2 ELSE IF i = 2 THEN 3 ELSE 0
    BY <1>1, Constants DEF Live, Streams
  <1>5. \A o \in DOMAIN files : files[o] \in FileType /\ files[o].node = {} /\ files[o].type \notin {"unused", "orphan"}
    BY <1>3, FileIs
  <1>6. Types
    <2>1. files \in [DOMAIN files -> FileType]
      BY <1>3, <1>5
    <2>2. fd \in [Live -> [Fds -> {0} \cup Objects]] /\ Shell \in Tasks
      BY <1>1, <1>4, NamesAre
    <2>3. cwd \in [Live -> NodeType] /\ \A t \in Live : cwd[t].dir
      BY <1>1, <1>2, <1>4, RootIs
    <2> QED BY <1>3, <1>4, <2>1, <2>2, <2>3, Constants DEF Types
  <1>7. NodesOK
    BY <1>1, <1>2, <1>4, <1>5, RootIs DEF NodesOK
  <1>8. OwnersOK
    <2>1. \A i \in Fds : fd[Shell][i] # 0 => fd[Shell][i] \in DOMAIN files
      BY <1>3, <1>4
    <2>2. \A i, j \in Fds : fd[Shell][i] # 0 /\ fd[Shell][j] = fd[Shell][i] => j = i
      BY <1>4
    <2>3. \A o \in DOMAIN files : Held(o)
      BY <1>3, <1>4, Constants DEF Held
    <2> QED BY <1>4, <1>5, <2>1, <2>2, <2>3 DEF OwnersOK
  <1> QED BY <1>2, <1>6, <1>7, <1>8 DEF FilesInv

\* SYS_CHDIR.
LEMMA ChdirKeepsInv == ASSUME FilesInv, NEW t \in Tasks, NEW p \in Paths, Chdir(t, p) PROVE FilesInv'
  <1>1. PICK n \in Resolve(cwd[t], p) : n.dir /\ cwd' = [cwd EXCEPT ![t] = n]
    BY DEF Chdir
  <1>2. t \in Live /\ UNCHANGED <<ent, size, files, fd>> /\ Live' = Live
    BY DEF Chdir, Live
  <1>3. Types /\ TreeOK /\ NodesOK /\ OwnersOK
    BY DEF FilesInv
  <1>4. n \in NodeType /\ NodeOK(n)
    BY <1>1, <1>2, <1>3, ResolveNodes, NamesAre DEF Types, NodesOK
  <1>5. TreeOK' /\ \A x : NodeOK(x)' <=> NodeOK(x)
    BY <1>2, <1>3, TreeStays
  <1>6. \A u \in Live : cwd'[u] = IF u = t THEN n ELSE cwd[u]
    BY <1>1, <1>2, <1>3 DEF Types
  <1>7. Types'
    BY <1>1, <1>2, <1>3, <1>4, <1>6 DEF Types
  <1>8. NodesOK'
    BY <1>2, <1>3, <1>4, <1>5, <1>6 DEF NodesOK
  <1>9. OwnersOK'
    BY <1>2, <1>3 DEF OwnersOK, Held
  <1> QED BY <1>5, <1>7, <1>8, <1>9 DEF FilesInv

\* The inode that a read or a write of a file works on exists.
LEMMA TargetIs ==
  ASSUME TreeOK, NEW n \in NodeType, NodeOK(n), NEW x \in Target(n)
  PROVE  x \in DOMAIN size
  <1>1. n.name \in DOMAIN ent[n.parent] /\ x = ent[n.parent][n.name] /\ n.parent \in Inodes
    BY DEF Target, NodeType
  <1>2. IsDir(n.parent)
    BY <1>1, NoEntries DEF IsDir
  <1> QED BY <1>1, <1>2 DEF TreeOK

\* SYS_WRITE.
LEMMA WriteKeepsInv ==
  ASSUME FilesInv, NEW t \in Tasks, NEW i \in Fds, NEW count \in Nat, Write(t, i, count) PROVE FilesInv'
  <1>1. t \in Live /\ fd[t][i] # 0 /\ UNCHANGED <<ent, files, fd, cwd>> /\ Live' = Live
    BY DEF Write, Live
  <1>2. Types /\ TreeOK /\ NodesOK /\ OwnersOK
    BY DEF FilesInv
  <1>3. PICK n \in files[fd[t][i]].node : \E x \in Target(n) : size' = [size EXCEPT ![x] = count]
    BY DEF Write
  <1>4. PICK x \in Target(n) : size' = [size EXCEPT ![x] = count]
    BY <1>3
  <1>5. fd[t][i] \in DOMAIN files
    BY <1>1, <1>2 DEF OwnersOK
  <1>6. n \in NodeType /\ NodeOK(n)
    BY <1>2, <1>5 DEF Types, FileType, NodesOK
  <1>7. x \in DOMAIN size
    BY <1>2, <1>6, TargetIs
  <1>8. DOMAIN size' = DOMAIN size /\ size' \in [DOMAIN size' -> Nat]
    BY <1>2, <1>4, <1>7 DEF TreeOK
  <1>9. TreeOK' /\ \A y : NodeOK(y)' <=> NodeOK(y)
    <2>1. TreeOK'
      BY <1>1, <1>2, <1>8 DEF TreeOK, IsDir, OneWay, Proper
    <2> QED BY <1>1, <1>8, <2>1 DEF NodeOK, IsDir, Plain, Proper
  <1>10. Types' /\ OwnersOK'
    BY <1>1, <1>2 DEF Types, OwnersOK, Held
  <1>11. NodesOK'
    BY <1>1, <1>2, <1>9 DEF NodesOK
  <1> QED BY <1>9, <1>10, <1>11 DEF FilesInv

\* SYS_READ.
LEMMA ReadKeepsInv ==
  ASSUME FilesInv, NEW t \in Tasks, NEW i \in Fds, NEW count \in Nat, Read(t, i, count) PROVE FilesInv'
  <1>1. t \in Live /\ fd[t][i] # 0 /\ UNCHANGED <<ent, size, fd, cwd>> /\ Live' = Live
    BY DEF Read, Live
  <1>2. Types /\ TreeOK /\ NodesOK /\ OwnersOK
    BY DEF FilesInv
  <1>3. PICK o : o = fd[t][i]
    OBVIOUS
  <1>4. PICK n \in files[o].node : \E x \in Target(n) : files' = [files EXCEPT ![o].offset = @ + Copied(x, count)]
    BY <1>3 DEF Read
  <1>5. PICK x \in Target(n) : files' = [files EXCEPT ![o].offset = @ + Copied(x, count)]
    BY <1>4
  <1>6. o \in DOMAIN files /\ files[o] \in FileType /\ files[o].type \notin {"unused", "orphan"}
    BY <1>1, <1>2, <1>3 DEF OwnersOK, Types
  <1>7. n \in NodeType /\ NodeOK(n)
    BY <1>2, <1>6 DEF FileType, NodesOK
  <1>8. x \in DOMAIN size
    BY <1>2, <1>7, TargetIs
  <1>9. Copied(x, count) \in Nat
    BY <1>2, <1>8 DEF Copied, TreeOK
  <1>10. PICK f : f = [files[o] EXCEPT !.offset = @ + Copied(x, count)]
    OBVIOUS
  <1>11. f \in FileType /\ f.type = files[o].type /\ f.node = files[o].node
    BY <1>6, <1>9, <1>10 DEF FileType
  <1>12. files' = [files EXCEPT ![o] = f]
    BY <1>5, <1>10
  <1>13. /\ DOMAIN files' = DOMAIN files /\ files' \in [DOMAIN files' -> FileType] /\ files'[o] = f
         /\ \A y \in DOMAIN files : y # o => files'[y] = files[y]
    BY <1>2, <1>6, <1>11, <1>12 DEF Types
  <1>14. Types'
    BY <1>1, <1>2, <1>13 DEF Types
  <1>15. TreeOK' /\ \A y : NodeOK(y)' <=> NodeOK(y)
    BY <1>1, <1>2, TreeStays
  <1>16. NodesOK'
    BY <1>1, <1>2, <1>11, <1>13, <1>15 DEF NodesOK
  <1>17. Held(o)
    BY <1>1, <1>3 DEF Held
  <1>18. OwnersOK'
    <2>1. \A y : Held(y)' <=> Held(y)
      BY <1>1 DEF Held
    <2>2. \A y \in DOMAIN files : files'[y].type = files[y].type
      BY <1>11, <1>13
    <2>3. \A y \in DOMAIN files : files'[y] \in {Unused, Orphan} \/ Held(y)
      BY <1>2, <1>13, <1>17 DEF OwnersOK
    <2> QED BY <1>1, <1>2, <1>13, <2>1, <2>2, <2>3 DEF OwnersOK
  <1> QED BY <1>14, <1>15, <1>16, <1>18 DEF FilesInv

\* SYS_CLOSE.
LEMMA CloseKeepsInv ==
  ASSUME FilesInv, NEW t \in Tasks, NEW i \in Fds, Close(t, i) PROVE FilesInv'
  <1>1. t \in Live /\ fd[t][i] # 0 /\ UNCHANGED <<ent, size, cwd>> /\ fd' = [fd EXCEPT ![t][i] = 0]
    BY DEF Close
  <1>2. Types /\ TreeOK /\ NodesOK /\ OwnersOK
    BY DEF FilesInv
  <1>3. PICK o : o = fd[t][i]
    OBVIOUS
  <1>4. files' = IF files[o].type = "regular" THEN [files EXCEPT ![o] = Unused] ELSE Forget(o)
    BY <1>3 DEF Close
  <1>5. /\ o \in DOMAIN files /\ o # 0
        /\ \A u \in Live : \A j \in Fds : fd[u][j] = o => u = t /\ j = i
    BY <1>1, <1>2, <1>3 DEF OwnersOK
  <1>6. /\ Live' = Live /\ fd' \in [Live -> [Fds -> {0} \cup Objects]]
        /\ \A u \in Live : \A j \in Fds : fd'[u][j] = IF u = t /\ j = i THEN 0 ELSE fd[u][j]
    BY <1>1, <1>2 DEF Types, Live
  <1>7. /\ DOMAIN files' \subseteq DOMAIN files /\ \A y \in DOMAIN files : y # o => y \in DOMAIN files' /\ files'[y] = files[y]
        /\ o \in DOMAIN files' => files'[o] = Unused
        /\ files' = [y \in DOMAIN files' |-> files'[y]]
    <2>1. CASE files[o].type = "regular"
      <3>1. files' = [files EXCEPT ![o] = Unused]
        BY <1>4, <2>1
      <3> QED BY <1>2, <1>5, <3>1 DEF Types
    <2>2. CASE files[o].type # "regular"
      <3>1. files' = [x \in DOMAIN files \ {o} |-> files[x]]
        BY <1>4, <2>2 DEF Forget
      <3> QED BY <1>5, <3>1
    <2> QED BY <2>1, <2>2
  <1>8. files' \in [DOMAIN files' -> FileType]
    <2>1. \A y \in DOMAIN files' : files'[y] \in FileType
      BY <1>2, <1>7, UnusedIs DEF Types
    <2> QED BY <1>7, <2>1
  <1>9. Types'
    BY <1>1, <1>2, <1>6, <1>7, <1>8 DEF Types
  <1>10. TreeOK' /\ \A y : NodeOK(y)' <=> NodeOK(y)
    BY <1>1, <1>2, TreeStays
  <1>11. NodesOK'
    BY <1>1, <1>2, <1>6, <1>7, <1>10, UnusedIs DEF NodesOK
  <1>12. OwnersOK'
    <2>1. ASSUME NEW u \in Live, NEW j \in Fds, fd'[u][j] # 0
          PROVE  /\ fd'[u][j] \in DOMAIN files' /\ files'[fd'[u][j]].type \notin {"unused", "orphan"}
                 /\ \A v \in Live : \A k \in Fds : fd'[v][k] = fd'[u][j] => v = u /\ k = j
      <3>1. fd'[u][j] = fd[u][j] /\ fd[u][j] # o
        BY <1>3, <1>5, <1>6, <2>1
      <3>2. fd[u][j] \in DOMAIN files /\ files[fd[u][j]].type \notin {"unused", "orphan"}
        BY <1>2, <2>1, <3>1 DEF OwnersOK
      <3>3. \A v \in Live : \A k \in Fds : fd'[v][k] = fd'[u][j] => fd[v][k] = fd[u][j]
        BY <1>6, <2>1, <3>1
      <3> QED BY <1>2, <1>7, <2>1, <3>1, <3>2, <3>3 DEF OwnersOK
    <2>2. ASSUME NEW y \in DOMAIN files' PROVE files'[y] \in {Unused, Orphan} \/ Held(y)'
      <3>1. CASE y = o
        BY <1>7, <3>1
      <3>2. CASE y # o
        <4>1. files'[y] = files[y] /\ y \in DOMAIN files
          BY <1>7, <3>2
        <4>2. Held(y) => Held(y)'
          BY <1>3, <1>6, <3>2 DEF Held
        <4> QED BY <1>2, <4>1, <4>2 DEF OwnersOK
      <3> QED BY <3>1, <3>2
    <2> QED BY <1>6, <2>1, <2>2 DEF OwnersOK
  <1> QED BY <1>9, <1>10, <1>11, <1>12 DEF FilesInv

\* SYS_OPEN.
LEMMA OpenKeepsInv ==
  ASSUME FilesInv, NEW t \in Tasks, NEW p \in Paths, Open(t, p) PROVE FilesInv'
  <1>1. /\ t \in Live /\ 0 \in Range(fd[t]) /\ NewObject(files) # 0 /\ UNCHANGED <<ent, size, cwd>>
        /\ fd' = [fd EXCEPT ![t][Min({i \in Fds : fd[t][i] = 0})] = NewObject(files)]
    BY DEF Open
  <1>2. Types /\ TreeOK /\ NodesOK /\ OwnersOK
    BY DEF FilesInv
  <1>3. PICK o : o = NewObject(files)
    OBVIOUS
  <1>4. o \in Objects /\ o \notin DOMAIN files /\ o # 0
    BY <1>1, <1>2, <1>3, NewObjectIs DEF Types
  <1>5. PICK n \in Resolve(cwd[t], p) : files' = With(files, o, File("regular", {n}))
    BY <1>3 DEF Open
  <1>6. n \in NodeType /\ NodeOK(n)
    BY <1>1, <1>2, ResolveNodes, NamesAre DEF Types, NodesOK
  <1>7. PICK i \in Fds : fd[t][i] = 0 /\ fd' = [fd EXCEPT ![t][i] = o]
    <2> DEFINE S == {i \in Fds : fd[t][i] = 0}
    <2>1. S \in SUBSET Nat
      BY Constants
    <2>2. S # {}
      BY <1>1, <1>2 DEF Range, Types
    <2>3. Min(S) \in S
      <3> HIDE DEF S
      <3> QED BY <2>1, <2>2, MinIs
    <2> QED BY <1>1, <1>3, <2>3
  <1>8. /\ Live' = Live /\ fd' \in [Live -> [Fds -> {0} \cup Objects]]
        /\ \A u \in Live : \A j \in Fds : fd'[u][j] = IF u = t /\ j = i THEN o ELSE fd[u][j]
    BY <1>1, <1>2, <1>4, <1>7 DEF Types, Live
  <1>9. PICK f : f = File("regular", {n})
    OBVIOUS
  <1>10. f \in FileType /\ f.type = "regular" /\ f.node = {n}
    BY <1>6, <1>9, FileIs
  <1>11. /\ DOMAIN files' = DOMAIN files \cup {o} /\ files'[o] = f
         /\ \A y \in DOMAIN files : y # o /\ files'[y] = files[y]
         /\ files' = [y \in DOMAIN files' |-> files'[y]]
    <2>1. files' = With(files, o, f)
      BY <1>5, <1>9
    <2>2. /\ DOMAIN files' = DOMAIN files \cup ({o} \ {0}) /\ files'[o] = f
          /\ \A y \in DOMAIN files : y # o => files'[y] = files[y]
      BY <1>4, <2>1 DEF With
    <2>3. files' = [y \in DOMAIN files' |-> files'[y]]
      BY <2>1 DEF With
    <2> QED BY <1>4, <2>2, <2>3
  <1>12. files' \in [DOMAIN files' -> FileType]
    <2>1. \A y \in DOMAIN files' : files'[y] \in FileType
      BY <1>2, <1>10, <1>11 DEF Types
    <2> QED BY <1>11, <2>1
  <1>13. Types'
    BY <1>1, <1>2, <1>4, <1>8, <1>11, <1>12 DEF Types
  <1>14. TreeOK' /\ \A y : NodeOK(y)' <=> NodeOK(y)
    BY <1>1, <1>2, TreeStays
  <1>15. NodesOK'
    BY <1>1, <1>2, <1>6, <1>8, <1>10, <1>11, <1>14 DEF NodesOK
  <1>16. OwnersOK'
    <2>1. \A u \in Live : \A j \in Fds : fd[u][j] # o
      BY <1>2, <1>4 DEF OwnersOK
    <2>2. ASSUME NEW u \in Live, NEW j \in Fds, fd'[u][j] # 0
          PROVE  /\ fd'[u][j] \in DOMAIN files' /\ files'[fd'[u][j]].type \notin {"unused", "orphan"}
                 /\ \A v \in Live : \A k \in Fds : fd'[v][k] = fd'[u][j] => v = u /\ k = j
      <3>1. CASE u = t /\ j = i
        BY <1>8, <1>10, <1>11, <2>1, <3>1
      <3>2. CASE ~(u = t /\ j = i)
        <4>1. fd'[u][j] = fd[u][j] /\ fd[u][j] # 0 /\ fd[u][j] \in DOMAIN files
          BY <1>2, <1>8, <2>2, <3>2 DEF OwnersOK
        <4>2. \A v \in Live : \A k \in Fds : fd'[v][k] = fd'[u][j] => fd[v][k] = fd[u][j]
          BY <1>8, <2>1, <4>1
        <4> QED BY <1>2, <1>11, <4>1, <4>2 DEF OwnersOK
      <3> QED BY <3>1, <3>2
    <2>3. ASSUME NEW y \in DOMAIN files' PROVE files'[y] \in {Unused, Orphan} \/ Held(y)'
      <3>1. CASE y = o
        BY <1>1, <1>8, <3>1 DEF Held
      <3>2. CASE y # o
        <4>1. files'[y] = files[y] /\ y \in DOMAIN files /\ y # 0
          BY <1>2, <1>11, <3>2, Constants DEF Types
        <4>2. Held(y) => Held(y)'
          BY <1>7, <1>8, <4>1 DEF Held
        <4> QED BY <1>2, <4>1, <4>2 DEF OwnersOK
      <3> QED BY <3>1, <3>2
    <2> QED BY <1>8, <2>2, <2>3 DEF OwnersOK
  <1> QED BY <1>13, <1>14, <1>15, <1>16 DEF FilesInv

\* kill_task: the Files stay, and no descriptor is left that leads to them.
LEMMA KillKeepsInv == ASSUME FilesInv, NEW t \in Tasks, Kill(t) PROVE FilesInv'
  <1>1. /\ t \in Live /\ t # Shell /\ UNCHANGED <<ent, size>>
        /\ fd' = [u \in Live \ {t} |-> fd[u]] /\ cwd' = [u \in Live \ {t} |-> cwd[u]]
        /\ files' = [o \in DOMAIN files |-> IF o \in Range(fd[t]) THEN Orphan ELSE files[o]]
    BY DEF Kill
  <1>2. Types /\ TreeOK /\ NodesOK /\ OwnersOK
    BY DEF FilesInv
  <1>3. /\ Live' = Live \ {t} /\ \A u \in Live' : fd'[u] = fd[u] /\ cwd'[u] = cwd[u]
        /\ fd' \in [Live' -> [Fds -> {0} \cup Objects]] /\ cwd' \in [Live' -> NodeType]
    BY <1>1, <1>2 DEF Types, Live
  <1>4. \A o : o \in Range(fd[t]) <=> \E i \in Fds : fd[t][i] = o
    BY <1>1, <1>2 DEF Range, Types
  <1>5. /\ DOMAIN files' = DOMAIN files /\ files' \in [DOMAIN files' -> FileType]
        /\ \A o \in DOMAIN files : files'[o] = IF o \in Range(fd[t]) THEN Orphan ELSE files[o]
    BY <1>1, <1>2, UnusedIs DEF Types
  <1>6. Types'
    BY <1>1, <1>2, <1>3, <1>5 DEF Types
  <1>7. TreeOK' /\ \A y : NodeOK(y)' <=> NodeOK(y)
    BY <1>1, <1>2, TreeStays
  <1>8. NodesOK'
    BY <1>2, <1>3, <1>5, <1>7, UnusedIs DEF NodesOK
  <1>9. OwnersOK'
    <2>1. ASSUME NEW u \in Live', NEW j \in Fds, fd'[u][j] # 0
          PROVE  /\ fd'[u][j] \in DOMAIN files' /\ files'[fd'[u][j]].type \notin {"unused", "orphan"}
                 /\ \A v \in Live' : \A k \in Fds : fd'[v][k] = fd'[u][j] => v = u /\ k = j
      <3>1. fd'[u][j] = fd[u][j] /\ u \in Live /\ u # t
        BY <1>3
      <3>2. fd[u][j] \in DOMAIN files /\ files[fd[u][j]].type \notin {"unused", "orphan"}
        BY <1>2, <2>1, <3>1 DEF OwnersOK
      <3>3. \A v \in Live : \A k \in Fds : fd[v][k] = fd[u][j] => v = u /\ k = j
        BY <1>2, <2>1, <3>1 DEF OwnersOK
      <3>4. fd[u][j] \notin Range(fd[t])
        BY <1>1, <1>4, <3>1, <3>3
      <3>5. files'[fd[u][j]] = files[fd[u][j]]
        BY <1>5, <3>2, <3>4
      <3> QED BY <1>3, <1>5, <3>1, <3>2, <3>3, <3>5
    <2>2. ASSUME NEW y \in DOMAIN files' PROVE files'[y] \in {Unused, Orphan} \/ Held(y)'
      <3>1. CASE y \in Range(fd[t])
        BY <1>5, <3>1
      <3>2. CASE y \notin Range(fd[t])
        <4>1. files'[y] = files[y] /\ y \in DOMAIN files
          BY <1>5, <3>2
        <4>2. Held(y) => Held(y)'
          BY <1>3, <1>4, <3>2 DEF Held
        <4> QED BY <1>2, <4>1, <4>2 DEF OwnersOK
      <3> QED BY <3>1, <3>2
    <2> QED BY <2>1, <2>2 DEF OwnersOK
  <1> QED BY <1>6, <1>7, <1>8, <1>9 DEF FilesInv

\* init_task_fds: each of the three objects is new, if it is one at all.
LEMMA ThreeStreams ==
  ASSUME Types, NEW a, NEW b, NEW c, NEW f1, NEW f2, NEW f3,
         a = NewObject(files), f1 = With(files, a, File("stdin", {})),
         b = NewObject(f1), f2 = With(f1, b, File("stdout", {})),
         c = NewObject(f2), f3 = With(f2, c, File("stderr", {}))
  PROVE  /\ \A o \in {a, b, c} : o # 0 => o \in Objects /\ o \notin DOMAIN files
         /\ (a # 0 => a # b /\ a # c) /\ (b # 0 => b # c)
         /\ DOMAIN f3 = DOMAIN files \cup ({a, b, c} \ {0}) /\ f3 = [x \in DOMAIN f3 |-> f3[x]]
         /\ \A x \in DOMAIN files : f3[x] = files[x]
         /\ \A o \in {a, b, c} : o # 0 =>
              f3[o] \in FileType /\ f3[o].type \notin {"unused", "orphan"} /\ f3[o].node = {}
  <1>1. DOMAIN files \subseteq Objects /\ 0 \notin Objects
    BY Constants DEF Types
  <1>2. a \in {0} \cup Objects /\ (a # 0 => a \notin DOMAIN files)
    BY <1>1, NewObjectIs
  <1>3. /\ DOMAIN f1 = DOMAIN files \cup ({a} \ {0}) /\ (a # 0 => f1[a] = File("stdin", {}))
        /\ \A x \in DOMAIN files : x # a => f1[x] = files[x]
    BY DEF With
  <1>4. DOMAIN f1 \subseteq Objects
    BY <1>1, <1>2, <1>3
  <1>5. b \in {0} \cup Objects /\ (b # 0 => b \notin DOMAIN f1)
    BY <1>4, NewObjectIs
  <1>6. /\ DOMAIN f2 = DOMAIN f1 \cup ({b} \ {0}) /\ (b # 0 => f2[b] = File("stdout", {}))
        /\ \A x \in DOMAIN f1 : x # b => f2[x] = f1[x]
    BY DEF With
  <1>7. DOMAIN f2 \subseteq Objects
    BY <1>4, <1>5, <1>6
  <1>8. c \in {0} \cup Objects /\ (c # 0 => c \notin DOMAIN f2)
    BY <1>7, NewObjectIs
  <1>9. /\ DOMAIN f3 = DOMAIN f2 \cup ({c} \ {0}) /\ (c # 0 => f3[c] = File("stderr", {}))
        /\ \A x \in DOMAIN f2 : x # c => f3[x] = f2[x]
    BY DEF With
  <1>10. f3 = [x \in DOMAIN f3 |-> f3[x]]
    BY DEF With
  <1>11. /\ \A o \in {a, b, c} : o # 0 => o \in Objects /\ o \notin DOMAIN files
         /\ (a # 0 => a # b /\ a # c) /\ (b # 0 => b # c)
         /\ DOMAIN f3 = DOMAIN files \cup ({a, b, c} \ {0})
    BY <1>2, <1>3, <1>5, <1>6, <1>8, <1>9
  <1>12. \A x \in DOMAIN files : f3[x] = files[x]
    <2> SUFFICES ASSUME NEW x \in DOMAIN files PROVE f3[x] = files[x]
      OBVIOUS
    <2>1. x # 0 /\ x # a /\ x # b /\ x # c
      BY <1>1, <1>11
    <2> QED BY <1>3, <1>6, <1>9, <2>1
  <1>13. /\ a # 0 => f3[a] = File("stdin", {})
         /\ b # 0 => f3[b] = File("stdout", {})
         /\ c # 0 => f3[c] = File("stderr", {})
    BY <1>3, <1>6, <1>9, <1>11
  <1>14. \A o \in {a, b, c} : o # 0 =>
           f3[o] \in FileType /\ f3[o].type \notin {"unused", "orphan"} /\ f3[o].node = {}
    BY <1>13, FileIs
  <1> QED BY <1>10, <1>11, <1>12, <1>14

\* A new task has streams of its own and the working directory of the shell.
LEMMA SpawnKeepsInv == ASSUME FilesInv, NEW t \in Tasks, Spawn(t) PROVE FilesInv'
  <1>1. Types /\ TreeOK /\ NodesOK /\ OwnersOK
    BY DEF FilesInv
  <1>2. PICK a : a = NewObject(files)
    OBVIOUS
  <1>3. PICK f1 : f1 = With(files, a, File("stdin", {}))
    OBVIOUS
  <1>4. PICK b : b = NewObject(f1)
    OBVIOUS
  <1>5. PICK f2 : f2 = With(f1, b, File("stdout", {}))
    OBVIOUS
  <1>6. PICK c : c = NewObject(f2)
    OBVIOUS
  <1>7. /\ t \notin Live /\ UNCHANGED <<ent, size>>
        /\ files' = With(f2, c, File("stderr", {}))
        /\ fd' = [u \in Live \cup {t} |-> IF u # t THEN fd[u] ELSE Streams(a, b, c)]
        /\ cwd' = [u \in Live \cup {t} |-> IF u # t THEN cwd[u] ELSE cwd[Shell]]
    BY <1>2, <1>3, <1>4, <1>5, <1>6 DEF Spawn
  <1>8. PICK f3 : f3 = With(f2, c, File("stderr", {}))
    OBVIOUS
  <1>9. /\ \A o \in {a, b, c} : o # 0 => o \in Objects /\ o \notin DOMAIN files
        /\ (a # 0 => a # b /\ a # c) /\ (b # 0 => b # c)
        /\ DOMAIN f3 = DOMAIN files \cup ({a, b, c} \ {0}) /\ f3 = [x \in DOMAIN f3 |-> f3[x]]
        /\ \A x \in DOMAIN files : f3[x] = files[x]
        /\ \A o \in {a, b, c} : o # 0 =>
             f3[o] \in FileType /\ f3[o].type \notin {"unused", "orphan"} /\ f3[o].node = {}
    BY <1>1, <1>2, <1>3, <1>4, <1>5, <1>6, <1>8, ThreeStreams
  <1>10. files' = f3
    BY <1>7, <1>8
  <1>11. PICK g : g = Streams(a, b, c)
    OBVIOUS
  <1>12. /\ g \in [Fds -> {0} \cup Objects] /\ \A i \in Fds : g[i] \in {a, b, c, 0}
         /\ \A i, j \in Fds : g[i] # 0 /\ g[i] = g[j] => i = j
         /\ g[0] = a /\ g[1] = b /\ g[2] = c
    <2>1. \A i \in Fds : g[i] = IF i = 0 THEN a ELSE IF i = 1 THEN b ELSE IF i = 2 THEN c ELSE 0
      BY <1>11 DEF Streams
    <2>2. g = [i \in Fds |-> g[i]]
      BY <1>11 DEF Streams
    <2>3. \A i \in Fds : g[i] \in {a, b, c, 0} /\ g[i] \in {0} \cup Objects
      BY <1>9, <2>1
    <2>4. \A i, j \in Fds : g[i] # 0 /\ g[i] = g[j] => i = j
      BY <1>9, <2>1
    <2> QED BY <2>1, <2>2, <2>3, <2>4, Constants
  <1>13. /\ Live' = Live \cup {t} /\ fd'[t] = g /\ cwd'[t] = cwd[Shell]
         /\ \A u \in Live : u # t /\ fd'[u] = fd[u] /\ cwd'[u] = cwd[u]
         /\ fd' \in [Live' -> [Fds -> {0} \cup Objects]] /\ cwd' \in [Live' -> NodeType]
    <2>1. /\ DOMAIN fd' = Live \cup {t} /\ fd'[t] = g /\ cwd'[t] = cwd[Shell]
          /\ \A u \in Live : u # t /\ fd'[u] = fd[u] /\ cwd'[u] = cwd[u]
      BY <1>7, <1>11
    <2>2. fd' \in [Live \cup {t} -> [Fds -> {0} \cup Objects]]
      BY <1>1, <1>7, <1>11, <1>12 DEF Types
    <2>3. cwd' \in [Live \cup {t} -> NodeType]
      BY <1>1, <1>7 DEF Types
    <2> QED BY <2>1, <2>2, <2>3 DEF Live
  <1>14. Types'
    <2>1. \A x \in DOMAIN f3 : f3[x] \in FileType
      BY <1>1, <1>9 DEF Types
    <2>2. f3 \in [DOMAIN f3 -> FileType]
      BY <1>9, <2>1
    <2>3. DOMAIN f3 \subseteq Objects
      BY <1>1, <1>9 DEF Types
    <2> QED BY <1>1, <1>10, <1>13, <2>2, <2>3 DEF Types
  <1>15. TreeOK' /\ \A y : NodeOK(y)' <=> NodeOK(y)
    BY <1>1, <1>7, TreeStays
  <1>16. NodesOK'
    <2>1. \A o \in DOMAIN f3 : \A n \in f3[o].node : NodeOK(n)
      BY <1>1, <1>9 DEF NodesOK
    <2>2. \A u \in Live' : NodeOK(cwd'[u])
      BY <1>1, <1>13 DEF NodesOK, Types
    <2> QED BY <1>10, <1>15, <2>1, <2>2 DEF NodesOK
  <1>17. OwnersOK'
    <2>1. ASSUME NEW u \in Live', NEW j \in Fds, fd'[u][j] # 0
          PROVE  /\ fd'[u][j] \in DOMAIN f3 /\ f3[fd'[u][j]].type \notin {"unused", "orphan"}
                 /\ \A v \in Live' : \A k \in Fds : fd'[v][k] = fd'[u][j] => v = u /\ k = j
      <3>1. CASE u = t
        <4>1. fd'[u][j] = g[j] /\ g[j] \in {a, b, c} /\ g[j] # 0
          BY <1>12, <1>13, <2>1, <3>1
        <4>2. g[j] \notin DOMAIN files /\ g[j] \in DOMAIN f3
          BY <1>9, <4>1
        <4>3. \A v \in Live : \A k \in Fds : fd[v][k] # g[j]
          BY <1>1, <4>1, <4>2 DEF OwnersOK
        <4> QED BY <1>9, <1>12, <1>13, <3>1, <4>1, <4>2, <4>3
      <3>2. CASE u # t
        <4>1. u \in Live /\ fd'[u][j] = fd[u][j] /\ fd[u][j] \in DOMAIN files
          BY <1>1, <1>13, <2>1, <3>2 DEF OwnersOK
        <4>2. \A k \in Fds : g[k] # fd[u][j]
          BY <1>9, <1>12, <2>1, <4>1
        <4>3. \A v \in Live : \A k \in Fds : fd[v][k] = fd[u][j] => v = u /\ k = j
          BY <1>1, <2>1, <4>1 DEF OwnersOK
        <4>4. files[fd[u][j]].type \notin {"unused", "orphan"}
          BY <1>1, <2>1, <4>1 DEF OwnersOK
        <4> QED BY <1>9, <1>13, <4>1, <4>2, <4>3, <4>4
      <3> QED BY <3>1, <3>2
    <2>2. ASSUME NEW y \in DOMAIN f3 PROVE f3[y] \in {Unused, Orphan} \/ Held(y)'
      <3>1. CASE y \in DOMAIN files
        <4>1. Held(y) => Held(y)'
          BY <1>13 DEF Held
        <4> QED BY <1>1, <1>9, <3>1, <4>1 DEF OwnersOK
      <3>2. CASE y \notin DOMAIN files
        <4>1. y \in {a, b, c}
          BY <1>9, <3>2
        <4>2. \E i \in Fds : g[i] = y
          BY <1>12, <4>1, Constants
        <4> QED BY <1>13, <4>2 DEF Held
      <3> QED BY <3>1, <3>2
    <2> QED BY <1>10, <2>1, <2>2 DEF OwnersOK
  <1> QED BY <1>14, <1>15, <1>16, <1>17 DEF FilesInv

\* A directory entry name for inode i appears in directory d; all entries there were stay.
Grows(d, i, name, isdir) ==
  /\ d \in Inodes /\ d \in DOMAIN size /\ IsDir(d) /\ Plain(d)
  /\ name \in EntryNames /\ name \notin DOMAIN ent[d]
  /\ i \in Inodes /\ i \notin DOMAIN size
  /\ \A k \in Inodes : k < i => k \in DOMAIN size
  /\ DOMAIN size' = DOMAIN size \cup {i} /\ size' \in [DOMAIN size' -> Nat]
  /\ ent' = [x \in Inodes |-> ent'[x]]
  /\ ent'[i] = IF isdir THEN Table(i, d) ELSE <<>>
  /\ DOMAIN ent'[d] = DOMAIN ent[d] \cup {name} /\ ent'[d][name] = i
  /\ \A x \in Inodes : x # d /\ x # i => ent'[x] = ent[x]
  /\ \A x \in Inodes : IsDir(x) => \A n \in DOMAIN ent[x] : n \in DOMAIN ent'[x] /\ ent'[x][n] = ent[x][n]
  /\ \A x \in DOMAIN size : IsDir(x)' <=> IsDir(x)

\* Inode i is taken, and a full directory does not get the entry.
Loses(i) ==
  /\ i \in Inodes /\ i \notin DOMAIN size /\ \A k \in Inodes : k < i => k \in DOMAIN size
  /\ DOMAIN size' = DOMAIN size \cup {i} /\ size' \in [DOMAIN size' -> Nat]
  /\ ent' = ent

\* vfs_create and vfs_mkdir take the first free inode.
LEMMA CreateGrows ==
  ASSUME FilesInv, NEW name \in Names, NEW isdir \in BOOLEAN, Create(name, isdir)
  PROVE  (\E i : Loses(i)) \/ \E d, i : Grows(d, i, name, isdir)
  <1>1. Types /\ TreeOK /\ NodesOK /\ OwnersOK
    BY DEF FilesInv
  <1>2. PICK d : d = cwd[Shell].ino
    OBVIOUS
  <1>3. PICK i : i = Min(Inodes \ DOMAIN size)
    OBVIOUS
  <1>4. /\ Lookup(cwd[Shell], name) = {} /\ DOMAIN size # Inodes /\ NameLen[name] <= NameMax
        /\ ent' = [ent EXCEPT ![d] = IF ~HasRoom(d) THEN @
                                     ELSE [n \in DOMAIN @ \cup {name} |-> IF n = name THEN i ELSE @[n]],
                              ![i] = IF isdir /\ HasRoom(d) THEN Table(i, d) ELSE <<>>]
        /\ size' = [j \in DOMAIN size \cup {i} |-> IF j = i THEN 0 ELSE size[j]]
    BY <1>2, <1>3 DEF Create
  <1>5. i \in Inodes /\ i \notin DOMAIN size /\ \A k \in Inodes : k < i => k \in DOMAIN size
    <2>1. PICK S : S = Inodes \ DOMAIN size
      OBVIOUS
    <2>2. S \in SUBSET Nat /\ S # {}
      BY <1>1, <1>4, <2>1, Constants DEF TreeOK
    <2>3. i \in S /\ \A y \in S : i <= y
      BY <1>3, <2>1, <2>2, MinIs
    <2>4. \A k \in Inodes : k < i => ~(i <= k)
      BY <2>2, <2>3, Constants
    <2> QED BY <2>1, <2>3, <2>4
  <1>6. d \in Inodes /\ d \in DOMAIN size /\ IsDir(d) /\ Plain(d) /\ cwd[Shell].dir
    BY <1>1, <1>2 DEF Types, NodeType, NodesOK, NodeOK
  <1>7. name \notin DOMAIN ent[d]
    <2>1. name # "."
      BY NamesAre
    <2> QED BY <1>2, <1>4, <1>6, <2>1 DEF Lookup
  <1>16. name \in EntryNames
    BY <1>4 DEF EntryNames
  <1>17. ent[i] = <<>> /\ DOMAIN ent = Inodes /\ d # i /\ ent = [x \in Inodes |-> ent[x]]
    BY <1>1, <1>5, <1>6 DEF TreeOK, IsDir
  <1>8. PICK new : new = [n \in DOMAIN ent[d] \cup {name} |-> IF n = name THEN i ELSE ent[d][n]]
    OBVIOUS
  <1>9. /\ DOMAIN new = DOMAIN ent[d] \cup {name} /\ new[name] = i
        /\ \A n \in DOMAIN ent[d] : n # name /\ new[n] = ent[d][n]
    BY <1>7, <1>8
  <1>11. /\ DOMAIN size' = DOMAIN size \cup {i} /\ size' \in [DOMAIN size' -> Nat]
    BY <1>1, <1>4 DEF TreeOK
  <1>12. \A x \in Inodes : IsDir(x) => x \in DOMAIN size
    BY <1>1 DEF TreeOK
  <1>18. CASE ~HasRoom(d)
    <2>1. PICK e : e = <<>>
      OBVIOUS
    <2>2. ent' = [ent EXCEPT ![d] = @, ![i] = e]
      BY <1>4, <1>18, <2>1
    <2>3. ent' = [x \in Inodes |-> IF x = i THEN e ELSE ent[x]]
      BY <1>5, <1>6, <1>17, <2>2
    <2>4. \A x \in Inodes : (IF x = i THEN e ELSE ent[x]) = ent[x]
      BY <1>17, <2>1
    <2>5. ent' = ent
      BY <1>17, <2>3, <2>4
    <2> QED BY <1>5, <1>11, <2>5 DEF Loses
  <1>19. CASE HasRoom(d)
    <2>10. /\ ent' = [x \in Inodes |-> ent'[x]] /\ ent'[d] = new
           /\ ent'[i] = IF isdir THEN Table(i, d) ELSE <<>>
           /\ \A x \in Inodes : x # d /\ x # i => ent'[x] = ent[x]
      <3>1. PICK e : e = IF isdir THEN Table(i, d) ELSE <<>>
        OBVIOUS
      <3>2. ent' = [ent EXCEPT ![d] = new, ![i] = e]
        BY <1>4, <1>6, <1>8, <1>17, <1>19, <3>1
      <3> QED BY <1>5, <1>6, <1>17, <3>1, <3>2
    <2>13. \A x \in DOMAIN size : IsDir(x)' <=> IsDir(x)
      <3> SUFFICES ASSUME NEW x \in DOMAIN size PROVE IsDir(x)' <=> IsDir(x)
        OBVIOUS
      <3>1. x \in Inodes /\ x # i
        BY <1>1, <1>5 DEF TreeOK
      <3>2. CASE x = d
        BY <1>6, <1>9, <2>10, <3>2, NoEntries DEF IsDir
      <3>3. CASE x # d
        BY <2>10, <3>1, <3>3 DEF IsDir
      <3> QED BY <3>2, <3>3
    <2>14. ASSUME NEW x \in Inodes, IsDir(x), NEW n \in DOMAIN ent[x]
           PROVE  n \in DOMAIN ent'[x] /\ ent'[x][n] = ent[x][n]
      <3>1. x # i
        BY <1>5, <1>12, <2>14
      <3>2. CASE x = d
        BY <1>9, <2>10, <2>14, <3>2
      <3>3. CASE x # d
        BY <2>10, <2>14, <3>1, <3>3
      <3> QED BY <3>2, <3>3
    <2> QED BY <1>5, <1>6, <1>7, <1>9, <1>11, <1>16, <2>10, <2>13, <2>14 DEF Grows
  <1> QED BY <1>18, <1>19

\* A new entry for a new inode gives no inode a second name.
LEMMA GrowsOneWay ==
  ASSUME TreeOK, NEW d, NEW i, NEW name, NEW isdir \in BOOLEAN, name \in Names, Grows(d, i, name, isdir)
  PROVE  OneWay' /\ \A k \in DOMAIN size : Plain(k) => Plain(k)'
  <1>1. /\ d \in Inodes /\ d \in DOMAIN size /\ IsDir(d) /\ Plain(d) /\ name \notin DOMAIN ent[d]
        /\ i \in Inodes /\ i \notin DOMAIN size
        /\ ent'[i] \in {Table(i, d), <<>>}
        /\ DOMAIN ent'[d] = DOMAIN ent[d] \cup {name} /\ ent'[d][name] = i
        /\ \A x \in Inodes : x # d /\ x # i => ent'[x] = ent[x]
        /\ \A n \in DOMAIN ent[d] : n \in DOMAIN ent'[d] /\ ent'[d][n] = ent[d][n]
    BY DEF Grows
  <1>2. OneWay /\ 0 \in DOMAIN size /\ DOMAIN size \subseteq Inodes
    BY DEF TreeOK
  <1>3. d # i /\ i # 0
    BY <1>1, <1>2
  <1>4. \A x \in Inodes : \A n \in Proper(x) : ent[x][n] \in DOMAIN size
    BY NoEntries DEF Proper, TreeOK, IsDir
  <1>5. Proper(i)' = {} /\ (".." \in DOMAIN ent'[i] => ent'[i][".."] = d)
    <2>1. DOMAIN Table(i, d) = {".", ".."} /\ Table(i, d)[".."] = d
      BY DEF Table
    <2>2. CASE ent'[i] = Table(i, d)
      BY <1>1, <2>1, <2>2, NamesAre DEF Proper
    <2>3. CASE ent'[i] = <<>>
      BY <1>1, <2>3, NoEntries DEF Proper
    <2> QED BY <1>1, <2>2, <2>3
  <1>6. Proper(d)' = Proper(d) \cup {name} /\ name \notin Proper(d)
    BY <1>1 DEF Proper
  <1>7. \A x \in Inodes : x # d /\ x # i => Proper(x)' = Proper(x)
    BY <1>1 DEF Proper
  \* Every entry is the new one or was there before.
  <1>8. ASSUME NEW x \in Inodes, NEW n \in Proper(x)'
        PROVE  \/ x = d /\ n = name /\ ent'[x][n] = i
               \/ n \in Proper(x) /\ ent'[x][n] = ent[x][n] /\ ent[x][n] \in DOMAIN size
    <2>1. CASE x = d
      BY <1>1, <1>4, <1>6, <2>1 DEF Proper
    <2>2. CASE x # d
      BY <1>1, <1>4, <1>5, <1>7, <2>2
    <2> QED BY <2>1, <2>2
  <1>9. ASSUME NEW x \in Inodes, NEW y \in Inodes, NEW n \in Proper(x)', NEW m \in Proper(y)',
               ent'[x][n] = ent'[y][m]
        PROVE  n = m
    BY <1>1, <1>2, <1>8, <1>9 DEF OneWay
  <1>10. ASSUME NEW x \in Inodes, NEW n \in Proper(x)'
         PROVE  ent'[x][n] # 0 /\ (n \notin Words => DOMAIN ent'[ent'[x][n]] \cap Names = {})
    <2>1. CASE x = d /\ n = name /\ ent'[x][n] = i
      BY <1>3, <1>5, <2>1 DEF Proper
    <2>2. CASE n \in Proper(x) /\ ent'[x][n] = ent[x][n] /\ ent[x][n] \in DOMAIN size
      <3>1. PICK k \in Inodes : k = ent[x][n] /\ k # i
        BY <1>1, <1>2, <2>2
      <3>2. k # 0 /\ (n \notin Words => Proper(k) = {} /\ k # d)
        BY <1>1, <1>2, <2>2, <3>1 DEF OneWay, Plain
      <3>3. n \notin Words => Proper(k)' = {}
        BY <1>7, <3>1, <3>2
      <3>4. ent'[x][n] = k
        BY <2>2, <3>1
      <3> QED BY <3>2, <3>3, <3>4 DEF Proper
    <2> QED BY <1>8, <2>1, <2>2
  <1>11. ASSUME NEW x \in Inodes, ".." \in DOMAIN ent'[x]
         PROVE  ent'[x][".."] = 0 \/ DOMAIN ent'[ent'[x][".."]] \cap Names # {}
    <2>1. CASE x = i
      BY <1>5, <1>6, <1>11, <2>1 DEF Proper
    <2>2. CASE x # i
      <3>1. ".." \in DOMAIN ent[x] /\ ent'[x][".."] = ent[x][".."]
        BY <1>1, <1>11, <2>2, NamesAre
      <3>2. PICK u : u = ent[x][".."]
        OBVIOUS
      <3>3. u = 0 \/ Proper(u) # {}
        BY <1>2, <3>1, <3>2 DEF OneWay
      <3>4. u \in DOMAIN size /\ u # i /\ u \in Inodes
        BY <1>1, <1>2, <3>1, <3>2, NoEntries DEF TreeOK, IsDir
      <3>5. u = 0 \/ Proper(u)' # {}
        BY <1>6, <1>7, <3>3, <3>4
      <3> QED BY <3>1, <3>2, <3>5 DEF Proper
    <2> QED BY <2>1, <2>2
  <1>12. OneWay'
    BY <1>9, <1>10, <1>11 DEF OneWay, Proper
  <1>13. ASSUME NEW k \in DOMAIN size, Plain(k) PROVE Plain(k)'
    BY <1>1, <1>8, <1>13 DEF Plain
  <1> QED BY <1>12, <1>13

\* A lost inode changes no entry.
LEMMA LosesKeepsInv ==
  ASSUME FilesInv, NEW i, Loses(i), UNCHANGED <<files, fd, cwd>>
  PROVE  FilesInv'
  <1>1. Types /\ TreeOK /\ NodesOK /\ OwnersOK
    BY DEF FilesInv
  <1>2. i \in Inodes /\ DOMAIN size' = DOMAIN size \cup {i} /\ size' \in [DOMAIN size' -> Nat] /\ ent' = ent
    BY DEF Loses
  <1>3. TreeOK'
    BY <1>1, <1>2 DEF TreeOK, IsDir, OneWay, Proper
  <1>4. \A n : NodeOK(n) => NodeOK(n)'
    BY <1>2 DEF NodeOK, IsDir, Plain, Proper
  <1>5. Live' = Live /\ Types' /\ OwnersOK'
    BY <1>1 DEF Types, OwnersOK, Held, Live
  <1>6. NodesOK'
    BY <1>1, <1>4, <1>5 DEF NodesOK
  <1> QED BY <1>3, <1>5, <1>6 DEF FilesInv

\* A new file or directory: the entries there were stay, so the copies of them stay true.
LEMMA CreateKeepsInv ==
  ASSUME FilesInv, NEW name \in Names, NEW isdir \in BOOLEAN, Create(name, isdir) PROVE FilesInv'
  <1>1. Types /\ TreeOK /\ NodesOK /\ OwnersOK
    BY DEF FilesInv
  <1>4. UNCHANGED <<files, fd, cwd>>
    BY DEF Create
  <1>3. CASE \E i : Loses(i)
    BY <1>3, <1>4, LosesKeepsInv
  <1>20. SUFFICES ASSUME \E d, i : Grows(d, i, name, isdir) PROVE FilesInv'
    BY <1>3, CreateGrows
  <1>2. PICK d, i : Grows(d, i, name, isdir)
    BY <1>20
  <1>21. OneWay' /\ \A k \in DOMAIN size : Plain(k) => Plain(k)'
    BY <1>1, <1>2, GrowsOneWay
  <1>22. name \in EntryNames
    BY <1>2 DEF Grows
  <1>5. i \in Inodes /\ i \notin DOMAIN size
    BY <1>2 DEF Grows
  <1>6. d \in Inodes /\ d \in DOMAIN size /\ IsDir(d)
    BY <1>2 DEF Grows
  <1>9. /\ DOMAIN ent'[d] = DOMAIN ent[d] \cup {name} /\ ent'[d][name] = i
        /\ \A n \in DOMAIN ent[d] : n \in DOMAIN ent'[d] /\ ent'[d][n] = ent[d][n]
    BY <1>2 DEF Grows
  <1>10. /\ ent' = [x \in Inodes |-> ent'[x]]
         /\ ent'[i] = IF isdir THEN Table(i, d) ELSE <<>>
         /\ \A x \in Inodes : x # d /\ x # i => ent'[x] = ent[x]
    BY <1>2 DEF Grows
  <1>11. /\ DOMAIN size' = DOMAIN size \cup {i} /\ size' \in [DOMAIN size' -> Nat]
    BY <1>2 DEF Grows
  <1>12. DOMAIN Table(i, d) = {".", ".."} /\ Table(i, d)["."] = i /\ Table(i, d)[".."] = d
    BY DEF Table
  <1>13. \A x \in Inodes : IsDir(x) => x \in DOMAIN size
    BY <1>1 DEF TreeOK
  <1>14. \A x \in DOMAIN size : IsDir(x)' <=> IsDir(x)
    BY <1>2 DEF Grows
  <1>15. ASSUME NEW x \in Inodes, IsDir(x), NEW n \in DOMAIN ent[x]
         PROVE  n \in DOMAIN ent'[x] /\ ent'[x][n] = ent[x][n]
    BY <1>2, <1>15 DEF Grows
  <1>16. TreeOK'
    <2>1. ASSUME NEW x \in Inodes, IsDir(x)', NEW n \in DOMAIN ent'[x]
          PROVE  x \in DOMAIN size' /\ n \in EntryNames /\ ent'[x][n] \in DOMAIN size'
      <3>1. CASE x = i
        <4>1. ent'[x] = Table(i, d)
          BY <1>10, <2>1, <3>1 DEF IsDir
        <4> QED BY <1>6, <1>11, <1>12, <2>1, <3>1, <4>1 DEF EntryNames
      <3>2. CASE x = d
        <4>1. \A m \in DOMAIN ent[d] : m \in EntryNames /\ ent[d][m] \in DOMAIN size
          BY <1>1, <1>6 DEF TreeOK
        <4> QED BY <1>6, <1>9, <1>10, <1>11, <1>22, <2>1, <3>2, <4>1
      <3>3. CASE x # i /\ x # d
        <4>1. ent'[x] = ent[x] /\ IsDir(x)
          BY <1>10, <2>1, <3>3 DEF IsDir
        <4> QED BY <1>1, <1>11, <2>1, <4>1 DEF TreeOK
      <3> QED BY <3>1, <3>2, <3>3
    <2>2. 0 \in DOMAIN size /\ IsDir(0)' /\ DOMAIN size' \subseteq Inodes
      BY <1>1, <1>5, <1>11, <1>14 DEF TreeOK
    <2>3. \A x \in Inodes : IsDir(x)' =>
            /\ x \in DOMAIN size' /\ "." \in DOMAIN ent'[x]
            /\ \A n \in DOMAIN ent'[x] : n \in EntryNames /\ ent'[x][n] \in DOMAIN size'
      <3> SUFFICES ASSUME NEW x \in Inodes, IsDir(x)'
                   PROVE  /\ x \in DOMAIN size' /\ "." \in DOMAIN ent'[x]
                          /\ \A n \in DOMAIN ent'[x] : n \in EntryNames /\ ent'[x][n] \in DOMAIN size'
        OBVIOUS
      <3>1. x \in DOMAIN size'
        <4>1. CASE x = i \/ x = d
          BY <1>6, <1>11, <4>1
        <4>2. CASE x # i /\ x # d
          BY <1>10, <1>11, <1>13, <4>2 DEF IsDir
        <4> QED BY <4>1, <4>2
      <3>2. "." \in DOMAIN ent'[x]
        <4>1. CASE x = i
          BY <1>10, <1>12, <4>1 DEF IsDir
        <4>2. CASE x # i
          <5>1. x \in DOMAIN size
            BY <1>11, <3>1, <4>2
          <5>2. IsDir(x)
            BY <1>14, <5>1
          <5>3. "." \in DOMAIN ent[x]
            BY <1>1, <5>2 DEF TreeOK
          <5> QED BY <1>15, <5>2, <5>3
        <4> QED BY <4>1, <4>2
      <3> QED BY <2>1, <3>1, <3>2
    <2> QED BY <1>10, <1>11, <1>21, <2>2, <2>3 DEF TreeOK
  <1>17. ASSUME NEW n \in NodeType, NodeOK(n) PROVE NodeOK(n)'
    <2>1. n.ino \in DOMAIN size /\ n.ino \in DOMAIN size' /\ n.dir = IsDir(n.ino)
      BY <1>11, <1>17 DEF NodeOK
    <2>2. IsDir(n.ino)' = IsDir(n.ino)
      BY <1>14, <2>1 DEF IsDir
    <2>3. ASSUME n # Root PROVE n.name \in DOMAIN ent'[n.parent] /\ ent'[n.parent][n.name] = n.ino
      <3>1. n.name \in DOMAIN ent[n.parent] /\ ent[n.parent][n.name] = n.ino /\ n.parent \in Inodes
        BY <1>17, <2>3 DEF NodeOK, NodeType
      <3>2. IsDir(n.parent)
        BY <3>1, NoEntries DEF IsDir
      <3> QED BY <1>15, <3>1, <3>2
    <2>4. Plain(n.ino)'
      BY <1>17, <1>21, <2>1 DEF NodeOK
    <2> QED BY <2>1, <2>2, <2>3, <2>4 DEF NodeOK, Root
  <1>18. Live' = Live /\ Types' /\ OwnersOK'
    BY <1>1, <1>4 DEF Types, OwnersOK, Held, Live
  <1>19. NodesOK'
    BY <1>1, <1>4, <1>17, <1>18 DEF NodesOK, Types, FileType
  <1> QED BY <1>16, <1>18, <1>19 DEF FilesInv

-----------------------------------------------------------------------------
(* The theorems *)

\* Every step keeps the invariant.
LEMMA FilesNext == ASSUME FilesInv, [Next]_vars PROVE FilesInv'
  <1>1. Sizes \subseteq Nat /\ Clients \subseteq Tasks /\ OpenPaths \subseteq Paths
    BY FilesAssumption
  <1>2. ASSUME UNCHANGED <<ent, size, files, fd, cwd>> PROVE FilesInv'
    <2>1. Live' = Live
      BY <1>2 DEF Live
    <2>2. TreeOK' /\ \A n : NodeOK(n)' <=> NodeOK(n)
      BY <1>2, TreeStays DEF FilesInv
    <2>3. Types' /\ OwnersOK'
      BY <1>2, <2>1 DEF FilesInv, Types, OwnersOK, Held
    <2>4. NodesOK'
      BY <1>2, <2>1, <2>2 DEF FilesInv, NodesOK
    <2> QED BY <2>2, <2>3, <2>4 DEF FilesInv
  <1>3. ASSUME NEW t \in Tasks, Spawn(t) \/ Kill(t) \/ \E p \in Paths : Chdir(t, p) PROVE FilesInv'
    BY <1>3, SpawnKeepsInv, KillKeepsInv, ChdirKeepsInv
  <1>4. ASSUME NEW t \in Clients, NEW p \in OpenPaths, Open(t, p) PROVE FilesInv'
    BY <1>1, <1>4, OpenKeepsInv
  <1>5. ASSUME NEW t \in Clients, NEW i \in Fds, Close(t, i) PROVE FilesInv'
    BY <1>1, <1>5, CloseKeepsInv
  <1>6. ASSUME NEW t \in Clients, NEW i \in Fds, NEW n \in Sizes, Read(t, i, n) \/ Write(t, i, n) PROVE FilesInv'
    BY <1>1, <1>6, ReadKeepsInv, WriteKeepsInv
  <1>7. ASSUME NEW name \in Names, NEW isdir \in BOOLEAN, Create(name, isdir) PROVE FilesInv'
    BY <1>7, CreateKeepsInv
  <1>8. ASSUME NEW t \in Tasks, NEW p \in Paths, PathOverrun(t, p) PROVE FilesInv'
    BY <1>2, <1>8 DEF PathOverrun
  <1>9. CASE UNCHANGED vars
    BY <1>2, <1>9 DEF vars
  <1> QED BY <1>3, <1>4, <1>5, <1>6, <1>7, <1>8, <1>9 DEF Next

\* The inductive invariant holds.
THEOREM FilesSafe == Spec => []FilesInv
  <1>1. Init => FilesInv
    BY FilesInit
  <1>2. FilesInv /\ [Next]_vars => FilesInv'
    BY FilesNext
  <1> QED BY <1>1, <1>2, PTL DEF Spec

\* No descriptor points at a File that SYS_CLOSE has freed or marked, and no two descriptors,
\* of one task or of two, share one, through any order of opens, closes and kills, with
\* kmalloc at its limit too.
THEOREM DescriptorsAlwaysOwn == Spec => []DescriptorsOwnFiles
  <1>1. FilesInv => DescriptorsOwnFiles
    <2> SUFFICES ASSUME FilesInv PROVE DescriptorsOwnFiles
      OBVIOUS
    <2>1. Types /\ OwnersOK
      BY DEF FilesInv
    <2>2. TypeOK
      BY <2>1 DEF Types, TypeOK, FileType
    <2> DEFINE uses == {u \in Live \X Fds : fd[u[1]][u[2]] # 0}
    <2>3. \A u \in uses : /\ fd[u[1]][u[2]] \in DOMAIN files
                          /\ files[fd[u[1]][u[2]]].type # "unused"
      BY <2>1 DEF OwnersOK
    <2>4. \A u, v \in uses : fd[u[1]][u[2]] = fd[v[1]][v[2]] => u = v
      <3> SUFFICES ASSUME NEW u \in uses, NEW v \in uses, fd[u[1]][u[2]] = fd[v[1]][v[2]] PROVE u = v
        OBVIOUS
      <3>1. u[1] \in Live /\ u[2] \in Fds /\ v[1] \in Live /\ v[2] \in Fds /\ fd[u[1]][u[2]] # 0
        OBVIOUS
      <3>2. u[1] = v[1] /\ u[2] = v[2]
        BY <2>1, <3>1 DEF OwnersOK
      <3>3. u = <<u[1], u[2]>> /\ v = <<v[1], v[2]>>
        OBVIOUS
      <3> QED BY <3>2, <3>3
    <2> QED BY <2>2, <2>3, <2>4 DEF DescriptorsOwnFiles
  <1> QED BY <1>1, FilesSafe, PTL

\* A File that no descriptor leads to was closed (vfs_file_close only marks it, against what
\* syscall.cpp:105 says; CloseFrees fails) or belonged to a killed task: these two are all
\* the leaks there are, and SYS_OPEN leaks none, whatever it fails for.
THEOREM NothingElseLeaks == Spec => []OnlyClosedOrKilledLeak
  <1>1. FilesInv => OnlyClosedOrKilledLeak
    <2> SUFFICES ASSUME FilesInv, NEW o \in DOMAIN files, Held(o)
                 PROVE  \E t \in Live : o \in Range(fd[t])
      BY DEF FilesInv, OwnersOK, OnlyClosedOrKilledLeak
    <2>1. PICK t \in Live : \E i \in Fds : fd[t][i] = o
      BY DEF Held
    <2>2. fd[t] \in [Fds -> {0} \cup Objects]
      BY DEF FilesInv, Types
    <2>3. o \in Range(fd[t])
      BY <2>1, <2>2 DEF Range
    <2> QED BY <2>3
  <1> QED BY <1>1, FilesSafe, PTL

\* The vfs_nodes that tasks keep as cwd and in Files stay true copies of directory entries,
\* for any paths that vfs_resolve_path has made them from and while the tree grows.
THEOREM NodesAlwaysCurrent == Spec => []NodesCurrent
  <1>1. FilesInv => NodesCurrent
    <2> SUFFICES ASSUME FilesInv,
                        NEW n \in UNION ({files[o].node : o \in DOMAIN files} \cup {{cwd[t]} : t \in Live})
                 PROVE  NodeOK(n)
      BY DEF NodesCurrent, NodeOK
    <2>1. CASE \E o \in DOMAIN files : n \in files[o].node
      BY <2>1 DEF FilesInv, NodesOK
    <2>2. CASE \E t \in Live : n = cwd[t]
      BY <2>2 DEF FilesInv, NodesOK
    <2> QED BY <2>1, <2>2
  <1> QED BY <1>1, FilesSafe, PTL

-----------------------------------------------------------------------------
(* The way up *)

\* The way up does not change while the tables of the directories do not.
LEMMA UpStays == ASSUME TreeUp, ent' = ent, DOMAIN size' = DOMAIN size PROVE TreeUp'
  BY DEF TreeUp, IsDir

\* A new directory is below its parent.
LEMMA CreateKeepsUp ==
  ASSUME FilesInv, TreeUp, NEW name \in Names, NEW isdir \in BOOLEAN, Create(name, isdir) PROVE TreeUp'
  <1>1. TreeOK
    BY DEF FilesInv
  <1>10. CASE \E i : Loses(i)
    <2>1. PICK i : Loses(i)
      BY <1>10
    <2>2. /\ i \in Inodes /\ \A k \in Inodes : k < i => k \in DOMAIN size
          /\ DOMAIN size' = DOMAIN size \cup {i} /\ ent' = ent
      BY <2>1 DEF Loses
    <2> QED BY <2>2 DEF TreeUp, IsDir
  <1>11. SUFFICES ASSUME \E d, i : Grows(d, i, name, isdir) PROVE TreeUp'
    BY <1>10, CreateGrows
  <1>2. PICK d, i : Grows(d, i, name, isdir)
    BY <1>11
  <1>3. /\ d \in Inodes /\ d \in DOMAIN size /\ IsDir(d) /\ i \in Inodes /\ i \notin DOMAIN size
        /\ \A k \in Inodes : k < i => k \in DOMAIN size
        /\ DOMAIN size' = DOMAIN size \cup {i}
        /\ ent'[i] = IF isdir THEN Table(i, d) ELSE <<>>
        /\ DOMAIN ent'[d] = DOMAIN ent[d] \cup {name} /\ ent'[d][name] = i
        /\ \A x \in Inodes : x # d /\ x # i => ent'[x] = ent[x]
    BY <1>2 DEF Grows
  <1>4. \A x \in Inodes : IsDir(x) => \A n \in DOMAIN ent[x] : n \in DOMAIN ent'[x] /\ ent'[x][n] = ent[x][n]
    BY <1>2 DEF Grows
  <1>5. \A x \in DOMAIN size : IsDir(x)' <=> IsDir(x)
    BY <1>2 DEF Grows
  <1>6. \A j \in DOMAIN size' : \A k \in Inodes : k < j => k \in DOMAIN size'
    BY <1>3 DEF TreeUp
  <1>7. ent'[0][".."] = 0
    <2>1. 0 \in Inodes /\ IsDir(0) /\ ".." \in DOMAIN ent[0] /\ ent[0][".."] = 0
      BY <1>1, Constants DEF TreeOK, TreeUp
    <2> QED BY <1>4, <2>1
  <1>8. d < i
    <2>1. d \in Nat /\ i \in Nat /\ (i < d => i \in DOMAIN size) /\ d # i
      BY <1>3, Constants DEF TreeUp
    <2> QED BY <1>3, <2>1
  <1>9. ASSUME NEW x \in Inodes, IsDir(x)'
        PROVE  /\ {".", ".."} \subseteq DOMAIN ent'[x] /\ ent'[x]["."] = x /\ "/" \notin DOMAIN ent'[x]
               /\ x # 0 => /\ ent'[x][".."] \in Inodes /\ ent'[x][".."] < x
                           /\ \E n \in DOMAIN ent'[ent'[x][".."]] : ent'[ent'[x][".."]][n] = x
    <2>1. CASE x = i
      <3>1. ent'[x] = Table(i, d)
        BY <1>3, <1>9, <2>1 DEF IsDir
      <3>2. DOMAIN ent'[x] = {".", ".."} /\ ent'[x]["."] = i /\ ent'[x][".."] = d
        BY <3>1 DEF Table
      <3> QED BY <1>3, <1>8, <2>1, <3>2
    <2>2. CASE x # i
      <3>1. x \in DOMAIN size
        <4>1. CASE x = d
          BY <1>3, <4>1
        <4>2. CASE x # d
          <5>1. IsDir(x)
            BY <1>3, <1>9, <2>2, <4>2 DEF IsDir
          <5> QED BY <1>1, <5>1 DEF TreeOK
        <4> QED BY <4>1, <4>2
      <3>2. IsDir(x)
        BY <1>5, <1>9, <3>1
      <3>3. {".", ".."} \subseteq DOMAIN ent[x] /\ ent[x]["."] = x /\ "/" \notin DOMAIN ent[x]
        BY <3>2 DEF TreeUp
      <3>4. {".", ".."} \subseteq DOMAIN ent'[x] /\ ent'[x]["."] = x /\ ent'[x][".."] = ent[x][".."]
        BY <1>4, <3>2, <3>3
      <3>5. ASSUME x # 0
            PROVE  /\ ent'[x][".."] \in Inodes /\ ent'[x][".."] < x
                   /\ \E n \in DOMAIN ent'[ent'[x][".."]] : ent'[ent'[x][".."]][n] = x
        <4>1. PICK u : u = ent[x][".."]
          OBVIOUS
        <4>2. u \in Inodes /\ u < x /\ \E n \in DOMAIN ent[u] : ent[u][n] = x
          BY <3>2, <3>5, <4>1 DEF TreeUp
        <4>3. PICK n \in DOMAIN ent[u] : ent[u][n] = x
          BY <4>2
        <4>4. IsDir(u)
          BY <4>3, NoEntries DEF IsDir
        <4>5. n \in DOMAIN ent'[u] /\ ent'[u][n] = x
          BY <1>4, <4>2, <4>3, <4>4
        <4> QED BY <3>4, <4>1, <4>2, <4>5
      <3>6. "/" \notin DOMAIN ent'[x]
        BY <1>3, <2>2, <3>3, NamesAre
      <3> QED BY <3>4, <3>5, <3>6
    <2> QED BY <2>1, <2>2
  <1> QED BY <1>6, <1>7, <1>9 DEF TreeUp

\* Every step keeps the way up: only vfs_create and vfs_mkdir change the tables.
LEMMA UpNext == ASSUME FilesInv, TreeUp, [Next]_vars PROVE TreeUp'
  <1>1. CASE UNCHANGED vars
    BY <1>1, UpStays DEF vars
  <1>2. ASSUME NEW t \in Tasks, Spawn(t) \/ Kill(t) \/ \E p \in Paths : Chdir(t, p) PROVE TreeUp'
    BY <1>2, UpStays DEF Spawn, Kill, Chdir
  <1>3. ASSUME NEW t \in Clients, NEW p \in OpenPaths, Open(t, p) PROVE TreeUp'
    BY <1>3, UpStays DEF Open
  <1>4. ASSUME NEW t \in Clients, NEW i \in Fds, Close(t, i) PROVE TreeUp'
    BY <1>4, UpStays DEF Close
  <1>5. ASSUME NEW t \in Clients, NEW i \in Fds, NEW n \in Sizes, Read(t, i, n) PROVE TreeUp'
    BY <1>5, UpStays DEF Read
  <1>6. ASSUME NEW t \in Clients, NEW i \in Fds, NEW n \in Sizes, Write(t, i, n) PROVE TreeUp'
    <2>1. ent' = ent /\ \E x : size' = [size EXCEPT ![x] = n]
      BY <1>6 DEF Write
    <2> QED BY <2>1, UpStays
  <1>7. ASSUME NEW name \in Names, NEW isdir \in BOOLEAN, Create(name, isdir) PROVE TreeUp'
    BY <1>7, CreateKeepsUp
  <1>8. ASSUME NEW t \in Tasks, NEW p \in Paths, PathOverrun(t, p) PROVE TreeUp'
    BY <1>8, UpStays DEF PathOverrun
  <1> QED BY <1>1, <1>2, <1>3, <1>4, <1>5, <1>6, <1>7, <1>8 DEF Next

\* Every directory can be left upwards until the root is reached.
THEOREM AlwaysAWayUp == Spec => []TreeUp
  <1>1. Init => TreeUp
    <2> SUFFICES ASSUME Init PROVE TreeUp
      OBVIOUS
    <2>1. DOMAIN size = {0} /\ \A i \in Inodes : ent[i] = IF i = 0 THEN Table(0, 0) ELSE <<>>
      BY DEF Init
    <2>2. DOMAIN Table(0, 0) = {".", ".."} /\ Table(0, 0)["."] = 0 /\ Table(0, 0)[".."] = 0
      BY DEF Table
    <2>3. \A k \in Inodes : k \in Nat /\ ~(k < 0)
      BY Constants
    <2> QED BY <2>1, <2>2, <2>3, Constants DEF TreeUp, IsDir
  <1>2. FilesInv /\ TreeUp /\ [Next]_vars => TreeUp'
    BY UpNext
  <1> QED BY <1>1, <1>2, FilesSafe, PTL DEF Spec

-----------------------------------------------------------------------------
(* What paths mean *)

\* The steps of Denotes.
IsReading(s, i, p, m) ==
  s = [k \in 0..m |-> IF k = 0 THEN {IF p # <<>> /\ p[1] = "/" THEN 0 ELSE i}
                      ELSE IF p[k] = "/" THEN s[k - 1] ELSE Child(s[k - 1], p[k])]

\* The inodes h of the prefixes of p, read from inode i.
Reads(h, i, p) ==
  /\ h \in [0..Len(p) -> SUBSET Inodes] /\ h[0] = {IF p # <<>> /\ p[1] = "/" THEN 0 ELSE i}
  /\ \A k \in 1..Len(p) : h[k] = IF p[k] = "/" THEN h[k - 1] ELSE Child(h[k - 1], p[k])

\* Components of inodes are inodes.
LEMMA ChildType ==
  ASSUME TreeOK, NEW S \in SUBSET Inodes, NEW x \in AllNames
  PROVE  Child(S, x) \in SUBSET Inodes
  <1>1. ASSUME NEW j \in S, IsDir(j), x \in DOMAIN ent[j]
        PROVE  (IF x = "." THEN j ELSE ent[j][x]) \in Inodes
    BY <1>1 DEF TreeOK
  <1> QED BY <1>1 DEF Child

\* Denotes follows the path component by component.
LEMMA DenotesIs ==
  ASSUME TreeOK, NEW i \in Inodes, NEW p \in Seq(AllNames)
  PROVE  \E h : Reads(h, i, p) /\ Denotes(i, p) = h[Len(p)]
  <1>0. PICK m \in Nat : m = Len(p)
    OBVIOUS
  <1>1. PICK a : a = {IF p # <<>> /\ p[1] = "/" THEN 0 ELSE i}
    OBVIOUS
  <1>2. a \in SUBSET Inodes
    BY <1>1, Constants
  <1>3. PICK F : F = [k \in 1..m |-> [S \in SUBSET Inodes |-> IF p[k] = "/" THEN S ELSE Child(S, p[k])]]
    OBVIOUS
  <1>4. \A k \in 1..m : p[k] \in AllNames
    BY <1>0
  <1>5. \A k \in 1..m : \A S \in SUBSET Inodes :
          F[k][S] = (IF p[k] = "/" THEN S ELSE Child(S, p[k])) /\ F[k][S] \in SUBSET Inodes
    <2> TAKE k \in 1..m
    <2> TAKE S \in SUBSET Inodes
    <2>1. F[k][S] = IF p[k] = "/" THEN S ELSE Child(S, p[k])
      BY <1>3
    <2>2. Child(S, p[k]) \in SUBSET Inodes
      BY <1>4, ChildType
    <2> QED BY <2>1, <2>2
  <1>6. PICK h \in [0..m -> SUBSET Inodes] : h[0] = a /\ \A k \in 1..m : h[k] = F[k][h[k - 1]]
    <2>1. \A k \in 1..m : \A S \in SUBSET Inodes : F[k][S] \in SUBSET Inodes
      BY <1>5
    <2>2. PICK T : T = SUBSET Inodes
      OBVIOUS
    <2>3. a \in T /\ F \in [1..m -> [T -> T]]
      BY <1>2, <1>3, <2>1, <2>2
    <2>4. PICK h : Iterates(h, T, m, a, F)
      BY <2>3, Recursion
    <2> QED BY <2>2, <2>4 DEF Iterates
  <1>7. \A k \in 1..m : h[k] = IF p[k] = "/" THEN h[k - 1] ELSE Child(h[k - 1], p[k])
    <2> TAKE k \in 1..m
    <2>1. k - 1 \in 0..m
      OBVIOUS
    <2>2. h[k - 1] \in SUBSET Inodes
      BY <2>1
    <2> QED BY <1>5, <1>6, <2>2
  <1>8. IsReading(h, i, p, m)
    <2>1. h = [k \in 0..m |-> h[k]]
      OBVIOUS
    <2>2. \A k \in 0..m : h[k] = IF k = 0 THEN a ELSE IF p[k] = "/" THEN h[k - 1] ELSE Child(h[k - 1], p[k])
      <3>1. \A k \in 0..m : k = 0 \/ k \in 1..m
        OBVIOUS
      <3>2. \A k \in 1..m : k # 0
        OBVIOUS
      <3> QED BY <1>6, <1>7, <3>1, <3>2
    <2> QED BY <1>1, <2>1, <2>2 DEF IsReading
  <1>9. PICK g : g = CHOOSE s : IsReading(s, i, p, m)
    OBVIOUS
  <1>10. IsReading(g, i, p, m)
    BY <1>8, <1>9
  <1>11. Denotes(i, p) = g[m]
    BY <1>0, <1>9 DEF Denotes, IsReading
  <1>12. \A k \in 0..m : g[k] = IF k = 0 THEN a ELSE IF p[k] = "/" THEN g[k - 1] ELSE Child(g[k - 1], p[k])
    BY <1>1, <1>10 DEF IsReading
  <1>13. \A k \in 1..m : g[k] = IF p[k] = "/" THEN g[k - 1] ELSE Child(g[k - 1], p[k])
    <2>1. \A k \in 1..m : k \in 0..m /\ k # 0
      OBVIOUS
    <2> QED BY <1>12, <2>1
  <1>14. g[0] = h[0]
    BY <1>6, <1>12
  <1>15. \A k \in 1..m : g[k - 1] = h[k - 1] => g[k] = h[k]
    BY <1>7, <1>13
  <1>16. \A k \in 0..m : g[k] = h[k]
    BY <1>14, <1>15, RecursionOnce
  <1>17. Denotes(i, p) = h[m]
    BY <1>11, <1>16
  <1> QED BY <1>0, <1>1, <1>6, <1>7, <1>17 DEF Reads

\* resolve_step looks a component up in the directories reached so far.
LEMMA StepMeans ==
  ASSUME TreeOK, NEW S \in SUBSET NodeType, \A d \in S : NodeOK(d), NEW x \in AllNames
  PROVE  {n.ino : n \in Step(S, x)} = Child({d.ino : d \in S}, x)
  <1>0. x # NoToken
    BY NamesAre DEF AllNames, NoToken
  <1>1. Step(S, x) = UNION {Lookup(d, x) : d \in S}
    BY <1>0 DEF Step
  <1>2. \A d \in S : d.ino \in Inodes /\ d.dir = IsDir(d.ino)
    BY DEF NodeType, NodeOK
  <1>3. CASE x = "."
    <2>1. \A d \in S : Lookup(d, x) = IF d.dir THEN {d} ELSE {}
      BY <1>3 DEF Lookup
    <2>2. \A d \in S : IsDir(d.ino) => x \in DOMAIN ent[d.ino]
      BY <1>2, <1>3 DEF TreeOK
    <2>3. \A n : n \in Step(S, x) <=> n \in S /\ n.dir
      BY <1>1, <2>1
    <2>4. \A j : j \in Child({d.ino : d \in S}, x) <=> \E d \in S : d.dir /\ j = d.ino
      BY <1>2, <1>3, <2>2 DEF Child
    <2> QED BY <2>3, <2>4
  <1>4. CASE x # "."
    <2>1. \A d \in S : \A j : j \in {n.ino : n \in Lookup(d, x)} <=>
                                d.dir /\ x \in DOMAIN ent[d.ino] /\ j = ent[d.ino][x]
      <3> TAKE d \in S
      <3>1. CASE ~d.dir
        BY <3>1 DEF Lookup
      <3>2. CASE d.dir
        <4>1. Lookup(d, x) = {[name |-> n, ino |-> ent[d.ino][n], parent |-> d.ino, dir |-> IsDir(ent[d.ino][n])] :
                                n \in {x} \cap DOMAIN ent[d.ino]}
          BY <1>4, <3>2 DEF Lookup
        <4>2. CASE x \in DOMAIN ent[d.ino]
          <5>1. PICK r : r = [name |-> x, ino |-> ent[d.ino][x], parent |-> d.ino, dir |-> IsDir(ent[d.ino][x])]
            OBVIOUS
          <5>2. Lookup(d, x) = {r} /\ r.ino = ent[d.ino][x]
            BY <4>1, <4>2, <5>1
          <5> QED BY <3>2, <4>2, <5>2
        <4>3. CASE x \notin DOMAIN ent[d.ino]
          <5>1. Lookup(d, x) = {}
            BY <4>1, <4>3
          <5> QED BY <4>3, <5>1
        <4> QED BY <4>2, <4>3
      <3> QED BY <3>1, <3>2
    <2>2. \A j : j \in {n.ino : n \in Step(S, x)} <=> \E d \in S : j \in {n.ino : n \in Lookup(d, x)}
      BY <1>1
    <2>3. \A j : j \in Child({d.ino : d \in S}, x) <=>
                   \E d \in S : d.dir /\ x \in DOMAIN ent[d.ino] /\ j = ent[d.ino][x]
      BY <1>2, <1>4 DEF Child
    <2>4. \A j : j \in {n.ino : n \in Step(S, x)} <=> j \in Child({d.ino : d \in S}, x)
      <3> TAKE j
      <3>1. j \in {n.ino : n \in Step(S, x)} <=> \E d \in S : d.dir /\ x \in DOMAIN ent[d.ino] /\ j = ent[d.ino][x]
        <4>1. ASSUME j \in {n.ino : n \in Step(S, x)}
              PROVE  \E d \in S : d.dir /\ x \in DOMAIN ent[d.ino] /\ j = ent[d.ino][x]
          <5>1. PICK d \in S : j \in {n.ino : n \in Lookup(d, x)}
            BY <2>2, <4>1
          <5> QED BY <2>1, <5>1
        <4>2. ASSUME NEW d \in S, d.dir, x \in DOMAIN ent[d.ino], j = ent[d.ino][x]
              PROVE  j \in {n.ino : n \in Step(S, x)}
          <5>1. j \in {n.ino : n \in Lookup(d, x)}
            BY <2>1, <4>2
          <5> QED BY <2>2, <5>1
        <4> QED BY <4>1, <4>2
      <3> QED BY <2>3, <3>1
    <2> QED BY <2>4
  <1> QED BY <1>3, <1>4

\* vfs_resolve_path finds what the path means.
LEMMA ResolveMeans ==
  ASSUME TreeOK, NEW c \in NodeType, NodeOK(c), NEW p \in Seq(AllNames),
         \A k \in 1..(Len(p) - 1) : p[k] = "/" \/ p[k + 1] = "/"
  PROVE  {n.ino : n \in Resolve(c, p)} = Denotes(c.ino, p)
  <1>0. PICK m \in Nat : m = Len(p)
    OBVIOUS
  <1>1. PICK s : /\ IsWalk(s, c, p, m) /\ Resolve(c, p) = Step(s[m].cur, s[m].token)
                 /\ \A k \in 0..m : OnTree(s[k])
    BY <1>0, ResolveIs
  <1>2. c.ino \in Inodes /\ Root.ino = 0
    BY DEF NodeType, Root
  <1>3. PICK h : /\ h[0] = {IF p # <<>> /\ p[1] = "/" THEN 0 ELSE c.ino}
                 /\ \A k \in 1..m : h[k] = IF p[k] = "/" THEN h[k - 1] ELSE Child(h[k - 1], p[k])
                 /\ Denotes(c.ino, p) = h[m]
    <2>1. PICK h : Reads(h, c.ino, p) /\ Denotes(c.ino, p) = h[Len(p)]
      BY <1>2, DenotesIs
    <2> QED BY <1>0, <2>1 DEF Reads
  <1> DEFINE Found(k) == {n.ino : n \in Step(s[k].cur, s[k].token)}
             Right(k) == Found(k) = h[k] /\ (s[k].token # NoToken => k \in 1..m /\ p[k] # "/")
             Bad == {k \in 0..m : ~Right(k)}
  <1>4. ASSUME Bad # {} PROVE FALSE
    <2>1. Bad \in SUBSET Nat
      OBVIOUS
    <2>2. PICK k \in Bad : \A y \in Bad : k <= y
      <3> HIDE DEF Bad
      <3> QED BY <1>4, <2>1, Least
    <2>3. k \in 0..m /\ k \in Nat /\ ~Right(k)
      OBVIOUS
    <2>4. s[k] = IF k = 0 THEN Start(c, p) ELSE After(s[k - 1], p[k])
      BY <1>1, <2>3 DEF IsWalk
    <2>5. CASE k = 0
      <3>1. s[k].token = NoToken /\ s[k].cur = IF p # <<>> /\ p[1] = "/" THEN {Root} ELSE {c}
        BY <2>4, <2>5 DEF Start
      <3>2. Step(s[k].cur, s[k].token) = s[k].cur
        BY <3>1 DEF Step
      <3>3. Found(k) = h[k]
        BY <1>2, <1>3, <2>5, <3>1, <3>2
      <3> QED BY <2>3, <3>1, <3>3
    <2>6. CASE k # 0
      <3>1. k - 1 \in 0..m /\ ~(k <= k - 1) /\ k \in 1..m
        BY <2>3, <2>6
      <3>2. Right(k - 1)
        BY <2>2, <3>1
      <3>3. PICK was : was = s[k - 1]
        OBVIOUS
      <3>4. OnTree(was) /\ p[k] \in AllNames
        BY <1>0, <1>1, <3>1, <3>3
      <3>5. CASE p[k] = "/"
        <4>1. s[k].cur = Step(was.cur, was.token) /\ s[k].token = NoToken
          BY <2>4, <2>6, <3>3, <3>5 DEF After
        <4>2. Step(s[k].cur, s[k].token) = Step(was.cur, was.token)
          BY <4>1 DEF Step
        <4>3. Found(k) = h[k - 1]
          BY <3>2, <3>3, <4>2
        <4>4. h[k] = h[k - 1]
          BY <1>3, <3>1, <3>5
        <4> QED BY <2>3, <4>1, <4>3, <4>4
      <3>6. CASE p[k] # "/"
        <4>1. was.token = NoToken
          <5>1. ASSUME was.token # NoToken PROVE FALSE
            <6>1. k - 1 \in 1..m /\ p[k - 1] # "/"
              BY <3>2, <3>3, <5>1
            <6>2. k - 1 \in 1..(Len(p) - 1) /\ (k - 1) + 1 = k
              BY <1>0, <3>1, <6>1
            <6> QED BY <3>6, <6>1, <6>2
          <5> QED BY <5>1
        <4>2. s[k].cur = was.cur /\ s[k].token = p[k]
          BY <2>4, <2>6, <3>3, <3>4, <3>6 DEF After, OnTree
        <4>3. {n.ino : n \in was.cur} = h[k - 1]
          <5>1. Step(was.cur, was.token) = was.cur
            BY <4>1 DEF Step
          <5> QED BY <3>2, <3>3, <5>1
        <4>4. Found(k) = Child(h[k - 1], p[k])
          <5>1. {n.ino : n \in Step(was.cur, p[k])} = Child({n.ino : n \in was.cur}, p[k])
            BY <3>4, StepMeans DEF OnTree
          <5> QED BY <4>2, <4>3, <5>1
        <4>5. h[k] = Child(h[k - 1], p[k])
          BY <1>3, <3>1, <3>6
        <4> QED BY <2>3, <3>1, <3>6, <4>4, <4>5
      <3> QED BY <3>5, <3>6
    <2> QED BY <2>5, <2>6
  <1>5. Right(m)
    <2>1. m \in 0..m
      OBVIOUS
    <2> QED BY <1>4, <2>1
  <1> QED BY <1>1, <1>3, <1>5

\* vfs_resolve_path finds the node that the path means, for every tree that touch and
\* mkdir can make, files and directories with a "/" in their names included, and every
\* path in which it comes to no word that is longer than its token.
THEOREM ResolveAlwaysRight == Spec => []ResolveRight
  <1>1. FilesInv => ResolveRight
    <2> SUFFICES ASSUME FilesInv, NEW t \in Live, NEW p \in Paths, ~Overruns(cwd[t], p)
                 PROVE  {n.ino : n \in Resolve(cwd[t], p)} = Denotes(cwd[t].ino, p)
      BY DEF ResolveRight
    <2>1. TreeOK /\ cwd[t] \in NodeType /\ NodeOK(cwd[t])
      BY DEF FilesInv, Types, NodesOK
    <2>2. p \in Seq(AllNames) /\ \A k \in 1..(Len(p) - 1) : p[k] = "/" \/ p[k + 1] = "/"
      BY FilesAssumption, NamesAre
    <2> QED BY <2>1, <2>2, ResolveMeans
  <1> QED BY <1>1, FilesSafe, PTL
-----------------------------------------------------------------------------
(* The path of a directory *)

\* What vfs_get_path puts into a path.
Spellable == Names \cap Words
PathNames == Spellable \cup {"/"}

\* h are the inodes that the prefixes of s lead to, from inode i to inode r.
Leads(h, s, i, r) ==
  /\ h \in [0..Len(s) -> SUBSET Inodes] /\ h[0] = {i} /\ h[Len(s)] = {r}
  /\ \A k \in 1..Len(s) : h[k] = IF s[k] = "/" THEN h[k - 1] ELSE Child(h[k - 1], s[k])

\* c are the bytes of the prefixes of s, in all len.
Counts(c, s, len) ==
  /\ c \in [0..Len(s) -> Nat] /\ c[0] = 0 /\ c[Len(s)] = len
  /\ \A k \in 1..Len(s) : c[k] = c[k - 1] + (IF s[k] = "/" THEN 1 ELSE NameLen[s[k]])

\* s is a path of len bytes from inode i to inode r.
Spells(s, i, r, len) ==
  s \in Seq(PathNames) /\ (\E h : Leads(h, s, i, r)) /\ (\E c : Counts(c, s, len))

\* Another component before a path.
LEMMA InFront ==
  ASSUME NEW s \in Seq(PathNames), NEW x \in PathNames
  PROVE  LET q == <<"/", x>> \o s
         IN /\ q \in Seq(PathNames) /\ Len(q) = Len(s) + 2 /\ q[1] = "/" /\ q[2] = x
            /\ \A k \in 1..Len(s) : q[k + 2] = s[k]
  <1>1. <<"/", x>> \in Seq(PathNames) /\ Len(<<"/", x>>) = 2
    BY DEF PathNames
  <1> QED BY <1>1 DEF PathNames

\* A path below an entry is a path below the directory of the entry.
LEMMA LeadsFront ==
  ASSUME NEW u \in Inodes, NEW i \in Inodes, NEW r \in Inodes, IsDir(u), NEW x \in Spellable,
         x \in DOMAIN ent[u], ent[u][x] = i, NEW s \in Seq(PathNames), NEW h, Leads(h, s, i, r)
  PROVE  \E g : Leads(g, <<"/", x>> \o s, u, r)
  <1>1. PICK m \in Nat : m = Len(s)
    OBVIOUS
  <1>2. PICK q : q = <<"/", x>> \o s
    OBVIOUS
  <1>3. Len(q) = m + 2 /\ q[1] = "/" /\ q[2] = x /\ \A k \in 1..m : q[k + 2] = s[k]
    <2>1. x \in PathNames
      BY DEF PathNames
    <2> QED BY <1>1, <1>2, <2>1, InFront
  <1>4. /\ h \in [0..m -> SUBSET Inodes] /\ h[0] = {i} /\ h[m] = {r}
        /\ \A k \in 1..m : h[k] = IF s[k] = "/" THEN h[k - 1] ELSE Child(h[k - 1], s[k])
    BY <1>1 DEF Leads
  <1>5. PICK g : g = [k \in 0..(m + 2) |-> IF k < 2 THEN {u} ELSE h[k - 2]]
    OBVIOUS
  <1>6. /\ g[0] = {u} /\ g[1] = {u} /\ g[2] = {i} /\ g[m + 2] = {r}
        /\ \A k \in 0..m : g[k + 2] = h[k] /\ h[k] \in SUBSET Inodes
    BY <1>4, <1>5
  <1>7. \A k \in 0..(m + 2) : k = 0 \/ k = 1 \/ \E j \in 0..m : k = j + 2
    <2> SUFFICES ASSUME NEW k \in 0..(m + 2), k # 0, k # 1 PROVE \E j \in 0..m : k = j + 2
      OBVIOUS
    <2>1. k - 2 \in 0..m /\ k = (k - 2) + 2
      OBVIOUS
    <2> QED BY <2>1
  <1>8. g \in [0..(m + 2) -> SUBSET Inodes]
    <2>1. ASSUME NEW k \in 0..(m + 2) PROVE g[k] \in SUBSET Inodes
      <3>1. CASE k = 0 \/ k = 1
        BY <1>6, <3>1
      <3>2. CASE \E j \in 0..m : k = j + 2
        <4>1. PICK j \in 0..m : k = j + 2
          BY <3>2
        <4> QED BY <1>6, <4>1
      <3> QED BY <1>7, <3>1, <3>2
    <2> QED BY <1>5, <2>1
  <1>9. Child({u}, x) = {i}
    <2>1. x # "."
      BY NamesAre DEF Spellable
    <2> QED BY <2>1 DEF Child
  <1>10. ASSUME NEW k \in 1..(m + 2)
         PROVE  g[k] = IF q[k] = "/" THEN g[k - 1] ELSE Child(g[k - 1], q[k])
    <2>1. CASE k = 1
      <3>1. k - 1 = 0
        BY <2>1
      <3> QED BY <1>3, <1>6, <2>1, <3>1
    <2>2. CASE k = 2
      <3>1. x # "/" /\ k - 1 = 1
        BY <2>2, NamesAre DEF Spellable
      <3> QED BY <1>3, <1>6, <1>9, <2>2, <3>1
    <2>3. CASE k # 1 /\ k # 2
      <3>1. PICK j \in 1..m : j = k - 2
        BY <2>3
      <3>2. k = j + 2 /\ k - 1 = (j - 1) + 2 /\ j \in 0..m /\ j - 1 \in 0..m
        BY <3>1
      <3>3. g[k] = h[j] /\ g[k - 1] = h[j - 1] /\ q[k] = s[j]
        BY <1>3, <1>6, <3>2
      <3> QED BY <1>4, <3>3
    <2> QED BY <2>1, <2>2, <2>3
  <1>11. Leads(g, q, u, r)
    BY <1>3, <1>6, <1>8, <1>10 DEF Leads
  <1> QED BY <1>2, <1>11

\* Its bytes.
LEMMA CountsFront ==
  ASSUME NEW x \in Spellable, NEW s \in Seq(PathNames), NEW len \in Nat, NEW c, Counts(c, s, len)
  PROVE  \E e : Counts(e, <<"/", x>> \o s, len + NameLen[x] + 1)
  <1>1. PICK m \in Nat : m = Len(s)
    OBVIOUS
  <1>2. PICK q : q = <<"/", x>> \o s
    OBVIOUS
  <1>3. Len(q) = m + 2 /\ q[1] = "/" /\ q[2] = x /\ \A k \in 1..m : q[k + 2] = s[k]
    <2>1. x \in PathNames
      BY DEF PathNames
    <2> QED BY <1>1, <1>2, <2>1, InFront
  <1>4. /\ c \in [0..m -> Nat] /\ c[0] = 0 /\ c[m] = len
        /\ \A k \in 1..m : c[k] = c[k - 1] + (IF s[k] = "/" THEN 1 ELSE NameLen[s[k]])
    BY <1>1 DEF Counts
  <1>5. PICK l \in Nat : l = NameLen[x]
    BY FilesAssumption DEF Spellable
  <1>6. PICK e : e = [k \in 0..(m + 2) |-> IF k = 0 THEN 0 ELSE IF k = 1 THEN 1 ELSE c[k - 2] + l + 1]
    OBVIOUS
  <1>7. /\ e[0] = 0 /\ e[1] = 1 /\ e[2] = l + 1 /\ e[m + 2] = len + l + 1
        /\ \A k \in 0..m : e[k + 2] = c[k] + l + 1 /\ c[k] \in Nat
    BY <1>4, <1>6
  <1>8. e \in [0..(m + 2) -> Nat]
    <2>1. \A k \in 0..(m + 2) : k # 0 /\ k # 1 => k - 2 \in 0..m
      OBVIOUS
    <2>2. \A k \in 0..(m + 2) : k # 0 /\ k # 1 => c[k - 2] \in Nat
      BY <1>4, <2>1
    <2> QED BY <1>6, <2>2
  <1>9. ASSUME NEW k \in 1..(m + 2)
        PROVE  e[k] = e[k - 1] + (IF q[k] = "/" THEN 1 ELSE NameLen[q[k]])
    <2>1. CASE k = 1
      BY <1>3, <1>7, <2>1
    <2>2. CASE k = 2
      <3>1. x # "/"
        BY NamesAre DEF Spellable
      <3> QED BY <1>3, <1>5, <1>7, <2>2, <3>1
    <2>3. CASE k # 1 /\ k # 2
      <3>1. PICK j \in 1..m : j = k - 2
        BY <2>3
      <3>2. k = j + 2 /\ k - 1 = (j - 1) + 2 /\ j \in 0..m /\ j - 1 \in 0..m
        BY <3>1
      <3>3. e[k] = c[j] + l + 1 /\ e[k - 1] = c[j - 1] + l + 1 /\ q[k] = s[j] /\ c[j] \in Nat /\ c[j - 1] \in Nat
        BY <1>3, <1>7, <3>2
      <3>4. PICK w : w = IF s[j] = "/" THEN 1 ELSE NameLen[s[j]]
        OBVIOUS
      <3>5. c[j] = c[j - 1] + w
        BY <1>4, <3>4
      <3>6. w \in Int
        <4>1. s[j] \in PathNames
          BY <1>1
        <4>2. s[j] = "/" \/ s[j] \in Names
          BY <4>1 DEF PathNames, Spellable
        <4> QED BY <3>4, <4>2, FilesAssumption
      <3>7. e[k] = e[k - 1] + w
        BY <3>3, <3>5, <3>6
      <3> QED BY <3>3, <3>4, <3>7
    <2> QED BY <2>1, <2>2, <2>3
  <1>10. Counts(e, q, len + l + 1)
    BY <1>3, <1>7, <1>8, <1>9 DEF Counts
  <1> QED BY <1>2, <1>5, <1>10

\* A path from the root that is read step by step denotes where it ends.
LEMMA LeadsTo ==
  ASSUME NEW s \in Seq(PathNames), NEW r \in Inodes, NEW h, Leads(h, s, 0, r)
  PROVE  Denotes(0, s) = {r}
  <1>1. PICK m \in Nat : m = Len(s)
    OBVIOUS
  <1>2. /\ h \in [0..m -> SUBSET Inodes] /\ h[0] = {0} /\ h[m] = {r}
        /\ \A k \in 1..m : h[k] = IF s[k] = "/" THEN h[k - 1] ELSE Child(h[k - 1], s[k])
    BY <1>1 DEF Leads
  <1>3. \A k \in 0..m : h[k] = IF k = 0 THEN {IF s # <<>> /\ s[1] = "/" THEN 0 ELSE 0}
                               ELSE IF s[k] = "/" THEN h[k - 1] ELSE Child(h[k - 1], s[k])
    <2>1. \A k \in 0..m : k = 0 \/ k \in 1..m
      OBVIOUS
    <2>2. {IF s # <<>> /\ s[1] = "/" THEN 0 ELSE 0} = {0}
      OBVIOUS
    <2>3. \A k \in 1..m : k # 0
      OBVIOUS
    <2> QED BY <1>2, <2>1, <2>2, <2>3
  <1>4. IsReading(h, 0, s, m)
    <2>1. h = [k \in 0..m |-> h[k]]
      BY <1>2
    <2> QED BY <1>3, <2>1 DEF IsReading
  <1>5. PICK g : g = CHOOSE f : IsReading(f, 0, s, m)
    OBVIOUS
  <1>6. IsReading(g, 0, s, m)
    BY <1>4, <1>5
  <1>7. Denotes(0, s) = g[m]
    BY <1>1, <1>5 DEF Denotes, IsReading
  <1>8. \A k \in 0..m : g[k] = IF k = 0 THEN {IF s # <<>> /\ s[1] = "/" THEN 0 ELSE 0}
                               ELSE IF s[k] = "/" THEN g[k - 1] ELSE Child(g[k - 1], s[k])
    BY <1>6 DEF IsReading
  <1>9. g[0] = h[0]
    BY <1>3, <1>8
  <1>10. \A k \in 1..m : g[k - 1] = h[k - 1] => g[k] = h[k]
    <2>1. \A k \in 1..m : k \in 0..m /\ k # 0
      OBVIOUS
    <2> QED BY <1>3, <1>8, <2>1
  <1>11. \A k \in 0..m : g[k] = h[k]
    BY <1>9, <1>10, RecursionOnce
  <1> QED BY <1>2, <1>7, <1>11

\* The steps of PathLen.
IsCount(c, s, m) ==
  c = [k \in 0..m |-> IF k = 0 THEN 0 ELSE c[k - 1] + (IF s[k] = "/" THEN 1 ELSE NameLen[s[k]])]

\* A path whose bytes are counted step by step has that length.
LEMMA CountsTo ==
  ASSUME NEW s \in Seq(PathNames), NEW len, NEW c, Counts(c, s, len)
  PROVE  PathLen(s) = len
  <1>1. PICK m \in Nat : m = Len(s)
    OBVIOUS
  <1>2. /\ c \in [0..m -> Nat] /\ c[0] = 0 /\ c[m] = len
        /\ \A k \in 1..m : c[k] = c[k - 1] + (IF s[k] = "/" THEN 1 ELSE NameLen[s[k]])
    BY <1>1 DEF Counts
  <1>3. \A k \in 0..m : c[k] = IF k = 0 THEN 0 ELSE c[k - 1] + (IF s[k] = "/" THEN 1 ELSE NameLen[s[k]])
    <2>1. \A k \in 0..m : k = 0 \/ k \in 1..m
      OBVIOUS
    <2>2. \A k \in 1..m : k # 0
      OBVIOUS
    <2> QED BY <1>2, <2>1, <2>2
  <1>4. IsCount(c, s, m)
    <2>1. c = [k \in 0..m |-> c[k]]
      BY <1>2
    <2> QED BY <1>3, <2>1 DEF IsCount
  <1>5. PICK g : g = CHOOSE f : IsCount(f, s, m)
    OBVIOUS
  <1>6. IsCount(g, s, m)
    BY <1>4, <1>5
  <1>7. PathLen(s) = g[m]
    BY <1>1, <1>5 DEF PathLen, IsCount
  <1>8. \A k \in 0..m : g[k] = IF k = 0 THEN 0 ELSE g[k - 1] + (IF s[k] = "/" THEN 1 ELSE NameLen[s[k]])
    BY <1>6 DEF IsCount
  <1>9. g[0] = c[0]
    BY <1>3, <1>8
  <1>10. \A k \in 1..m : g[k - 1] = c[k - 1] => g[k] = c[k]
    <2>1. \A k \in 1..m : k \in 0..m /\ k # 0
      OBVIOUS
    <2> QED BY <1>3, <1>8, <2>1
  <1>11. \A k \in 0..m : g[k] = c[k]
    BY <1>9, <1>10, RecursionOnce
  <1> QED BY <1>2, <1>7, <1>11

\* The directories that a task can be in.
Dirs == {i \in Inodes : IsDir(i) /\ Plain(i)}

\* vfs_get_path finds the directory in its parent, under a name it was created with.
LEMMA UpIs ==
  ASSUME TreeOK, TreeUp, NEW i \in Dirs, i # 0
  PROVE  LET u == ent[i][".."]
         IN /\ u \in Dirs /\ u < i /\ NameIn(u, i) \in Spellable /\ NameLen[NameIn(u, i)] <= NameMax
            /\ NameIn(u, i) \in DOMAIN ent[u] /\ ent[u][NameIn(u, i)] = i
  <1>1. PICK u : u = ent[i][".."]
    OBVIOUS
  <1>2. u \in Inodes /\ u < i /\ \E n \in DOMAIN ent[u] : ent[u][n] = i
    BY <1>1 DEF TreeUp, Dirs
  <1>3. IsDir(u)
    BY <1>2, NoEntries DEF IsDir
  <1>4. PICK x : x = NameIn(u, i)
    OBVIOUS
  <1>5. x \in DOMAIN ent[u] /\ ent[u][x] = i
    BY <1>2, <1>4 DEF NameIn
  <1>6. x \in EntryNames
    BY <1>2, <1>3, <1>5 DEF TreeOK
  <1>7. u \in Nat /\ i \in Nat
    BY <1>2, Constants DEF Dirs
  <1>8. x # "."
    <2>1. ent[u]["."] = u
      BY <1>2, <1>3 DEF TreeUp
    <2> QED BY <1>2, <1>5, <1>7, <2>1
  <1>9. x # ".."
    <2>1. ent[u][".."] = 0 \/ (ent[u][".."] \in Nat /\ ent[u][".."] < u)
      BY <1>2, <1>3, Constants DEF TreeUp
    <2> QED BY <1>2, <1>5, <1>7, <2>1
  <1>10. x \in Names /\ NameLen[x] <= NameMax /\ x \in Proper(u)
    BY <1>5, <1>6, <1>8, <1>9 DEF EntryNames, Proper
  <1>11. x \in Words
    BY <1>2, <1>5, <1>10 DEF Dirs, Plain
  <1>12. Plain(u)
    BY <1>2, <1>10, PlainUp DEF TreeOK
  <1> QED BY <1>1, <1>2, <1>3, <1>4, <1>5, <1>10, <1>11, <1>12 DEF Spellable, Dirs

\* How far vfs_get_path is after a turn of its loop, from how far it was before.
Foot(i, n) == [at |-> i, room |-> n - 2, ok |-> TRUE, out |-> <<>>]
Climb(x) ==
  IF x.at = 0 \/ ~x.ok THEN x
  ELSE [at |-> ent[x.at][".."], room |-> x.room - NameLen[NameIn(ent[x.at][".."], x.at)] - 1,
        ok |-> x.room > NameLen[NameIn(ent[x.at][".."], x.at)],
        out |-> <<"/", NameIn(ent[x.at][".."], x.at)>> \o x.out]
IsClimb(g, i, n) == g = [k \in Inodes |-> IF k = 0 THEN Foot(i, n) ELSE Climb(g[k - 1])]

\* A turn of the loop that goes up.
LEMMA ClimbIs ==
  ASSUME TreeOK, TreeUp, NEW x, x.at \in Dirs, x.at # 0, x.ok = TRUE, x.out \in Seq(PathNames)
  PROVE  \E u \in Dirs, name \in Spellable :
           /\ u = ent[x.at][".."] /\ name = NameIn(u, x.at)
           /\ u < x.at /\ name \in DOMAIN ent[u] /\ ent[u][name] = x.at
           /\ NameLen[name] \in 1..NameMax
           /\ <<"/", name>> \o x.out \in Seq(PathNames)
           /\ Climb(x) = [at |-> u, room |-> x.room - NameLen[name] - 1, ok |-> x.room > NameLen[name],
                          out |-> <<"/", name>> \o x.out]
  <1>1. PICK i \in Dirs : i = x.at
    OBVIOUS
  <1>2. PICK u : u = ent[i][".."]
    OBVIOUS
  <1>3. PICK name : name = NameIn(u, i)
    OBVIOUS
  <1>4. u \in Dirs /\ u < i /\ name \in Spellable /\ NameLen[name] <= NameMax /\ name \in DOMAIN ent[u] /\ ent[u][name] = i
    BY <1>1, <1>2, <1>3, UpIs
  <1>5. NameLen[name] \in 1..NameMax
    BY <1>4, FilesAssumption DEF Spellable
  <1>6. <<"/", name>> \o x.out \in Seq(PathNames)
    <2>1. name \in PathNames
      BY <1>4 DEF PathNames
    <2>2. PICK s \in Seq(PathNames) : s = x.out
      OBVIOUS
    <2> QED BY <2>1, <2>2, InFront
  <1>7. Climb(x) = [at |-> u, room |-> x.room - NameLen[name] - 1, ok |-> x.room > NameLen[name],
                    out |-> <<"/", name>> \o x.out]
    BY <1>1, <1>2, <1>3 DEF Climb
  <1> QED BY <1>1, <1>2, <1>3, <1>4, <1>5, <1>6, <1>7

\* The loop of vfs_get_path has a value for every directory and every buffer.
LEMMA ClimbExists ==
  ASSUME TreeOK, TreeUp, NEW i \in Dirs, NEW n \in Int
  PROVE  \E g : IsClimb(g, i, n)
  <1>1. PICK T : T = [at : Dirs, room : Int, ok : BOOLEAN, out : Seq(PathNames)]
    OBVIOUS
  <1>2. PICK m \in Nat : m = NInodes - 1
    BY Constants
  <1>3. Inodes = 0..m
    BY <1>2 DEF Inodes
  <1>4. PICK a : a = Foot(i, n)
    OBVIOUS
  <1>5. a \in T
    BY <1>1, <1>4 DEF Foot
  <1>6. ASSUME NEW x \in T PROVE Climb(x) \in T
    <2>1. /\ x.at \in Dirs /\ x.room \in Int /\ x.ok \in BOOLEAN /\ x.out \in Seq(PathNames)
      BY <1>1
    <2>2. CASE x.at = 0 \/ ~x.ok
      BY <2>2 DEF Climb
    <2>3. CASE x.at # 0 /\ x.ok
      <3>1. x.ok = TRUE
        BY <2>1, <2>3
      <3>2. PICK u \in Dirs, name \in Spellable :
              /\ NameLen[name] \in 1..NameMax
              /\ <<"/", name>> \o x.out \in Seq(PathNames)
              /\ Climb(x) = [at |-> u, room |-> x.room - NameLen[name] - 1, ok |-> x.room > NameLen[name],
                             out |-> <<"/", name>> \o x.out]
        BY <2>1, <2>3, <3>1, ClimbIs
      <3>3. PICK r \in Int : r = x.room - NameLen[name] - 1
        BY <2>1, <3>2
      <3>4. PICK o \in Seq(PathNames) : o = <<"/", name>> \o x.out
        BY <3>2
      <3>5. PICK b \in BOOLEAN : b = (x.room > NameLen[name])
        <4>1. (x.room > NameLen[name]) \in BOOLEAN
          BY <2>1, <3>2
        <4> QED BY <4>1, Zenon
      <3>6. Climb(x) = [at |-> u, room |-> r, ok |-> b, out |-> o]
        BY <3>2, <3>3, <3>4, <3>5
      <3> QED BY <1>1, <3>6
    <2> QED BY <2>2, <2>3
  <1>7. PICK F : F = [k \in 1..m |-> [x \in T |-> Climb(x)]]
    OBVIOUS
  <1>8. F \in [1..m -> [T -> T]]
    BY <1>6, <1>7
  <1>9. PICK h : Iterates(h, T, m, a, F)
    BY <1>5, <1>8, Recursion
  <1>10. h \in [0..m -> T] /\ h[0] = a /\ \A k \in 1..m : h[k] = F[k][h[k - 1]]
    BY <1>9 DEF Iterates
  <1>11. ASSUME NEW k \in 0..m PROVE h[k] = IF k = 0 THEN Foot(i, n) ELSE Climb(h[k - 1])
    <2>1. CASE k = 0
      BY <1>4, <1>10, <2>1
    <2>2. CASE k # 0
      <3>1. k \in 1..m /\ k - 1 \in 0..m
        BY <2>2
      <3>2. h[k - 1] \in T
        BY <1>10, <3>1
      <3> QED BY <1>7, <1>10, <2>2, <3>1, <3>2
    <2> QED BY <2>1, <2>2
  <1>12. h = [k \in 0..m |-> h[k]]
    BY <1>10
  <1>13. IsClimb(h, i, n)
    BY <1>3, <1>11, <1>12 DEF IsClimb
  <1> QED BY <1>13

\* vfs_get_path returns what its loop has put together, unless the buffer was too small.
LEMMA GetPathIs ==
  ASSUME TreeOK, TreeUp, NEW node, node.ino \in Dirs, node.ino # 0, NEW n \in Int, n # 0
  PROVE  \E g : IsClimb(g, node.ino, n) /\ GetPath(node, n) = {g[k].out : k \in {j \in {NInodes - 1} : g[j].ok}}
  <1>1. PICK g : g = CHOOSE f : IsClimb(f, node.ino, n)
    OBVIOUS
  <1>2. IsClimb(g, node.ino, n)
    BY <1>1, ClimbExists
  <1>3. GetPath(node, n) = {g[k].out : k \in {j \in {NInodes - 1} : g[j].ok}}
    BY <1>1 DEF GetPath, IsClimb, Foot, Climb
  <1> QED BY <1>2, <1>3

\* The buffer that GetPathRight takes to be large enough.
Ample == 1 + NInodes * (1 + NameMax)

\* What k turns of the loop have done in that buffer, for directory i.
Risen(x, i, k) ==
  /\ x.ok = TRUE /\ x.at \in Dirs /\ (x.at = 0 \/ x.at + k <= i)
  /\ x.room \in Int /\ x.room >= (NInodes - k) * (1 + NameMax) - 1
  /\ x.room <= Ample - 2 /\ Spells(x.out, x.at, i, Ample - 2 - x.room)

\* The buffer has room for a name in every turn.
LEMMA Turns ==
  ASSUME NEW k \in 1..(NInodes - 1), NEW r \in Int, NEW l \in 1..NameMax,
         r >= (NInodes - (k - 1)) * (1 + NameMax) - 1
  PROVE  r > l /\ r - l - 1 >= (NInodes - k) * (1 + NameMax) - 1
  <1>1. PICK c \in Nat : c = 1 + NameMax
    BY FilesAssumption
  <1>2. PICK a \in Nat : a = NInodes - k
    BY Constants
  <1>3. a >= 1 /\ NInodes - (k - 1) = a + 1
    BY <1>2, Constants
  <1>4. PICK q \in Nat : q = a * c
    OBVIOUS
  <1>5. (a + 1) * c = q + c /\ q >= c
    BY <1>3, <1>4
  <1>6. (NInodes - (k - 1)) * (1 + NameMax) = q + c /\ (NInodes - k) * (1 + NameMax) = q
    BY <1>1, <1>2, <1>3, <1>4, <1>5
  <1>7. r >= q + c - 1 /\ l <= c - 1 /\ l \in Nat
    BY <1>1, <1>6, FilesAssumption
  <1>8. r > l /\ r - l - 1 >= q - 1
    BY <1>5, <1>7
  <1> QED BY <1>6, <1>8

\* One turn in that buffer.
LEMMA RisenStep ==
  ASSUME TreeOK, TreeUp, NEW i \in Inodes, NEW k \in 1..(NInodes - 1), NEW x, Risen(x, i, k - 1)
  PROVE  Risen(Climb(x), i, k)
  <1>1. /\ x.ok = TRUE /\ x.at \in Dirs /\ (x.at = 0 \/ x.at + (k - 1) <= i)
        /\ x.room \in Int /\ x.room >= (NInodes - (k - 1)) * (1 + NameMax) - 1
        /\ x.room <= Ample - 2 /\ Spells(x.out, x.at, i, Ample - 2 - x.room)
    BY DEF Risen
  <1>2. Ample \in Nat /\ NInodes \in Nat /\ NameMax \in Nat /\ i \in Nat
    BY FilesAssumption, Constants DEF Ample
  <1>3. CASE x.at = 0
    <2>1. Climb(x) = x
      BY <1>3 DEF Climb
    <2>2. (NInodes - (k - 1)) * (1 + NameMax) >= (NInodes - k) * (1 + NameMax)
      <3>1. PICK c \in Nat : c = 1 + NameMax
        BY <1>2
      <3>2. PICK a \in Nat : a = NInodes - k
        BY <1>2
      <3>3. NInodes - (k - 1) = a + 1 /\ (a + 1) * c = a * c + c /\ a * c \in Nat
        BY <1>2, <3>2
      <3> QED BY <3>1, <3>2, <3>3
    <2>3. x.room >= (NInodes - k) * (1 + NameMax) - 1
      <3>1. PICK p \in Int, q \in Int : p = (NInodes - (k - 1)) * (1 + NameMax) /\ q = (NInodes - k) * (1 + NameMax)
        BY <1>2
      <3> QED BY <1>1, <2>2, <3>1
    <2> QED BY <1>1, <1>3, <2>1, <2>3 DEF Risen
  <1>4. CASE x.at # 0
    <2>1. x.out \in Seq(PathNames)
      BY <1>1 DEF Spells
    <2>2. PICK u \in Dirs, name \in Spellable :
            /\ u < x.at /\ name \in DOMAIN ent[u] /\ ent[u][name] = x.at
            /\ NameLen[name] \in 1..NameMax
            /\ <<"/", name>> \o x.out \in Seq(PathNames)
            /\ Climb(x) = [at |-> u, room |-> x.room - NameLen[name] - 1, ok |-> x.room > NameLen[name],
                           out |-> <<"/", name>> \o x.out]
      BY <1>1, <1>4, <2>1, ClimbIs
    <2>3. PICK l \in 1..NameMax : l = NameLen[name]
      BY <2>2
    <2>4. PICK r \in Int : r = x.room
      BY <1>1
    <2>5. r > l /\ r - l - 1 >= (NInodes - k) * (1 + NameMax) - 1
      BY <1>1, <2>4, Turns
    <2>6. PICK q : q = <<"/", name>> \o x.out
      OBVIOUS
    <2>7. Climb(x).at = u /\ Climb(x).room = r - l - 1 /\ Climb(x).ok = (r > l) /\ Climb(x).out = q
      BY <2>2, <2>3, <2>4, <2>6
    <2>8. Climb(x).ok = TRUE
      BY <2>5, <2>7
    <2>9. PICK s \in Seq(PathNames) : s = x.out
      BY <2>1
    <2>10. PICK y \in Inodes : y = x.at
      BY <1>1 DEF Dirs
    <2>11. PICK len \in Nat : len = Ample - 2 - r
      BY <1>1, <1>2, <2>4
    <2>12. \E h : Leads(h, q, u, i)
      <3>1. PICK h : Leads(h, s, y, i)
        BY <1>1, <2>9, <2>10 DEF Spells
      <3>2. u \in Inodes /\ IsDir(u) /\ name \in DOMAIN ent[u] /\ ent[u][name] = y
        BY <2>2, <2>10 DEF Dirs
      <3> QED BY <2>6, <2>9, <3>1, <3>2, LeadsFront
    <2>13. \E c : Counts(c, q, len + l + 1)
      <3>1. PICK c : Counts(c, s, len)
        BY <1>1, <2>4, <2>9, <2>11 DEF Spells
      <3> QED BY <2>3, <2>6, <2>9, <3>1, CountsFront
    <2>14. len + l + 1 = Ample - 2 - (r - l - 1)
      BY <1>2, <2>11
    <2>15. Spells(q, u, i, Ample - 2 - (r - l - 1))
      BY <2>2, <2>6, <2>12, <2>13, <2>14 DEF Spells
    <2>16. u + k <= i
      <3>1. u \in Nat /\ y \in Nat /\ u < y /\ y + (k - 1) <= i
        BY <1>1, <1>4, <2>2, <2>10, Constants DEF Dirs
      <3> QED BY <1>2, <3>1
    <2>17. r - l - 1 \in Int /\ r - l - 1 <= Ample - 2
      BY <1>1, <1>2, <2>4
    <2> QED BY <2>5, <2>7, <2>8, <2>15, <2>16, <2>17 DEF Risen
  <1> QED BY <1>3, <1>4

\* All turns in that buffer.
LEMMA Rises ==
  ASSUME TreeOK, TreeUp, NEW i \in Dirs, NEW g, IsClimb(g, i, Ample)
  PROVE  \A k \in Inodes : Risen(g[k], i, k)
  <1>1. Ample \in Nat /\ NInodes \in Nat /\ NameMax \in Nat /\ i \in Inodes /\ i \in Nat
    BY FilesAssumption, Constants DEF Ample, Dirs
  <1>2. \A k \in Inodes : g[k] = IF k = 0 THEN Foot(i, Ample) ELSE Climb(g[k - 1])
    BY DEF IsClimb
  <1>3. Risen(g[0], i, 0)
    <2>1. g[0] = [at |-> i, room |-> Ample - 2, ok |-> TRUE, out |-> <<>>]
      BY <1>2, Constants DEF Foot
    <2>2. Ample - 2 = (NInodes - 0) * (1 + NameMax) - 1
      BY <1>1 DEF Ample
    <2>3. <<>> \in Seq(PathNames) /\ Len(<<>>) = 0
      OBVIOUS
    <2>4. Leads([k \in 0..0 |-> {i}], <<>>, i, i)
      BY <1>1, <2>3 DEF Leads
    <2>5. Counts([k \in 0..0 |-> 0], <<>>, 0)
      BY <2>3 DEF Counts
    <2>6. Spells(<<>>, i, i, 0)
      BY <2>3, <2>4, <2>5 DEF Spells
    <2>7. PICK a \in Int : a = Ample - 2
      BY <1>1
    <2>8. Spells(<<>>, i, i, a - a) /\ i + 0 <= i
      BY <1>1, <2>6
    <2> QED BY <2>1, <2>2, <2>7, <2>8 DEF Risen
  <1> DEFINE Bad == {k \in Inodes : ~Risen(g[k], i, k)}
  <1>4. ASSUME Bad # {} PROVE FALSE
    <2>1. Bad \in SUBSET Nat
      BY Constants
    <2>2. PICK k \in Bad : \A y \in Bad : k <= y
      <3> HIDE DEF Bad
      <3> QED BY <1>4, <2>1, Least
    <2>3. k \in Inodes /\ ~Risen(g[k], i, k) /\ k # 0
      BY <1>3
    <2>4. k \in 1..(NInodes - 1) /\ k - 1 \in Inodes /\ ~(k <= k - 1)
      BY <1>1, <2>3 DEF Inodes
    <2>5. Risen(g[k - 1], i, k - 1)
      BY <2>2, <2>4
    <2>6. g[k] = Climb(g[k - 1])
      BY <1>2, <2>3
    <2> QED BY <1>1, <2>3, <2>4, <2>5, <2>6, RisenStep
  <1> QED BY <1>4

\* A loop in a buffer of d bytes less has done the same, until there is no room.
Same(x, y, d) ==
  /\ x.ok \in BOOLEAN /\ (x.ok <=> y.room >= d)
  /\ x.ok => x.at = y.at /\ x.out = y.out /\ x.room = y.room - d

\* One turn in both buffers.
LEMMA SameStep ==
  ASSUME TreeOK, TreeUp, NEW i \in Inodes, NEW k \in 1..(NInodes - 1), NEW d \in Int,
         NEW x, NEW y, Same(x, y, d), Risen(y, i, k - 1), Risen(Climb(y), i, k)
  PROVE  Same(Climb(x), Climb(y), d)
  <1>1. y.ok = TRUE /\ y.at \in Dirs /\ y.room \in Int /\ y.out \in Seq(PathNames)
    BY DEF Risen, Spells
  <1>2. CASE y.at = 0
    <2>1. Climb(y) = y
      BY <1>2 DEF Climb
    <2>2. Climb(x) = x
      BY <1>2 DEF Climb, Same
    <2> QED BY <2>1, <2>2
  <1>3. CASE y.at # 0
    <2>1. PICK u \in Dirs, name \in Spellable :
            /\ u = ent[y.at][".."] /\ name = NameIn(u, y.at) /\ NameLen[name] \in 1..NameMax
            /\ Climb(y) = [at |-> u, room |-> y.room - NameLen[name] - 1, ok |-> y.room > NameLen[name],
                           out |-> <<"/", name>> \o y.out]
      BY <1>1, <1>3, ClimbIs
    <2>2. PICK l \in Nat : l = NameLen[name]
      BY <2>1
    <2>3. PICK q : q = <<"/", name>> \o y.out
      OBVIOUS
    <2>4. Climb(y).at = u /\ Climb(y).room = y.room - l - 1 /\ Climb(y).out = q
      BY <2>1, <2>2, <2>3
    <2>5. CASE ~x.ok
      <3>1. Climb(x) = x
        BY <2>5 DEF Climb
      <3>2. ~(y.room >= d) /\ ~(y.room - l - 1 >= d)
        BY <1>1, <2>5 DEF Same
      <3>3. x.ok \in BOOLEAN
        BY DEF Same
      <3> QED BY <2>4, <2>5, <3>1, <3>2, <3>3 DEF Same
    <2>6. CASE x.ok
      <3>1. x.at = y.at /\ x.out = y.out /\ x.room = y.room - d
        BY <2>6 DEF Same
      <3>2. Climb(x) = [at |-> u, room |-> x.room - l - 1, ok |-> x.room > l, out |-> q]
        BY <1>3, <2>1, <2>2, <2>3, <2>6, <3>1 DEF Climb
      <3>3. (x.room > l) <=> (y.room - l - 1 >= d)
        BY <1>1, <3>1
      <3>4. x.room - l - 1 = (y.room - l - 1) - d
        BY <1>1, <3>1
      <3>5. Climb(x).at = u /\ Climb(x).room = x.room - l - 1 /\ Climb(x).ok = (x.room > l) /\ Climb(x).out = q
        BY <3>2
      <3>6. (x.room > l) \in BOOLEAN
        BY <1>1, <3>1
      <3>7. Climb(x).ok \in BOOLEAN /\ (Climb(x).ok <=> x.room > l)
        BY <3>5, <3>6
      <3> QED BY <2>4, <3>3, <3>4, <3>5, <3>7 DEF Same
    <2> QED BY <2>5, <2>6
  <1> QED BY <1>2, <1>3

\* All turns in both buffers.
LEMMA SameAll ==
  ASSUME TreeOK, TreeUp, NEW i \in Dirs, NEW n \in Nat, n >= 2, NEW f, IsClimb(f, i, n),
         NEW g, IsClimb(g, i, Ample)
  PROVE  \A k \in Inodes : Same(f[k], g[k], Ample - n)
  <1>1. PICK d \in Int : d = Ample - n
    BY FilesAssumption DEF Ample
  <1>2. Ample \in Nat /\ NInodes \in Nat /\ i \in Inodes
    BY FilesAssumption, Constants DEF Ample, Dirs
  <1>3. \A k \in Inodes : /\ f[k] = IF k = 0 THEN Foot(i, n) ELSE Climb(f[k - 1])
                          /\ g[k] = IF k = 0 THEN Foot(i, Ample) ELSE Climb(g[k - 1])
    BY DEF IsClimb
  <1>4. \A k \in Inodes : Risen(g[k], i, k)
    BY Rises
  <1>5. Same(f[0], g[0], d)
    <2>1. f[0] = Foot(i, n) /\ g[0] = Foot(i, Ample)
      BY <1>3, Constants
    <2>2. /\ f[0].ok = TRUE /\ f[0].at = g[0].at /\ f[0].out = g[0].out
          /\ f[0].room = n - 2 /\ g[0].room = Ample - 2
      BY <2>1 DEF Foot
    <2>3. Ample - 2 >= d /\ n - 2 = Ample - 2 - d
      BY <1>1, <1>2
    <2> QED BY <2>2, <2>3 DEF Same
  <1> DEFINE Bad == {k \in Inodes : ~Same(f[k], g[k], d)}
  <1>6. ASSUME Bad # {} PROVE FALSE
    <2>1. Bad \in SUBSET Nat
      BY Constants
    <2>2. PICK k \in Bad : \A y \in Bad : k <= y
      <3> HIDE DEF Bad
      <3> QED BY <1>6, <2>1, Least
    <2>3. k \in Inodes /\ ~Same(f[k], g[k], d) /\ k # 0
      BY <1>5
    <2>4. k \in 1..(NInodes - 1) /\ k - 1 \in Inodes /\ ~(k <= k - 1)
      BY <1>2, <2>3 DEF Inodes
    <2>5. Same(f[k - 1], g[k - 1], d)
      BY <2>2, <2>4
    <2>6. f[k] = Climb(f[k - 1]) /\ g[k] = Climb(g[k - 1])
      BY <1>3, <2>3
    <2>7. Risen(g[k - 1], i, k - 1) /\ Risen(Climb(g[k - 1]), i, k)
      BY <1>4, <2>3, <2>4, <2>6
    <2> QED BY <1>2, <2>3, <2>4, <2>5, <2>6, <2>7, SameStep
  <1> QED BY <1>1, <1>6

\* One byte is never enough.
LEMMA OneByte ==
  ASSUME TreeOK, TreeUp, NEW i \in Dirs, i # 0, NEW f, IsClimb(f, i, 1)
  PROVE  \A k \in Inodes : k # 0 => ~f[k].ok
  <1>1. \A k \in Inodes : f[k] = IF k = 0 THEN Foot(i, 1) ELSE Climb(f[k - 1])
    BY DEF IsClimb
  <1>2. f[0] = [at |-> i, room |-> 1 - 2, ok |-> TRUE, out |-> <<>>]
    BY <1>1, Constants DEF Foot
  <1>3. f[0].at = i /\ f[0].ok = TRUE /\ f[0].room = -1 /\ f[0].out \in Seq(PathNames)
    BY <1>2
  <1>4. PICK l \in Nat : Climb(f[0]).ok = (f[0].room > l)
    <2>1. PICK u \in Dirs, name \in Spellable :
            /\ NameLen[name] \in 1..NameMax
            /\ Climb(f[0]) = [at |-> u, room |-> f[0].room - NameLen[name] - 1, ok |-> f[0].room > NameLen[name],
                              out |-> <<"/", name>> \o f[0].out]
      BY <1>3, ClimbIs
    <2> QED BY <2>1
  <1>5. ~Climb(f[0]).ok
    <2>1. ~(f[0].room > l)
      BY <1>3
    <2> QED BY <1>4, <2>1
  <1> DEFINE Bad == {k \in Inodes : k # 0 /\ f[k].ok}
  <1>6. ASSUME Bad # {} PROVE FALSE
    <2>1. Bad \in SUBSET Nat
      BY Constants
    <2>2. PICK k \in Bad : \A y \in Bad : k <= y
      <3> HIDE DEF Bad
      <3> QED BY <1>6, <2>1, Least
    <2>3. k \in Inodes /\ k # 0 /\ f[k].ok /\ f[k] = Climb(f[k - 1])
      BY <1>1
    <2>4. k - 1 \in Inodes /\ ~(k <= k - 1)
      BY <2>3, Constants DEF Inodes
    <2>5. CASE k - 1 = 0
      BY <1>5, <2>3, <2>5
    <2>6. CASE k - 1 # 0
      <3>1. ~f[k - 1].ok
        BY <2>2, <2>4, <2>6
      <3>2. Climb(f[k - 1]) = f[k - 1]
        BY <3>1 DEF Climb
      <3> QED BY <2>3, <3>1, <3>2
    <2> QED BY <2>5, <2>6
  <1> QED BY <1>6

\* What vfs_get_path prints for a directory that is not the root.
LEMMA GetPathMeans ==
  ASSUME TreeOK, TreeUp, NEW node, node.ino \in Dirs, node.ino # 0
  PROVE  \E p \in Seq(PathNames), len \in Nat :
           /\ Denotes(0, p) = {node.ino} /\ PathLen(p) = len
           /\ GetPath(node, Ample) = {p}
           /\ \A n \in Nat : GetPath(node, n) = IF len <= n - 2 THEN {p} ELSE {}
  <1>1. PICK i \in Dirs : i = node.ino
    OBVIOUS
  <1>2. PICK m \in Inodes : m = NInodes - 1 /\ \A k \in Inodes : k <= m
    BY Constants DEF Inodes
  <1>3. Ample \in Nat /\ i \in Inodes /\ i \in Nat /\ m \in Nat
    BY FilesAssumption, Constants DEF Ample, Dirs
  <1>20. m # 0
    BY <1>1, <1>2, <1>3
  <1>16. Ample # 0
    <2>1. NInodes * (1 + NameMax) \in Nat
      BY FilesAssumption
    <2> QED BY <2>1 DEF Ample
  <1>4. PICK g : /\ IsClimb(g, i, Ample)
                 /\ GetPath(node, Ample) = {g[k].out : k \in {j \in {NInodes - 1} : g[j].ok}}
    BY <1>1, <1>3, <1>16, GetPathIs
  <1>5. Risen(g[m], i, m)
    BY <1>4, Rises
  <1>6. PICK r \in Int : r = g[m].room
    BY <1>5 DEF Risen
  <1>7. PICK p : p = g[m].out
    OBVIOUS
  <1>8. PICK len \in Nat : len = Ample - 2 - r
    BY <1>3, <1>5, <1>6 DEF Risen
  <1>9. g[m].at = 0
    <2>1. g[m].at \in Nat /\ (g[m].at = 0 \/ g[m].at + m <= i) /\ i <= m
      BY <1>2, <1>3, <1>5, Constants DEF Risen, Dirs
    <2> QED BY <1>3, <2>1
  <1>10. Spells(p, 0, i, len)
    BY <1>5, <1>6, <1>7, <1>8, <1>9 DEF Risen
  <1>11. p \in Seq(PathNames)
    BY <1>10 DEF Spells
  <1>12. Denotes(0, p) = {i}
    BY <1>3, <1>10, <1>11, LeadsTo DEF Spells
  <1>13. PathLen(p) = len
    BY <1>10, <1>11, CountsTo DEF Spells
  <1>14. GetPath(node, Ample) = {p}
    <2>1. g[m].ok = TRUE
      BY <1>5 DEF Risen
    <2> QED BY <1>2, <1>4, <1>7, <2>1
  <1>15. ASSUME NEW n \in Nat, n >= 2 PROVE GetPath(node, n) = IF len <= n - 2 THEN {p} ELSE {}
    <2>1. PICK f : /\ IsClimb(f, i, n)
                   /\ GetPath(node, n) = {f[k].out : k \in {j \in {NInodes - 1} : f[j].ok}}
      BY <1>1, <1>15, GetPathIs
    <2>2. Same(f[m], g[m], Ample - n)
      BY <1>4, <1>15, <2>1, SameAll
    <2>3. (f[m].ok <=> r >= Ample - n) /\ (f[m].ok => f[m].out = p)
      BY <1>6, <1>7, <2>2 DEF Same
    <2>4. r >= Ample - n <=> len <= n - 2
      BY <1>3, <1>8
    <2>5. CASE f[m].ok
      BY <1>2, <2>1, <2>3, <2>4, <2>5
    <2>6. CASE ~f[m].ok
      BY <1>2, <2>1, <2>3, <2>4, <2>6
    <2> QED BY <2>5, <2>6
  <1>17. GetPath(node, 1) = {}
    <2>1. PICK f : /\ IsClimb(f, i, 1)
                   /\ GetPath(node, 1) = {f[k].out : k \in {j \in {NInodes - 1} : f[j].ok}}
      BY <1>1, GetPathIs
    <2>2. ~f[m].ok
      BY <1>1, <1>20, <2>1, OneByte
    <2> QED BY <1>2, <2>1, <2>2
  <1>18. GetPath(node, 0) = {}
    BY DEF GetPath
  <1>19. ASSUME NEW n \in Nat PROVE GetPath(node, n) = IF len <= n - 2 THEN {p} ELSE {}
    <2>1. CASE n = 0
      BY <1>18, <2>1
    <2>2. CASE n = 1
      BY <1>17, <2>2
    <2>3. CASE n >= 2
      BY <1>15, <2>3
    <2> QED BY <2>1, <2>2, <2>3
  <1> QED BY <1>1, <1>11, <1>12, <1>13, <1>14, <1>19

\* What it prints for the root.
LEMMA GetPathRoot ==
  ASSUME NEW node, node.ino = 0
  PROVE  /\ Denotes(0, <<"/">>) = {0} /\ PathLen(<<"/">>) = 1
         /\ \A n \in Nat : GetPath(node, n) = IF n = 0 THEN {} ELSE {<<"/">>}
  <1>1. PICK p : p = <<"/">>
    OBVIOUS
  <1>2. p \in Seq(PathNames) /\ Len(p) = 1 /\ p[1] = "/"
    BY <1>1 DEF PathNames
  <1>3. PICK h : h = [k \in 0..1 |-> {0}]
    OBVIOUS
  <1>4. Leads(h, p, 0, 0)
    <2>1. h \in [0..1 -> SUBSET Inodes] /\ h[0] = {0} /\ h[1] = {0}
      BY <1>3, Constants
    <2>2. \A k \in 1..1 : k = 1 /\ k - 1 = 0
      OBVIOUS
    <2>3. h[1] = IF p[1] = "/" THEN h[0] ELSE Child(h[0], p[1])
      BY <1>2, <2>1
    <2>4. \A k \in 1..1 : h[k] = IF p[k] = "/" THEN h[k - 1] ELSE Child(h[k - 1], p[k])
      BY <2>2, <2>3
    <2> QED BY <1>2, <2>1, <2>4 DEF Leads
  <1>5. PICK c : c = [k \in 0..1 |-> k]
    OBVIOUS
  <1>6. Counts(c, p, 1)
    <2>1. c \in [0..1 -> Nat] /\ c[0] = 0 /\ c[1] = 1
      BY <1>5
    <2>2. \A k \in 1..1 : k = 1 /\ k - 1 = 0
      OBVIOUS
    <2> QED BY <1>2, <2>1, <2>2 DEF Counts
  <1>7. Denotes(0, p) = {0} /\ PathLen(p) = 1
    BY <1>2, <1>4, <1>6, LeadsTo, CountsTo, Constants
  <1>8. \A n \in Nat : GetPath(node, n) = IF n = 0 THEN {} ELSE {<<"/">>}
    BY DEF GetPath
  <1> QED BY <1>1, <1>7, <1>8

\* vfs_get_path prints, for the working directory of any task in a tree of any shape and for
\* every size of the buffer, a path that can be read again and leads back to it, whenever
\* the buffer leaves one byte to spare, and nothing that the buffer cannot hold, but for the
\* root's two bytes in a buffer of one.
THEOREM GetPathAlwaysRight == Spec => []GetPathRight
  <1>1. FilesInv /\ TreeUp => GetPathRight
    <2> SUFFICES ASSUME FilesInv, TreeUp, NEW t \in Live, NEW n \in BufSizes
                 PROVE  LET full == CHOOSE p \in GetPath(cwd[t], 1 + NInodes * (1 + NameMax)) : TRUE
                        IN /\ \A k \in 1..Len(full) : full[k] \in Words \cup {"/"}
                           /\ Denotes(0, full) = {cwd[t].ino}
                           /\ \A p \in GetPath(cwd[t], n) :
                                p = full /\ (PathLen(p) < n \/ (n = 1 /\ cwd[t].ino = 0))
                           /\ PathLen(full) + 1 < n => GetPath(cwd[t], n) # {}
      BY DEF GetPathRight
    <2>1. TreeOK /\ cwd[t] \in NodeType /\ NodeOK(cwd[t]) /\ cwd[t].dir
      BY DEF FilesInv, Types, NodesOK
    <2>2. n \in Nat /\ Ample \in Nat /\ Ample # 0
      <3>1. NInodes * (1 + NameMax) \in Nat
        BY FilesAssumption
      <3> QED BY <3>1, FilesAssumption DEF Ample
    <2>3. cwd[t].ino \in Dirs
      BY <2>1 DEF NodeType, NodeOK, Dirs
    <2>4. PICK full : full = CHOOSE p \in GetPath(cwd[t], Ample) : TRUE
      OBVIOUS
    <2>5. /\ full \in Seq(PathNames) /\ Denotes(0, full) = {cwd[t].ino}
          /\ \A p \in GetPath(cwd[t], n) : p = full /\ (PathLen(p) < n \/ (n = 1 /\ cwd[t].ino = 0))
          /\ PathLen(full) + 1 < n => GetPath(cwd[t], n) # {}
      <3>1. CASE cwd[t].ino = 0
        <4>1. GetPath(cwd[t], Ample) = {<<"/">>} /\ GetPath(cwd[t], n) = IF n = 0 THEN {} ELSE {<<"/">>}
          BY <2>2, <3>1, GetPathRoot
        <4>2. full = <<"/">>
          BY <2>4, <4>1
        <4>3. Denotes(0, full) = {0} /\ PathLen(full) = 1
          BY <3>1, <4>2, GetPathRoot
        <4>4. full \in Seq(PathNames)
          BY <4>2 DEF PathNames
        <4>5. GetPath(cwd[t], n) = IF n = 0 THEN {} ELSE {full}
          BY <4>1, <4>2
        <4>6. CASE n = 0
          BY <3>1, <4>3, <4>4, <4>5, <4>6
        <4>7. CASE n # 0
          BY <2>2, <3>1, <4>3, <4>4, <4>5, <4>7
        <4> QED BY <4>6, <4>7
      <3>2. CASE cwd[t].ino # 0
        <4>1. PICK p \in Seq(PathNames), len \in Nat :
                /\ Denotes(0, p) = {cwd[t].ino} /\ PathLen(p) = len
                /\ GetPath(cwd[t], Ample) = {p}
                /\ \A b \in Nat : GetPath(cwd[t], b) = IF len <= b - 2 THEN {p} ELSE {}
          BY <2>1, <2>3, <3>2, GetPathMeans
        <4>2. full = p
          BY <2>4, <4>1
        <4>3. GetPath(cwd[t], n) = IF len <= n - 2 THEN {p} ELSE {}
          BY <2>2, <4>1
        <4> QED BY <2>2, <4>1, <4>2, <4>3
      <3> QED BY <3>1, <3>2
    <2>6. \A k \in 1..Len(full) : full[k] \in Words \cup {"/"}
      <3>1. \A k \in 1..Len(full) : full[k] \in PathNames
        BY <2>5
      <3> QED BY <3>1 DEF PathNames, Spellable
    <2> QED BY <2>4, <2>5, <2>6 DEF Ample
  <1> QED BY <1>1, FilesSafe, AlwaysAWayUp, PTL
=============================================================================

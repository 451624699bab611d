--------------------------- MODULE SimpleFSProofs ---------------------------
(***************************************************************************)
(* Proofs about SimpleFS, for every size of the disk, of the inode table   *)
(* and of a directory, every set of names, every place of a crash and any  *)
(* use of the disk tool, when calls are not interrupted by other calls and *)
(* formatting is not cut short.                                            *)
(***************************************************************************)
EXTENDS SimpleFS, SequenceTheorems, FiniteSetTheorems, TLAPS

\* What the theorems assume of the machine.
Orderly == Interruptible = {} /\ CrashInFormat = FALSE

SectorType == [table : [Slots -> EntryType], of : {<<>>} \cup (Inodes \X Index)]

CallType ==
  [pc : {"idle", "alloc", "dirblock", "dirinode", "entry", "claim", "data", "size"},
   dir : Inodes, name : Names \cup {NoName}, isdir : BOOLEAN, size : 0..(SizeMod - 1),
   ino : Inodes, mem : InodeType, j : Nat, blk : Blocks \cup {0},
   sec : [Inodes -> InodeType], table : [Slots -> EntryType]]

Types ==
  /\ magic \in BOOLEAN /\ inode \in [Inodes -> InodeType] /\ data \in [Blocks -> SectorType]
  /\ up \in {"off", "format", "up"} /\ fmt \in 0..(InodeSectors + 2)
  /\ op \in [Actors -> CallType] /\ tools \in Nat

\* Sectors of inodes in use are not shared.
Disjoint ==
  \A i, k \in Inodes, j, l \in Index :
    inode[i].used /\ inode[k].used /\ <<i, j>> # <<k, l>> /\ inode[i].blocks[j] # 0
      => inode[i].blocks[j] # inode[k].blocks[l]

\* The table of directory d: . and .. come first and only there, and an entry names an
\* inode in use; a directory it names has a table with the way back.
TableInv(d) ==
  /\ Table(d)[1].name = "." /\ Table(d)[1].ino = d /\ Table(d)[2].name = ".."
  /\ \A s \in Slots : s # 1 /\ s # 2 => Table(d)[s].name # "." /\ Table(d)[s].name # ".."
  /\ \A s \in Slots : Proper(d, s) =>
       /\ inode[Table(d)[s].ino].used /\ Table(d)[s].ino # 0
       /\ inode[Table(d)[s].ino].dir => IsDir(Table(d)[s].ino) /\ Table(Table(d)[s].ino)[2].ino = d
       /\ \A r \in Slots : Table(d)[r].name = Table(d)[s].name => r = s

\* Also the directories that no entry names (yet) have such tables.
DirInv == \A d \in Inodes : IsDir(d) => TableInv(d)

\* No two entries name the same inode.
OneName ==
  \A d, e \in Inodes, s, r \in Slots :
    IsDir(d) /\ IsDir(e) /\ Proper(d, s) /\ Proper(e, r) /\ Table(d)[s].ino = Table(e)[r].ino
      => d = e /\ s = r

DiskInv == IsDir(0) /\ Disjoint /\ DirInv /\ OneName

\* Inode i is named by no entry.
Unnamed(i) == \A d \in Inodes, s \in Slots : IsDir(d) /\ Proper(d, s) => Table(d)[s].ino # i

NewInode(isdir) == [ZeroInode EXCEPT !.used = TRUE, !.dir = isdir]

\* A create or mkdir in progress, before its name is entered.
Making(o) ==
  /\ IsDir(o.dir) /\ o.name \in Names /\ o.ino # 0 /\ Unnamed(o.ino)
  /\ \A s \in Slots : Table(o.dir)[s].name # o.name
  /\ o.pc = "alloc" =>
       ~inode[o.ino].used /\ o.sec = [inode EXCEPT ![o.ino] = NewInode(o.isdir)]
  /\ o.pc \in {"dirblock", "dirinode"} =>
       /\ o.isdir /\ inode[o.ino] = NewInode(TRUE) /\ o.blk \in Blocks \ UsedBlocks(inode)
  /\ o.pc = "dirinode" =>
       /\ data[o.blk].table = DirTable(o.ino, o.dir)
       /\ o.sec = [inode EXCEPT ![o.ino] = [inode[o.ino] EXCEPT !.blocks[0] = o.blk]]
  /\ o.pc = "entry" =>
       /\ inode[o.ino].used
       /\ inode[o.ino].dir => IsDir(o.ino) /\ Table(o.ino)[2].ino = o.dir
       /\ \E s \in EmptySlots(o.dir) : o.table = [Table(o.dir) EXCEPT ![s] = [name |-> o.name, ino |-> o.ino]]

\* A write in progress: the first o.j blocks are written.
Writing(o) ==
  /\ inode[o.ino].used /\ ~inode[o.ino].dir /\ o.size \in Sizes
  /\ Needed(o.size) <= Direct /\ o.j <= Needed(o.size) /\ (o.pc # "size" => o.j < Needed(o.size))
  /\ \A k \in Index : k < o.j => inode[o.ino].blocks[k] # 0 /\ data[inode[o.ino].blocks[k]].of = <<o.ino, k>>
  /\ o.pc = "claim" =>
       /\ inode[o.ino].blocks[o.j] = 0
       /\ \E b \in Blocks \ UsedBlocks(inode) : o.mem = [inode[o.ino] EXCEPT !.blocks[o.j] = b]
       /\ o.sec = [inode EXCEPT ![o.ino] = o.mem]
  /\ o.pc = "data" => o.mem = inode[o.ino] /\ o.mem.blocks[o.j] # 0
  /\ o.pc = "size" => /\ o.j = Needed(o.size)
                      /\ o.sec = [inode EXCEPT ![o.ino] = [inode[o.ino] EXCEPT !.size = o.size]]

\* One call at a time, on a mounted disk.
CallInv ==
  \A a \in Actors : op[a] # Idle =>
    /\ up = "up" /\ op[a].pc # "idle" /\ \A c \in Actors : c # a => op[c] = Idle
    /\ IF op[a].pc \in {"claim", "data", "size"} THEN Writing(op[a]) ELSE Making(op[a])

\* How far formatting has come.
FormatInv ==
  up = "format" =>
    /\ fmt \in 1..(InodeSectors + 1) => \A i \in Inodes : SectorOf(i) < fmt - 1 => inode[i] = ZeroInode
    /\ fmt = InodeSectors + 2 =>
         /\ \A i \in Inodes \ {0} : inode[i] = ZeroInode
         /\ inode[0] = [NewInode(TRUE) EXCEPT !.blocks[0] = FirstBlock]

FSInv ==
  /\ Types /\ CallInv /\ FormatInv
  /\ up = "up" \/ (up = "off" /\ magic) => DiskInv

\* The blocks of a file of that size, none if simplefs_write could not count them.
Extent(size) == IF Counted(size) THEN 0..((size - 1 + SectorSize) \div SectorSize - 1) ELSE {}

\* NoStaleData of a formatted disk.
NoStale ==
  \A i \in Inodes : inode[i].used /\ ~inode[i].dir =>
    \A j \in Extent(inode[i].size) :
      j \in Index /\ inode[i].blocks[j] # 0 /\ data[inode[i].blocks[j]].of = <<i, j>>

\* No inode in use loses its kind or a block.
Grows ==
  \A i \in Inodes : inode[i].used =>
    /\ inode'[i].used /\ inode'[i].dir = inode[i].dir
    /\ \A j \in Index : inode[i].blocks[j] \in {0, inode'[i].blocks[j]}
-----------------------------------------------------------------------------
(* The constants and the records *)

\* What the numbers of the disk satisfy.
LEMMA Constants ==
  /\ InodeCount \in Nat /\ InodeCount > 0 /\ PerSector \in Nat /\ PerSector > 0
  /\ Direct \in Nat /\ Direct > 0 /\ EntriesPer \in Nat /\ EntriesPer >= 2
  /\ SectorSize \in Nat /\ SectorSize > 0 /\ SizeMod \in Nat /\ SizeMod > 0
  /\ 0 \in Inodes /\ 0 \in Index /\ 1 \in Slots /\ 2 \in Slots /\ 0 \notin Blocks
  /\ Inodes \subseteq Nat /\ Index \subseteq Nat /\ Blocks \subseteq Nat
  /\ Sizes \subseteq 0..(SizeMod - 1)
  <1>1. /\ InodeCount \in Nat \ {0} /\ PerSector \in Nat \ {0} /\ Direct \in Nat \ {0}
        /\ EntriesPer \in Nat /\ EntriesPer >= 2 /\ SectorSize \in Nat \ {0} /\ SizeMod \in Nat \ {0}
        /\ Blocks \subseteq Nat \ {0} /\ Sizes \subseteq 0..(SizeMod - 1)
    BY SimpleFSAssumption
  <1> QED BY <1>1 DEF Inodes, Index, Slots

\* The names of files are neither empty nor dots.
LEMMA NamesProper ==
  /\ NoName \notin Names /\ "." \notin Names /\ ".." \notin Names
  /\ NoName # "." /\ NoName # ".."
  <1>1. Names \cap {".", "..", NoName} = {}
    BY SimpleFSAssumption
  <1>2. NoName # "." /\ NoName # ".."
    BY DEF NoName
  <1> QED BY <1>1, <1>2

\* A nonempty set of natural numbers has a least element.
LEMMA Least ==
  ASSUME NEW S \in SUBSET Nat, S # {}
  PROVE  \E x \in S : \A y \in S : x <= y
  <1>1. PICK s \in S : TRUE
    OBVIOUS
  <1> DEFINE T == {y \in S : y <= s}
             Below(x) == {y \in T : y <= x}
             F == {Below(x) : x \in T}
  <1>2. IsFiniteSet(T)
    <2>1. T \in SUBSET Nat /\ s \in Nat /\ \A t \in T : t <= s
      OBVIOUS
    <2> QED BY <2>1, FS_BoundedSetOfNaturals
  <1>3. F \subseteq FiniteSubsetsOf(T)
    BY <1>2, FS_FiniteSubsetsOfFinite
  <1>4. F # {}
    <2>1. s \in T
      OBVIOUS
    <2>2. Below(s) \in F
      BY <2>1
    <2> HIDE DEF F
    <2> QED BY <2>2
  <1>5. IsWellFoundedOn(StrictSubsetOrdering(T), FiniteSubsetsOf(T))
    BY FS_StrictSubsetOrderingWellFounded
  <1>6. PICK U \in F : \A V \in F : ~(<<V, U>> \in StrictSubsetOrdering(T))
    BY <1>3, <1>4, <1>5, WFMin
  <1>7. PICK x \in T : U = Below(x)
    OBVIOUS
  <1>8. ASSUME NEW y \in T, y < x PROVE FALSE
    <2>1. \A z \in Below(y) : z \in U
      BY <1>7, <1>8
    <2>2. x \in U /\ x \notin Below(y)
      BY <1>7, <1>8
    <2>3. <<Below(y), U>> \in (SUBSET T) \X (SUBSET T)
      BY <1>7
    <2>4. Below(y) \in F
      BY <1>8
    <2> HIDE DEF Below, F
    <2>5. Below(y) \subseteq U /\ Below(y) # U
      BY <2>1, <2>2
    <2>6. <<Below(y), U>> \in StrictSubsetOrdering(T)
      BY <2>3, <2>5 DEF StrictSubsetOrdering
    <2> QED BY <1>6, <2>4, <2>6
  <1>9. x \in S /\ \A y \in S : x <= y
    BY <1>8
  <1> QED BY <1>9

\* Formatting puts the root directory in a sector of the data area.
LEMMA FirstBlockIsBlock == FirstBlock \in Blocks
  <1>1. Blocks # {}
    <2>1. Cardinality({}) = 0
      BY FS_EmptySet
    <2>2. \A x, y \in Nat : x * y >= 0
      OBVIOUS
    <2>3. InodeCount * Direct >= 0 /\ InodeCount * Direct \in Int
      BY <2>2, Constants
    <2>4. Cardinality(Blocks) > InodeCount * Direct
      BY SimpleFSAssumption
    <2> QED BY <2>1, <2>3, <2>4
  <1>2. \E b \in Blocks : \A c \in Blocks : b <= c
    BY <1>1, Least, Constants
  <1> QED BY <1>2 DEF FirstBlock

\* FormatClear comes by every inode.
LEMMA SectorInTable == ASSUME NEW i \in Inodes PROVE SectorOf(i) \in Nat /\ SectorOf(i) < InodeSectors
  <1> DEFINE q == i \div PerSector
             m == InodeCount + PerSector - 1
             r == m \div PerSector
  <1>0. InodeCount \in Nat /\ InodeCount > 0 /\ PerSector \in Nat /\ PerSector > 0
    BY Constants
  <1>1. i \in Nat /\ m \in Nat /\ i <= InodeCount - 1
    BY <1>0 DEF Inodes
  <1>2. \A x, n \in Nat : n > 0 => /\ x \div n \in Nat /\ (x \div n) * n <= x
                                  /\ x < ((x \div n) * n) + n
    OBVIOUS
  <1>3. q \in Nat /\ r \in Nat /\ q * PerSector <= i /\ m < (r * PerSector) + PerSector
    BY <1>0, <1>1, <1>2
  <1>4. q * PerSector < r * PerSector
    <2>1. \A a, b, c, n, p \in Int : a <= b /\ b <= n - 1 /\ n + p - 1 < c + p => a < c
      OBVIOUS
    <2>2. q * PerSector \in Int /\ r * PerSector \in Int
      BY <1>0, <1>3
    <2> HIDE DEF q, r
    <2> QED BY <1>0, <1>1, <1>3, <2>1, <2>2
  <1> HIDE DEF q, r, m
  <1>5. \A x, y, n \in Nat : x * n < y * n => x < y
    OBVIOUS
  <1>6. q < r
    BY <1>0, <1>3, <1>4, <1>5
  <1> QED BY <1>3, <1>6 DEF SectorOf, InodeSectors, q, r, m

\* The inodes the code puts together are inodes.
LEMMA InodeTypes ==
  /\ ZeroInode \in InodeType
  /\ \A isdir \in BOOLEAN :
       /\ NewInode(isdir) \in InodeType /\ NewInode(isdir).used /\ NewInode(isdir).dir = isdir
       /\ NewInode(isdir).size = 0 /\ \A j \in Index : NewInode(isdir).blocks[j] = 0
  <1>1. ZeroInode \in InodeType
    <2>1. 0 \in 0..(SizeMod - 1) /\ [j \in Index |-> 0] \in [Index -> Blocks \cup {0}]
      BY Constants
    <2> QED BY <2>1 DEF ZeroInode, InodeType
  <1> QED BY <1>1 DEF NewInode, InodeType, ZeroInode

\* Writing the buffer of a sector that was read before changes the one inode.
LEMMA FlushSets ==
  ASSUME inode \in [Inodes -> InodeType], NEW o, NEW v, o.ino \in Inodes,
         o.sec = [inode EXCEPT ![o.ino] = v]
  PROVE  Flush(o) = [inode EXCEPT ![o.ino] = v]
  BY DEF Flush

\* A free block is a block of no inode in use.
LEMMA FreeBlock ==
  ASSUME NEW b \in Blocks \ UsedBlocks(inode), NEW i \in Inodes, inode[i].used, NEW j \in Index
  PROVE  inode[i].blocks[j] # b
  <1>1. <<i, j>> \in {k \in Inodes \X Index : inode[k[1]].used}
    OBVIOUS
  <1>2. inode[i].blocks[j] \in UsedBlocks(inode)
    BY <1>1 DEF UsedBlocks
  <1> QED BY <1>2
-----------------------------------------------------------------------------
(* What a sector write does to a sound disk *)

\* A directory's table is a table.
LEMMA TableType ==
  ASSUME Types, NEW d \in Inodes, IsDir(d)
  PROVE  /\ inode[d].blocks[0] \in Blocks /\ Table(d) \in [Slots -> EntryType]
         /\ \A s \in Slots : Table(d)[s].ino \in Inodes
  <1>1. inode[d] \in InodeType
    BY DEF Types
  <1>2. inode[d].blocks[0] \in Blocks
    BY <1>1, Constants DEF InodeType, IsDir
  <1>3. data[inode[d].blocks[0]] \in SectorType
    BY <1>2 DEF Types
  <1>4. Table(d) \in [Slots -> EntryType]
    BY <1>3 DEF Table, SectorType
  <1> QED BY <1>2, <1>4 DEF EntryType

\* As long as directories keep their tables and nothing in use changes its kind, the tree
\* stays sound.
LEMMA TreeKept ==
  ASSUME DiskInv, Types,
         \A d \in Inodes : IsDir(d)' <=> IsDir(d),
         \A d \in Inodes : IsDir(d) => Table(d)' = Table(d),
         \A i \in Inodes : inode[i].used => inode'[i].used /\ inode'[i].dir = inode[i].dir
  PROVE  IsDir(0)' /\ DirInv' /\ OneName'
  <1>1. \A d \in Inodes, s \in Slots : IsDir(d) => Table(d)[s].ino \in Inodes
    BY TableType
  <1>2. IsDir(0)'
    BY Constants DEF DiskInv
  <1>3. \A d \in Inodes, s \in Slots : IsDir(d) => (Proper(d, s)' <=> Proper(d, s))
    BY DEF Proper
  <1>4. ASSUME NEW d \in Inodes, IsDir(d) PROVE TableInv(d)'
    <2>1. TableInv(d)
      BY <1>4 DEF DiskInv, DirInv
    <2>2. ASSUME NEW s \in Slots, Proper(d, s)
          PROVE  LET i == Table(d)[s].ino
                 IN /\ i \in Inodes /\ inode'[i].used
                    /\ inode'[i].dir => IsDir(i)' /\ Table(i)'[2].ino = d
      BY <1>1, <1>4, <2>1, <2>2 DEF TableInv
    <2> QED BY <1>3, <1>4, <2>1, <2>2 DEF TableInv
  <1>5. DirInv'
    BY <1>4 DEF DirInv
  <1>6. OneName'
    BY <1>3 DEF OneName, DiskInv
  <1> QED BY <1>2, <1>5, <1>6

\* A step that writes no sector.
LEMMA DiskKept ==
  ASSUME DiskInv, Types, inode' = inode, data' = data
  PROVE  DiskInv'
  <1>1. \A d \in Inodes : (IsDir(d)' <=> IsDir(d)) /\ Table(d)' = Table(d)
    BY DEF IsDir, Table
  <1>2. Disjoint'
    BY DEF DiskInv, Disjoint
  <1> QED BY <1>1, <1>2, TreeKept DEF DiskInv

\* Inode i is set to v: nothing that was in use changes its kind or loses a block, and what
\* was not in use starts empty.
SetInode(i, v) ==
  /\ inode' = [inode EXCEPT ![i] = v] /\ v \in InodeType /\ v.used
  /\ inode[i].used => v.dir = inode[i].dir /\ \A j \in Index : inode[i].blocks[j] \in {0, v.blocks[j]}
  /\ ~inode[i].used => \A j \in Index : v.blocks[j] = 0

\* An inode that takes no block but free ones leaves the blocks disjoint.
LEMMA DisjointKept ==
  ASSUME Disjoint, Types, NEW i \in Inodes, NEW v, SetInode(i, v), NEW m \in Index,
         \/ \A j \in Index : v.blocks[j] = 0
         \/ /\ inode[i].used /\ \A j \in Index \ {m} : v.blocks[j] = inode[i].blocks[j]
            /\ v.blocks[m] \in (Blocks \ UsedBlocks(inode)) \cup {inode[i].blocks[m]}
  PROVE  Disjoint'
  <1>1. inode'[i] = v /\ \A k \in Inodes \ {i} : inode'[k] = inode[k]
    BY DEF SetInode, Types
  <1>2. CASE \A j \in Index : v.blocks[j] = 0
    BY <1>1, <1>2 DEF Disjoint
  <1>3. CASE /\ inode[i].used /\ \A j \in Index \ {m} : v.blocks[j] = inode[i].blocks[j]
             /\ v.blocks[m] \in (Blocks \ UsedBlocks(inode)) \cup {inode[i].blocks[m]}
    <2>1. CASE v.blocks[m] = inode[i].blocks[m]
      <3>1. \A j \in Index : v.blocks[j] = inode[i].blocks[j]
        BY <1>3, <2>1
      <3>2. \A k \in Inodes : inode'[k].used => inode[k].used /\ \A j \in Index : inode'[k].blocks[j] = inode[k].blocks[j]
        BY <1>1, <1>3, <3>1
      <3> QED BY <3>2 DEF Disjoint
    <2>2. CASE v.blocks[m] \in Blocks \ UsedBlocks(inode)
      <3>1. \A k \in Inodes, j \in Index : inode[k].used => inode[k].blocks[j] # v.blocks[m]
        BY <2>2, FreeBlock
      <3>2. v.blocks[m] # 0
        BY <2>2, Constants
      <3>3. \A k \in Inodes : inode'[k].used =>
              inode[k].used /\ \A j \in Index : <<k, j>> # <<i, m>> => inode'[k].blocks[j] = inode[k].blocks[j]
        BY <1>1, <1>3
      <3> QED BY <1>1, <3>1, <3>2, <3>3 DEF Disjoint
    <2> QED BY <1>3, <2>1, <2>2
  <1> QED BY <1>2, <1>3

\* Directories stay what they are and keep their tables.
TablesKept == \A d \in Inodes : (IsDir(d)' <=> IsDir(d)) /\ (IsDir(d) => Table(d)' = Table(d))

\* The inode sectors that create and write put on the disk.
LEMMA SetInodeKeepsDisk ==
  ASSUME DiskInv, Types, NEW i \in Inodes, NEW v, SetInode(i, v), data' = data, NEW m \in Index,
         v.dir => v.blocks[0] = inode[i].blocks[0] \/ ~inode[i].used,
         \/ ~inode[i].used
         \/ /\ inode[i].used /\ \A j \in Index \ {m} : v.blocks[j] = inode[i].blocks[j]
            /\ v.blocks[m] \in (Blocks \ UsedBlocks(inode)) \cup {inode[i].blocks[m]}
  PROVE  DiskInv' /\ TablesKept
  <1>1. inode'[i] = v /\ \A k \in Inodes \ {i} : inode'[k] = inode[k]
    BY DEF SetInode, Types
  <1>2. \A d \in Inodes : IsDir(d)' <=> IsDir(d)
    BY <1>1, Constants DEF IsDir, SetInode
  <1>3. \A d \in Inodes : IsDir(d) => Table(d)' = Table(d)
    BY <1>1, Constants DEF IsDir, SetInode, Table
  <1>4. \A k \in Inodes : inode[k].used => inode'[k].used /\ inode'[k].dir = inode[k].dir
    BY <1>1 DEF SetInode
  <1>5. Disjoint'
    BY DisjointKept DEF SetInode, DiskInv
  <1> QED BY <1>2, <1>3, <1>4, <1>5, TreeKept DEF DiskInv, TablesKept

\* The data sectors that mkdir and write put on the disk are not tables of directories.
LEMMA SetDataKeepsDisk ==
  ASSUME DiskInv, Types, NEW b \in Blocks, NEW x, data' = [data EXCEPT ![b] = x], inode' = inode,
         \A d \in Inodes : IsDir(d) => inode[d].blocks[0] # b
  PROVE  DiskInv' /\ TablesKept
  <1>1. \A d \in Inodes : IsDir(d)' <=> IsDir(d)
    BY DEF IsDir
  <1>2. \A d \in Inodes : IsDir(d) => inode[d].blocks[0] \in Blocks
    BY TableType
  <1>3. \A d \in Inodes : IsDir(d) => Table(d)' = Table(d)
    BY <1>2 DEF Table, Types
  <1>4. Disjoint'
    BY DEF DiskInv, Disjoint
  <1> QED BY <1>1, <1>3, <1>4, TreeKept DEF DiskInv, TablesKept

\* The fields of an entry.
LEMMA EntryIs == ASSUME NEW e, NEW n, NEW i, e = [name |-> n, ino |-> i] PROVE e.name = n /\ e.ino = i
  OBVIOUS

\* The table of a new directory has no entries yet.
LEMMA DirTableIs ==
  ASSUME NEW i \in Inodes, NEW p \in Inodes
  PROVE  /\ DirTable(i, p) \in [Slots -> EntryType]
         /\ DirTable(i, p)[1].name = "." /\ DirTable(i, p)[1].ino = i
         /\ DirTable(i, p)[2].name = ".." /\ DirTable(i, p)[2].ino = p
         /\ \A s \in Slots : s # 1 /\ s # 2 => DirTable(i, p)[s].name = NoName
         /\ \A s \in Slots : DirTable(i, p)[s].name \notin Names
  <1> DEFINE T == DirTable(i, p)
  <1>1. T[1] = [name |-> ".", ino |-> i]
    BY Constants DEF DirTable
  <1>2. T[2] = [name |-> "..", ino |-> p]
    BY Constants DEF DirTable
  <1>3. \A s \in Slots : s # 1 /\ s # 2 => T[s] = [name |-> NoName, ino |-> 0]
    BY DEF DirTable, NoEntry
  <1>4. DOMAIN T = Slots /\ T = [s \in DOMAIN T |-> T[s]]
    BY DEF DirTable
  <1> HIDE DEF T
  <1>5. \A s \in Slots : T[s] \in EntryType
    <2>1. \A n \in Names \cup {".", "..", NoName}, k \in Inodes : [name |-> n, ino |-> k] \in EntryType
      BY DEF EntryType
    <2> QED BY <1>1, <1>2, <1>3, <2>1, Constants
  <1>6. T \in [Slots -> EntryType]
    BY <1>4, <1>5
  <1>7. /\ T[1].name = "." /\ T[1].ino = i /\ T[2].name = ".." /\ T[2].ino = p
        /\ \A s \in Slots : s # 1 /\ s # 2 => T[s].name = NoName
    <2>1. T[1].name = "." /\ T[1].ino = i
      BY <1>1, EntryIs
    <2>2. T[2].name = ".." /\ T[2].ino = p
      BY <1>2, EntryIs
    <2>3. \A s \in Slots : s # 1 /\ s # 2 => T[s].name = NoName
      BY <1>3
    <2> QED BY <2>1, <2>2, <2>3
  <1>8. \A s \in Slots : T[s].name \notin Names
    BY <1>7, NamesProper
  <1> QED BY <1>6, <1>7, <1>8 DEF T

\* Inode i, with block b, becomes v.
GivesBlock(i, b, v) ==
  v = [inode[i] EXCEPT !.blocks[0] = b] /\ inode' = [inode EXCEPT ![i] = v] /\ data' = data

\* mkdir gives the new directory, which no entry names, its block.
LEMMA DirInodeKeepsDisk ==
  ASSUME DiskInv, Types, NEW i \in Inodes, NEW p \in Inodes, NEW b \in Blocks \ UsedBlocks(inode),
         inode[i] = NewInode(TRUE), Unnamed(i), data[b].table = DirTable(i, p),
         NEW v, GivesBlock(i, b, v)
  PROVE  /\ DiskInv' /\ SetInode(i, v) /\ Unnamed(i)' /\ IsDir(i)' /\ Table(i)' = DirTable(i, p)
         /\ \A d \in Inodes : IsDir(d) => d # i /\ IsDir(d)' /\ Table(d)' = Table(d)
  <1> USE DEF GivesBlock
  <1>1. inode'[i] = v /\ \A k \in Inodes \ {i} : inode'[k] = inode[k]
    BY DEF Types
  <1>2. /\ v \in InodeType /\ v.used /\ v.dir /\ v.blocks[0] = b /\ b # 0
        /\ \A l \in Index \ {0} : v.blocks[l] = inode[i].blocks[l]
    <2>1. inode[i] \in InodeType /\ b \in Blocks \cup {0} /\ b # 0 /\ 0 \in Index
      BY Constants DEF Types
    <2>2. inode[i].used /\ inode[i].dir
      BY InodeTypes
    <2>3. /\ v \in InodeType /\ v.used = inode[i].used /\ v.dir = inode[i].dir
          /\ v.blocks[0] = b /\ \A l \in Index \ {0} : v.blocks[l] = inode[i].blocks[l]
      BY <2>1 DEF InodeType
    <2> QED BY <2>1, <2>2, <2>3
  <1>3. inode[i].used /\ inode[i].dir /\ \A j \in Index : inode[i].blocks[j] = 0
    BY InodeTypes
  <1>4. SetInode(i, v)
    BY <1>2, <1>3 DEF SetInode
  <1>5. Disjoint'
    <2>1. 0 \in Index /\ v.blocks[0] \in (Blocks \ UsedBlocks(inode)) \cup {inode[i].blocks[0]}
      BY <1>2, Constants
    <2> QED BY <1>2, <1>3, <1>4, <2>1, DisjointKept DEF DiskInv
  <1>6. ~IsDir(i) /\ IsDir(i)' /\ Table(i)' = DirTable(i, p)
    BY <1>1, <1>2, <1>3, Constants DEF IsDir, Table
  <1>7. \A d \in Inodes \ {i} : (IsDir(d)' <=> IsDir(d)) /\ Table(d)' = Table(d)
    BY <1>1 DEF IsDir, Table
  <1>a. /\ Table(i)'[1].name = "." /\ Table(i)'[1].ino = i /\ Table(i)'[2].name = ".."
        /\ \A s \in Slots : s # 1 /\ s # 2 => Table(i)'[s].name = NoName
        /\ \A s \in Slots : Table(i)'[s].name \notin Names
    <2>1. PICK T : T = DirTable(i, p)
      OBVIOUS
    <2>2. /\ T[1].name = "." /\ T[1].ino = i /\ T[2].name = ".."
          /\ \A s \in Slots : s # 1 /\ s # 2 => T[s].name = NoName
          /\ \A s \in Slots : T[s].name \notin Names
      BY <2>1, DirTableIs
    <2> QED BY <1>6, <2>1, <2>2
  <1>8. \A s \in Slots : ~Proper(i, s)'
    BY <1>a DEF Proper
  <1>9. \A d \in Inodes \ {i}, s \in Slots : Proper(d, s)' <=> Proper(d, s)
    BY <1>7 DEF Proper
  <1>10. TableInv(i)'
    BY <1>8, <1>a, NamesProper DEF TableInv
  <1>11. ASSUME NEW d \in Inodes \ {i}, IsDir(d) PROVE TableInv(d)'
    <2>1. TableInv(d)
      BY <1>11 DEF DiskInv, DirInv
    <2>2. \A s \in Slots : Table(d)[s].ino \in Inodes
      BY <1>11, TableType
    <2>3. ASSUME NEW s \in Slots, Proper(d, s)
          PROVE  /\ inode'[Table(d)[s].ino].used
                 /\ (inode[Table(d)[s].ino].dir => IsDir(Table(d)[s].ino) /\ Table(Table(d)[s].ino)[2].ino = d)'
      <3>1. PICK k \in Inodes : k = Table(d)[s].ino
        BY <2>2
      <3>2. k # i /\ inode'[k] = inode[k] /\ Table(d)' = Table(d)
        BY <1>1, <1>7, <1>11, <2>3, <3>1 DEF Unnamed
      <3>3. inode[k].used /\ (inode[k].dir => IsDir(k) /\ Table(k)[2].ino = d)
        BY <2>1, <2>3, <3>1 DEF TableInv
      <3>4. inode'[k].used /\ (inode'[k].dir => IsDir(k)' /\ Table(k)'[2].ino = d)
        BY <1>7, <3>2, <3>3
      <3>5. k = Table(d)'[s].ino
        BY <3>1, <3>2
      <3> QED BY <3>1, <3>4, <3>5
    <2>4. Table(d)' = Table(d) /\ \A s \in Slots : Proper(d, s)' <=> Proper(d, s)
      BY <1>7, <1>9
    <2>5. /\ Table(d)'[1].name = "." /\ Table(d)'[1].ino = d /\ Table(d)'[2].name = ".."
          /\ \A s \in Slots : s # 1 /\ s # 2 => Table(d)'[s].name # "." /\ Table(d)'[s].name # ".."
      BY <2>1, <2>4 DEF TableInv
    <2>6. ASSUME NEW s \in Slots, Proper(d, s)'
          PROVE  /\ (inode[Table(d)[s].ino].used /\ Table(d)[s].ino # 0)'
                 /\ (inode[Table(d)[s].ino].dir => IsDir(Table(d)[s].ino) /\ Table(Table(d)[s].ino)[2].ino = d)'
                 /\ \A r \in Slots : Table(d)'[r].name = Table(d)'[s].name => r = s
      <3>1. Proper(d, s) /\ Table(d)' = Table(d)
        BY <2>4, <2>6
      <3>2. Table(d)[s].ino # 0 /\ \A r \in Slots : Table(d)[r].name = Table(d)[s].name => r = s
        BY <2>1, <3>1 DEF TableInv
      <3> QED BY <2>3, <3>1, <3>2
    <2> QED BY <2>5, <2>6 DEF TableInv
  <1>12. DirInv'
    BY <1>7, <1>10, <1>11 DEF DirInv
  <1>13. OneName'
    BY <1>7, <1>8, <1>9 DEF DiskInv, OneName
  <1>14. Unnamed(i)'
    BY <1>7, <1>8, <1>9 DEF Unnamed
  <1>15. IsDir(0)'
    BY <1>6, <1>7, Constants DEF DiskInv
  <1> QED BY <1>4, <1>5, <1>6, <1>7, <1>12, <1>13, <1>14, <1>15 DEF DiskInv

\* Slot s of directory p is set to inode i's name n, which makes its table t.
Enters(p, s, n, i, t) ==
  /\ t = [Table(p) EXCEPT ![s] = [name |-> n, ino |-> i]]
  /\ data' = [data EXCEPT ![inode[p].blocks[0]] = TableSector(t)] /\ inode' = inode

\* The last write of create and mkdir: the name goes into an empty slot.
LEMMA EntryKeepsDisk ==
  ASSUME DiskInv, Types, NEW p \in Inodes, IsDir(p), NEW i \in Inodes, i # 0, NEW n \in Names,
         Unnamed(i), inode[i].used, inode[i].dir => IsDir(i) /\ Table(i)[2].ino = p,
         \A s \in Slots : Table(p)[s].name # n,
         NEW s \in EmptySlots(p), NEW t, Enters(p, s, n, i, t)
  PROVE  DiskInv' /\ t \in [Slots -> EntryType]
  <1> USE DEF Enters
  <1>1. /\ inode[p].blocks[0] \in Blocks /\ Table(p) \in [Slots -> EntryType] /\ s \in Slots
        /\ Table(p)[s].name = NoName
    <2>1. s \in Slots /\ Table(p)[s] = [name |-> NoName, ino |-> 0]
      BY DEF EmptySlots, NoEntry
    <2>2. Table(p)[s].name = NoName
      BY <2>1, EntryIs
    <2> QED BY <2>1, <2>2, TableType
  <1>2. /\ t[s].name = n /\ t[s].ino = i /\ \A r \in Slots \ {s} : t[r] = Table(p)[r]
        /\ t \in [Slots -> EntryType]
    <2>1. [name |-> n, ino |-> i] \in EntryType
      BY DEF EntryType
    <2> QED BY <1>1, <2>1
  <1>3. \A d \in Inodes : IsDir(d)' <=> IsDir(d)
    BY DEF IsDir
  <1>4. Table(p)' = t
    BY <1>1 DEF Table, Types, TableSector
  <1>5. \A d \in Inodes \ {p} : IsDir(d) => Table(d)' = Table(d)
    <2>1. \A d \in Inodes \ {p} : IsDir(d) => inode[d].blocks[0] \in Blocks /\ inode[d].blocks[0] # inode[p].blocks[0]
      BY <1>1, TableType, Constants DEF IsDir, DiskInv, Disjoint
    <2> QED BY <2>1 DEF Table, Types
  <1>6. s # 1 /\ s # 2 /\ TableInv(p)
    <2>1. TableInv(p)
      BY DEF DiskInv, DirInv
    <2> QED BY <1>1, <2>1, NamesProper DEF TableInv
  <1> HIDE DEF TableSector
  <1>7. \A d \in Inodes : IsDir(d) => Table(d)'[2] = Table(d)[2]
    BY <1>2, <1>4, <1>5, <1>6, Constants
  <1>8. n # NoName /\ n # "." /\ n # ".." /\ ~Proper(p, s)
    BY <1>1, NamesProper DEF Proper
  <1>9. \A d \in Inodes, r \in Slots : IsDir(d) /\ <<d, r>> # <<p, s>> => Table(d)'[r] = Table(d)[r]
    BY <1>2, <1>4, <1>5
  <1>10. \A d \in Inodes, r \in Slots : IsDir(d) /\ <<d, r>> # <<p, s>> => (Proper(d, r)' <=> Proper(d, r))
    BY <1>9 DEF Proper
  <1>11. ASSUME NEW d \in Inodes, IsDir(d) PROVE TableInv(d)'
    <2>1. TableInv(d)
      BY <1>11 DEF DiskInv, DirInv
    <2>2. Table(d)'[1].name = "." /\ Table(d)'[1].ino = d /\ Table(d)'[2].name = ".."
      BY <1>6, <1>7, <1>9, <1>11, <2>1, Constants DEF TableInv
    <2>3. \A r \in Slots : r # 1 /\ r # 2 => Table(d)'[r].name # "." /\ Table(d)'[r].name # ".."
      <3>1. ASSUME NEW r \in Slots, r # 1, r # 2 PROVE Table(d)'[r].name # "." /\ Table(d)'[r].name # ".."
        <4>1. CASE <<d, r>> = <<p, s>>
          <5>1. Table(d)'[r].name = n
            BY <1>2, <1>4, <4>1
          <5> QED BY <1>8, <5>1
        <4>2. CASE <<d, r>> # <<p, s>>
          BY <1>9, <1>11, <2>1, <3>1, <4>2 DEF TableInv
        <4> QED BY <4>1, <4>2
      <3> QED BY <3>1
    <2>4. ASSUME NEW r \in Slots, Proper(d, r)'
          PROVE  /\ inode'[Table(d)'[r].ino].used /\ Table(d)'[r].ino # 0
                 /\ (inode[Table(d)[r].ino].dir => IsDir(Table(d)[r].ino) /\ Table(Table(d)[r].ino)[2].ino = d)'
      <3>1. CASE <<d, r>> = <<p, s>>
        <4>1. d = p /\ Table(d)'[r].ino = i
          BY <1>2, <1>4, <3>1
        <4> QED BY <1>3, <1>7, <4>1
      <3>2. CASE <<d, r>> # <<p, s>>
        <4>1. Proper(d, r) /\ Table(d)'[r] = Table(d)[r]
          BY <1>9, <1>10, <1>11, <2>4, <3>2
        <4>2. Table(d)[r].ino \in Inodes
          BY <1>11, TableType
        <4> QED BY <1>3, <1>7, <2>1, <4>1, <4>2 DEF TableInv
      <3> QED BY <3>1, <3>2
    <2>5. ASSUME NEW r \in Slots, Proper(d, r)', NEW q \in Slots, Table(d)'[q].name = Table(d)'[r].name
          PROVE  q = r
      <3>1. CASE d # p
        BY <1>9, <1>10, <1>11, <2>1, <2>5, <3>1 DEF TableInv
      <3>2. CASE d = p /\ r = s
        BY <1>2, <1>4, <2>5, <3>2
      <3>3. CASE d = p /\ r # s
        BY <1>2, <1>4, <1>9, <1>10, <1>11, <2>1, <2>5, <3>3 DEF TableInv
      <3> QED BY <3>1, <3>2, <3>3
    <2> QED BY <2>2, <2>3, <2>4, <2>5 DEF TableInv
  <1>12. DirInv'
    BY <1>3, <1>11 DEF DirInv
  <1>13. OneName'
    <2> SUFFICES ASSUME NEW d \in Inodes, NEW e \in Inodes, NEW q \in Slots, NEW r \in Slots,
                        IsDir(d), IsDir(e), Proper(d, q)', Proper(e, r)', Table(d)'[q].ino = Table(e)'[r].ino
                 PROVE  d = e /\ q = r
      BY <1>3 DEF OneName
    <2>1. \A c \in Inodes, x \in Slots : IsDir(c) /\ <<c, x>> # <<p, s>> /\ Proper(c, x)' => Table(c)'[x].ino # i
      BY <1>9, <1>10 DEF Unnamed
    <2>2. CASE <<d, q>> = <<p, s>> \/ <<e, r>> = <<p, s>>
      BY <1>2, <1>4, <2>1, <2>2
    <2>3. CASE <<d, q>> # <<p, s>> /\ <<e, r>> # <<p, s>>
      BY <1>9, <1>10, <2>3 DEF DiskInv, OneName
    <2> QED BY <2>2, <2>3
  <1> QED BY <1>2, <1>3, <1>12, <1>13, Constants DEF DiskInv, Disjoint
-----------------------------------------------------------------------------
(* Formatting, mounting and stopping *)

\* No call: a call that starts from here has all its fields.
LEMMA IdleIs == Idle \in CallType /\ Idle.pc = "idle" /\ Idle.j = 0
  <1>1. [i \in Inodes |-> ZeroInode] \in [Inodes -> InodeType]
    BY InodeTypes
  <1>2. EmptyTable \in [Slots -> EntryType]
    <2>1. NoEntry \in EntryType
      BY Constants DEF NoEntry, EntryType
    <2> QED BY <2>1 DEF EmptyTable
  <1>3. 0 \in 0..(SizeMod - 1) /\ 0 \in Nat /\ 0 \in Inodes
    BY Constants
  <1>4. Idle.pc = "idle" /\ Idle.j = 0
    BY DEF Idle
  <1>5. Idle \in CallType
    BY <1>1, <1>2, <1>3, InodeTypes DEF Idle, CallType
  <1> QED BY <1>4, <1>5

\* What a sector may hold.
LEMMA SectorTypes ==
  /\ TableSector(EmptyTable) \in SectorType
  /\ \A t \in [Slots -> EntryType] : TableSector(t) \in SectorType
  /\ \A i \in Inodes, j \in Index : FileSector(i, j) \in SectorType /\ FileSector(i, j).of = <<i, j>>
  <1>1. EmptyTable \in [Slots -> EntryType]
    <2>1. NoEntry \in EntryType
      BY Constants DEF NoEntry, EntryType
    <2> QED BY <2>1 DEF EmptyTable
  <1>2. \A t \in [Slots -> EntryType] : TableSector(t) \in SectorType
    BY DEF TableSector, SectorType
  <1>3. ASSUME NEW i \in Inodes, NEW j \in Index
        PROVE  FileSector(i, j) \in SectorType /\ FileSector(i, j).of = <<i, j>>
    <2>1. <<i, j>> \in {<<>>} \cup (Inodes \X Index)
      OBVIOUS
    <2> QED BY <1>1, <2>1 DEF FileSector, SectorType
  <1> QED BY <1>1, <1>2, <1>3

\* Where formatting begins.
LEMMA FSInit == Init => FSInv
  <1> SUFFICES ASSUME Init PROVE FSInv
    OBVIOUS
  <1>1. inode \in [Inodes -> InodeType]
    <2>1. PICK r \in RawInodes : inode = [i \in Inodes |-> r]
      BY DEF Init
    <2> QED BY <2>1, SimpleFSAssumption
  <1>2. data \in [Blocks -> SectorType]
    BY SectorTypes DEF Init
  <1>3. op \in [Actors -> CallType]
    BY IdleIs DEF Init
  <1>4. InodeSectors \in Nat
    BY SectorInTable, Constants DEF InodeSectors
  <1>5. Types
    <2>1. magic = FALSE /\ up = "off" /\ fmt = 0 /\ tools = 0
      BY DEF Init
    <2>2. magic \in BOOLEAN /\ up \in {"off", "format", "up"}
      BY <2>1, Zenon
    <2>3. fmt \in 0..(InodeSectors + 2)
      BY <1>4, <2>1
    <2> QED BY <1>1, <1>2, <1>3, <2>1, <2>2, <2>3 DEF Types
  <1>6. CallInv /\ FormatInv /\ ~(up = "up" \/ (up = "off" /\ magic))
    BY DEF Init, CallInv, FormatInv
  <1> QED BY <1>5, <1>6 DEF FSInv

\* PowerOn, the steps of formatting, and Crash.
LEMMA FormatKeepsInv ==
  ASSUME Orderly, FSInv,
         PowerOn \/ FormatSuper \/ FormatClear \/ FormatRootInode \/ FormatRootDir \/ Crash
  PROVE  FSInv'
  <1>1. Types
    BY DEF FSInv
  <1>a. InodeSectors \in Nat /\ fmt \in Nat /\ fmt <= InodeSectors + 2
    <2>1. InodeSectors \in Nat
      BY Constants DEF InodeSectors
    <2> QED BY <1>1, <2>1 DEF Types
  <1>2. CASE PowerOn
    <2>1. /\ up = "off" /\ fmt' = 0 /\ UNCHANGED <<magic, inode, data, op, tools>>
          /\ up' = IF magic THEN "up" ELSE "format"
      BY <1>2 DEF PowerOn, disk
    <2>2. \A a \in Actors : op[a] = Idle
      BY <2>1 DEF FSInv, CallInv
    <2>3. Types' /\ CallInv'
      BY <1>1, <1>a, <2>1, <2>2 DEF Types, CallInv
    <2>4. FormatInv'
      BY <1>a, <2>1 DEF FormatInv
    <2>5. up' = "up" \/ (up' = "off" /\ magic') => DiskInv'
      <3>1. CASE magic
        <4>1. DiskInv
          BY <2>1, <3>1 DEF FSInv
        <4> QED BY <1>1, <2>1, <4>1, DiskKept
      <3>2. CASE ~magic
        BY <2>1, <3>2
      <3> QED BY <3>1, <3>2
    <2> QED BY <2>3, <2>4, <2>5 DEF FSInv
  <1>3. CASE Crash
    <2>1. /\ up = "up" /\ up' = "off" /\ fmt' = 0 /\ op' = [a \in Actors |-> Idle]
          /\ UNCHANGED <<magic, inode, data, tools>>
      BY <1>3 DEF Crash, disk, Orderly
    <2>2. Types' /\ CallInv' /\ FormatInv'
      BY <1>1, <1>a, <2>1, IdleIs DEF Types, CallInv, FormatInv
    <2>3. DiskInv
      BY <2>1 DEF FSInv
    <2>4. DiskInv'
      BY <1>1, <2>1, <2>3, DiskKept
    <2> QED BY <2>2, <2>4 DEF FSInv
  <1>4. ASSUME up = "format" PROVE \A a \in Actors : op[a] = Idle
    BY <1>4 DEF FSInv, CallInv
  <1>5. CASE FormatSuper
    <2>1. /\ up = "format" /\ fmt' = 1 /\ magic' = TRUE /\ UNCHANGED <<inode, data, up, op, tools>>
      BY <1>5 DEF FormatSuper
    <2>2. Types' /\ CallInv'
      BY <1>1, <1>a, <1>4, <2>1 DEF Types, CallInv
    <2>3. FormatInv'
      <3>1. \A i \in Inodes : SectorOf(i) \in Nat
        BY SectorInTable
      <3>2. 1 # InodeSectors + 2
        BY <1>a
      <3> QED BY <2>1, <3>1, <3>2 DEF FormatInv, SectorOf
    <2> QED BY <2>1, <2>2, <2>3 DEF FSInv
  <1>6. CASE FormatClear
    <2>1. /\ up = "format" /\ fmt \in 1..InodeSectors /\ fmt' = fmt + 1 /\ UNCHANGED <<magic, data, up, op, tools>>
          /\ inode' = [i \in Inodes |-> IF SectorOf(i) = fmt - 1 THEN ZeroInode ELSE inode[i]]
      BY <1>6 DEF FormatClear
    <2>2. Types' /\ CallInv'
      <3>1. inode' \in [Inodes -> InodeType]
        BY <1>1, <2>1, InodeTypes DEF Types
      <3> QED BY <1>1, <1>a, <1>4, <2>1, <3>1 DEF Types, CallInv
    <2>3. FormatInv'
      <3>1. ASSUME NEW i \in Inodes, SectorOf(i) < fmt' - 1 PROVE inode'[i] = ZeroInode
        <4>1. SectorOf(i) \in Nat
          BY SectorInTable
        <4>2. SectorOf(i) = fmt - 1 \/ SectorOf(i) < fmt - 1
          BY <1>a, <2>1, <3>1, <4>1
        <4>3. SectorOf(i) < fmt - 1 => inode[i] = ZeroInode
          BY <1>a, <2>1 DEF FSInv, FormatInv
        <4> QED BY <2>1, <4>2, <4>3
      <3>2. fmt' # InodeSectors + 2
        BY <1>a, <2>1
      <3> QED BY <3>1, <3>2 DEF FormatInv, SectorOf, InodeSectors
    <2> QED BY <2>1, <2>2, <2>3 DEF FSInv
  <1>7. CASE FormatRootInode
    <2> DEFINE root == [ZeroInode EXCEPT !.used = TRUE, !.dir = TRUE, !.blocks[0] = FirstBlock]
    <2>1. /\ up = "format" /\ fmt = InodeSectors + 1 /\ fmt' = fmt + 1 /\ UNCHANGED <<magic, data, up, op, tools>>
          /\ inode' = [i \in Inodes |-> IF i = 0 THEN root
                                        ELSE IF SectorOf(i) = 0 THEN ZeroInode ELSE inode[i]]
      BY <1>7 DEF FormatRootInode
    <2>2. \A i \in Inodes : inode[i] = ZeroInode
      <3>1. fmt \in 1..(InodeSectors + 1) /\ fmt - 1 = InodeSectors
        BY <1>a, <2>1
      <3> QED BY <2>1, <3>1, SectorInTable DEF FSInv, FormatInv
    <2>3. root = [NewInode(TRUE) EXCEPT !.blocks[0] = FirstBlock]
      BY DEF NewInode, ZeroInode
    <2>4. root \in InodeType
      <3>1. NewInode(TRUE) \in InodeType
        BY InodeTypes
      <3>2. [NewInode(TRUE) EXCEPT !.blocks[0] = FirstBlock] \in InodeType
        BY <3>1, FirstBlockIsBlock, Constants DEF InodeType
      <3> QED BY <2>3, <3>2
    <2> HIDE DEF root
    <2>5. Types' /\ CallInv'
      <3>1. inode' \in [Inodes -> InodeType]
        BY <1>1, <2>1, <2>4, InodeTypes DEF Types
      <3> QED BY <1>1, <1>a, <1>4, <2>1, <3>1 DEF Types, CallInv
    <2>6. FormatInv'
      <3>1. inode'[0] = root /\ \A i \in Inodes \ {0} : inode'[i] = ZeroInode
        BY <2>1, <2>2, Constants
      <3>2. ~(fmt' \in 1..(InodeSectors + 1))
        BY <1>a, <2>1
      <3> QED BY <2>3, <3>1, <3>2 DEF FormatInv, InodeSectors, FirstBlock
    <2> QED BY <2>1, <2>5, <2>6 DEF FSInv
  <1>8. CASE FormatRootDir
    <2>1. /\ up = "format" /\ fmt = InodeSectors + 2 /\ up' = "up" /\ fmt' = 0
          /\ data' = [data EXCEPT ![FirstBlock] = TableSector(DirTable(0, 0))]
          /\ UNCHANGED <<magic, inode, op, tools>>
      BY <1>8 DEF FormatRootDir
    <2>2. /\ \A i \in Inodes \ {0} : inode[i] = ZeroInode
          /\ inode[0] = [NewInode(TRUE) EXCEPT !.blocks[0] = FirstBlock]
      BY <2>1 DEF FSInv, FormatInv
    <2>3. /\ inode[0].used /\ inode[0].dir /\ inode[0].blocks[0] = FirstBlock
          /\ \A j \in Index \ {0} : inode[0].blocks[j] = 0
      <3>1. PICK w : w = NewInode(TRUE)
        OBVIOUS
      <3>2. w \in InodeType /\ w.used /\ w.dir /\ \A j \in Index : w.blocks[j] = 0
        BY <3>1, InodeTypes
      <3>3. inode[0] = [w EXCEPT !.blocks[0] = FirstBlock]
        BY <2>2, <3>1
      <3>4. /\ inode[0].used = w.used /\ inode[0].dir = w.dir /\ inode[0].blocks[0] = FirstBlock
            /\ \A j \in Index \ {0} : inode[0].blocks[j] = w.blocks[j]
        <4>1. 0 \in Index /\ FirstBlock \in Blocks
          BY Constants, FirstBlockIsBlock
        <4>2. PICK r : r = inode[0]
          OBVIOUS
        <4>3. r = [w EXCEPT !.blocks[0] = FirstBlock]
          BY <3>3, <4>2
        <4>4. /\ r.used = w.used /\ r.dir = w.dir /\ r.blocks[0] = FirstBlock
              /\ \A j \in Index \ {0} : r.blocks[j] = w.blocks[j]
          BY <3>2, <4>1, <4>3 DEF InodeType
        <4> QED BY <4>2, <4>4
      <3> QED BY <3>2, <3>4
    <2>4. \A i \in Inodes \ {0} : ~inode[i].used
      BY <2>2 DEF ZeroInode
    <2>5. Types' /\ CallInv' /\ FormatInv'
      <3>1. TableSector(DirTable(0, 0)) \in SectorType
        BY SectorTypes, DirTableIs, Constants
      <3>2. data' \in [Blocks -> SectorType]
        BY <1>1, <2>1, <3>1 DEF Types
      <3> QED BY <1>1, <1>a, <1>4, <2>1, <3>2 DEF Types, CallInv, FormatInv
    <2>6. \A d \in Inodes : IsDir(d)' <=> d = 0
      BY <2>1, <2>3, <2>4, FirstBlockIsBlock, Constants DEF IsDir
    <2>7. Table(0)' = DirTable(0, 0)
      <3>1. Table(0)' = TableSector(DirTable(0, 0)).table
        BY <1>1, <2>1, <2>3, FirstBlockIsBlock DEF Table, Types
      <3> QED BY <3>1 DEF TableSector
    <2>8. PICK T : T = DirTable(0, 0)
      OBVIOUS
    <2>9. /\ T[1].name = "." /\ T[1].ino = 0 /\ T[2].name = ".."
          /\ \A s \in Slots : s # 1 /\ s # 2 => T[s].name = NoName
          /\ \A s \in Slots : T[s].name \notin Names
      BY <2>8, DirTableIs, Constants
    <2>10. TableInv(0)' /\ \A s \in Slots : ~Proper(0, s)'
      BY <2>7, <2>8, <2>9, NamesProper DEF TableInv, Proper
    <2>11. DirInv' /\ OneName'
      BY <2>6, <2>10 DEF DirInv, OneName
    <2>12. Disjoint'
      BY <2>1, <2>3, <2>4, Constants, FirstBlockIsBlock DEF Disjoint
    <2> QED BY <2>5, <2>6, <2>11, <2>12, Constants DEF FSInv, DiskInv
  <1> QED BY <1>2, <1>3, <1>5, <1>6, <1>7, <1>8
-----------------------------------------------------------------------------
(* The steps of a call *)

\* Where call o is right after a step.
CallOK(o) ==
  \/ o = Idle
  \/ o.pc \in {"alloc", "dirblock", "dirinode", "entry"} /\ Making(o)
  \/ o.pc \in {"claim", "data", "size"} /\ Writing(o)

\* What there is to show of a step of the only call in progress.
LEMMA StepInv ==
  ASSUME FSInv, up = "up", UNCHANGED <<magic, up, fmt, tools>>, NEW a \in Actors, NEW o \in CallType,
         op' = [op EXCEPT ![a] = o], \A c \in Actors : c # a => op[c] = Idle,
         inode' \in [Inodes -> InodeType], data' \in [Blocks -> SectorType], DiskInv', CallOK(o)'
  PROVE  FSInv'
  <1>1. op'[a] = o /\ \A c \in Actors : c # a => op'[c] = Idle
    BY DEF FSInv, Types
  <1>2. Types'
    BY DEF FSInv, Types
  <1>3. CASE o = Idle
    BY <1>1, <1>2, <1>3 DEF FSInv, CallInv, FormatInv
  <1>4. CASE (o.pc \in {"alloc", "dirblock", "dirinode", "entry"} /\ Making(o))'
    <2>1. \A c \in Actors : op'[c] # Idle => c = a
      BY <1>1
    <2>2. o.pc # "idle" /\ ~(o.pc \in {"claim", "data", "size"})
      BY <1>4
    <2>3. CallInv'
      BY <1>1, <1>4, <2>1, <2>2 DEF CallInv
    <2> QED BY <1>2, <2>3 DEF FSInv, FormatInv
  <1>5. CASE (o.pc \in {"claim", "data", "size"} /\ Writing(o))'
    <2>1. \A c \in Actors : op'[c] # Idle => c = a
      BY <1>1
    <2>2. o.pc # "idle" /\ o.pc \in {"claim", "data", "size"}
      BY <1>5
    <2>3. CallInv'
      BY <1>1, <1>5, <2>1, <2>2 DEF CallInv
    <2> QED BY <1>2, <2>3 DEF FSInv, FormatInv
  <1> QED BY <1>3, <1>4, <1>5 DEF CallOK

\* A call that may go on is the only one, on a mounted disk; and what it has done so far.
LEMMA InCall ==
  ASSUME Orderly, FSInv, NEW a \in Actors, NEW pc, MayStep(a, pc), pc # "idle"
  PROVE  /\ up = "up" /\ Types /\ DiskInv /\ op[a] \in CallType /\ op[a].pc = pc
         /\ \A c \in Actors : c # a => op[c] = Idle
         /\ pc \in {"claim", "data", "size"} => Writing(op[a])
         /\ pc \notin {"claim", "data", "size"} => Making(op[a])
  <1>1. op[a].pc = pc /\ op[a] # Idle
    BY IdleIs DEF MayStep
  <1>2. up = "up" /\ \A c \in Actors : c # a => op[c] = Idle
    BY <1>1 DEF FSInv, CallInv
  <1>3. Types /\ DiskInv /\ op[a] \in CallType
    BY <1>2 DEF FSInv, Types
  <1> QED BY <1>1, <1>2, <1>3 DEF FSInv, CallInv

\* A call that may start is alone.
LEMMA AtStart ==
  ASSUME Orderly, FSInv, NEW a \in Actors, MayStart(a)
  PROVE  up = "up" /\ Types /\ DiskInv /\ \A c \in Actors : op[c] = Idle
  BY DEF MayStart, Orderly, FSInv

\* A call that ends or fails without a write.
LEMMA FailKeepsInv ==
  ASSUME Orderly, FSInv, up = "up", NEW a \in Actors, \A c \in Actors : c # a => op[c] = Idle,
         Fail(a), UNCHANGED <<magic, inode, data, up, fmt, tools>>
  PROVE  FSInv'
  <1>1. Types /\ DiskInv
    BY DEF FSInv
  <1>2. inode' \in [Inodes -> InodeType] /\ data' \in [Blocks -> SectorType]
    BY <1>1 DEF Types
  <1>3. DiskInv'
    BY <1>1, DiskKept
  <1>4. CallOK(Idle)'
    BY DEF CallOK
  <1> QED BY <1>2, <1>3, <1>4, IdleIs, StepInv DEF Fail

\* create and mkdir up to their first write.
LEMMA MakeBeginKeepsInv ==
  ASSUME Orderly, FSInv, NEW a \in Actors, NEW d \in Inodes, NEW n \in Names, NEW isdir \in BOOLEAN,
         MakeBegin(a, d, n, isdir)
  PROVE  FSInv'
  <1>1. /\ up = "up" /\ Types /\ DiskInv /\ \A c \in Actors : op[c] = Idle
        /\ UNCHANGED <<magic, inode, data, up, fmt, tools>> /\ IsDir(d)
    BY AtStart DEF MakeBegin, disk, Dirs
  <1>2. CASE Fail(a)
    BY <1>1, <1>2, FailKeepsInv
  <1>3. ASSUME ~Taken(d, n), NEW i \in FreeInodes,
               LET new == [ZeroInode EXCEPT !.used = TRUE, !.dir = isdir]
               IN Goto(a, [Idle EXCEPT !.pc = "alloc", !.dir = d, !.name = n, !.isdir = isdir,
                                       !.ino = i, !.sec = Sector(inode, i, new)])
        PROVE  FSInv'
    <2>0. PICK sec : sec = [inode EXCEPT ![i] = NewInode(isdir)]
      OBVIOUS
    <2>a. PICK o : o = [Idle EXCEPT !.pc = "alloc", !.dir = d, !.name = n, !.isdir = isdir, !.ino = i, !.sec = sec]
      OBVIOUS
    <2>1. i \in Inodes /\ ~inode[i].used /\ op' = [op EXCEPT ![a] = o]
      BY <1>3, <2>0, <2>a DEF FreeInodes, Goto, Sector, NewInode
    <2>2. sec \in [Inodes -> InodeType]
      BY <1>1, <2>0, <2>1, InodeTypes DEF Types
    <2>3. /\ o \in CallType /\ o.pc = "alloc" /\ o.dir = d /\ o.name = n /\ o.isdir = isdir
          /\ o.ino = i /\ o.sec = sec
      BY <2>a, <2>1, <2>2, IdleIs DEF CallType
    <2>4. i # 0
      BY <1>1, <2>1 DEF DiskInv, IsDir
    <2>5. Unnamed(i)
      BY <1>1, <2>1 DEF DiskInv, DirInv, TableInv, Unnamed
    <2>6. \A s \in Slots : Table(d)[s].name # n
      BY <1>3 DEF Taken, Lookup
    <2>7. (\A k \in Inodes : IsDir(k)' <=> IsDir(k)) /\ \A k \in Inodes : Table(k)' = Table(k)
      BY <1>1 DEF IsDir, Table
    <2>b. Unnamed(i)'
      BY <2>5, <2>7 DEF Unnamed, Proper
    <2>8. Making(o)'
      BY <1>1, <2>0, <2>1, <2>3, <2>4, <2>b, <2>6, <2>7 DEF Making
    <2>9. DiskInv' /\ inode' \in [Inodes -> InodeType] /\ data' \in [Blocks -> SectorType]
      BY <1>1, DiskKept DEF Types
    <2>10. CallOK(o)'
      BY <2>3, <2>8 DEF CallOK
    <2> QED BY <1>1, <2>1, <2>3, <2>9, <2>10, StepInv
  <1> QED BY <1>2, <1>3 DEF MakeBegin

\* The number of blocks of a write.
LEMMA NeededNat == ASSUME NEW z \in 0..(SizeMod - 1) PROVE Needed(z) \in Nat
  <1>1. (z + SectorSize - 1) % SizeMod \in Nat
    BY Constants
  <1>2. \A x \in Nat : x \div SectorSize \in Nat
    BY Constants
  <1> QED BY <1>1, <1>2 DEF Needed

\* The first o.j blocks of o's file are there and have been written.
Filled(o) ==
  \A k \in Index : k < o.j => inode[o.ino].blocks[k] # 0 /\ data[inode[o.ino].blocks[k]].of = <<o.ino, k>>

\* The loop of a write goes on from a call whose copy of the inode is current.
LEMMA WriteNextOK ==
  ASSUME Types, inode' = inode, NEW a \in Actors, NEW o \in CallType, o.mem = inode[o.ino],
         inode[o.ino].used, ~inode[o.ino].dir, o.size \in Sizes, Needed(o.size) <= Direct,
         o.j <= Needed(o.size), Filled(o)', WriteNext(a, o, inode)
  PROVE  \E q \in CallType : op' = [op EXCEPT ![a] = q] /\ CallOK(q)'
  <1>1. /\ o.ino \in Inodes /\ o.j \in Nat /\ o.size \in 0..(SizeMod - 1) /\ inode[o.ino] \in InodeType
        /\ Needed(o.size) \in Nat /\ o.mem \in InodeType
    BY NeededNat DEF CallType, Types
  <1>2. CASE o.j = Needed(o.size)
    <2>1. PICK w : w = [o.mem EXCEPT !.size = o.size]
      OBVIOUS
    <2>2. PICK sec : sec = [inode EXCEPT ![o.ino] = w]
      OBVIOUS
    <2>3. PICK q : q = [o EXCEPT !.pc = "size", !.sec = sec]
      OBVIOUS
    <2>4. op' = [op EXCEPT ![a] = q]
      BY <1>2, <2>1, <2>2, <2>3 DEF WriteNext, Goto, Sector
    <2>5. w \in InodeType
      BY <1>1, <2>1 DEF InodeType
    <2>6. sec \in [Inodes -> InodeType]
      BY <1>1, <2>2, <2>5 DEF Types
    <2>7. /\ q \in CallType /\ q.pc = "size" /\ q.sec = sec /\ q.ino = o.ino /\ q.j = o.j /\ q.size = o.size
      BY <2>3, <2>6 DEF CallType
    <2>8. sec = [inode EXCEPT ![o.ino] = [inode[o.ino] EXCEPT !.size = o.size]]
      BY <2>1, <2>2
    <2>9. Writing(q)'
      BY <1>1, <1>2, <2>7, <2>8 DEF Writing, Filled
    <2> QED BY <2>4, <2>7, <2>9 DEF CallOK
  <1>3. CASE o.j # Needed(o.size) /\ o.mem.blocks[o.j] # 0
    <2>1. PICK q : q = [o EXCEPT !.pc = "data"]
      OBVIOUS
    <2>2. op' = [op EXCEPT ![a] = q]
      BY <1>3, <2>1 DEF WriteNext, Goto
    <2>3. /\ q \in CallType /\ q.pc = "data" /\ q.mem = o.mem /\ q.ino = o.ino /\ q.j = o.j /\ q.size = o.size
      BY <2>1 DEF CallType
    <2>4. q.j < Needed(q.size)
      BY <1>1, <1>3, <2>3
    <2>5. Writing(q)'
      BY <1>1, <1>3, <2>3, <2>4 DEF Writing, Filled
    <2> QED BY <2>2, <2>3, <2>5 DEF CallOK
  <1>4. CASE o.j # Needed(o.size) /\ o.mem.blocks[o.j] = 0
    <2>1. PICK b \in Blocks : /\ IsFirstFree(b, inode)
                             /\ Goto(a, [o EXCEPT !.pc = "claim", !.mem = Claimed(o, b),
                                                  !.sec = Sector(inode, o.ino, Claimed(o, b))])
      BY <1>4 DEF WriteNext
    <2>2. PICK w : w = [o.mem EXCEPT !.blocks[o.j] = b]
      OBVIOUS
    <2>3. PICK sec : sec = [inode EXCEPT ![o.ino] = w]
      OBVIOUS
    <2>4. PICK q : q = [o EXCEPT !.pc = "claim", !.mem = w, !.sec = sec]
      OBVIOUS
    <2>5. op' = [op EXCEPT ![a] = q]
      BY <2>1, <2>2, <2>3, <2>4 DEF Goto, Sector, Claimed
    <2>6. o.j < Needed(o.size) /\ o.j \in Index
      BY <1>1, <1>4, Constants DEF Index
    <2>7. w \in InodeType
      BY <1>1, <2>2, <2>6 DEF InodeType
    <2>8. sec \in [Inodes -> InodeType]
      BY <1>1, <2>3, <2>7 DEF Types
    <2>9. /\ q \in CallType /\ q.pc = "claim" /\ q.mem = w /\ q.sec = sec /\ q.ino = o.ino
          /\ q.j = o.j /\ q.size = o.size
      BY <2>4, <2>7, <2>8 DEF CallType
    <2>10. b \in Blocks \ UsedBlocks(inode) /\ w = [inode[o.ino] EXCEPT !.blocks[o.j] = b]
      BY <2>1, <2>2 DEF IsFirstFree
    <2>11. (\E c \in Blocks \ UsedBlocks(inode) : w = [inode[o.ino] EXCEPT !.blocks[o.j] = c])'
      <3>1. b \in (Blocks \ UsedBlocks(inode))'
        BY <2>10 DEF UsedBlocks
      <3> QED BY <2>10, <3>1
    <2>12. Writing(q)'
      BY <1>1, <1>4, <2>3, <2>6, <2>9, <2>11 DEF Writing, Filled
    <2> QED BY <2>5, <2>9, <2>12 DEF CallOK
  <1> QED BY <1>2, <1>3, <1>4

\* A write up to its first sector write.
LEMMA WriteBeginKeepsInv ==
  ASSUME Orderly, FSInv, NEW a \in Actors, NEW d \in Inodes, NEW n \in Names, NEW size \in Sizes,
         WriteBegin(a, d, n, size)
  PROVE  FSInv'
  <1>1. /\ up = "up" /\ Types /\ DiskInv /\ \A c \in Actors : op[c] = Idle
        /\ UNCHANGED <<magic, inode, data, up, fmt, tools>> /\ IsDir(d)
    BY AtStart DEF WriteBegin, disk, Dirs
  <1>2. PICK i \in Lookup(d, n) :
          IF inode[i].dir \/ Needed(size) > Direct THEN Fail(a)
          ELSE WriteNext(a, [Idle EXCEPT !.ino = i, !.mem = inode[i], !.size = size], inode)
    BY DEF WriteBegin
  <1>3. i \in Inodes /\ inode[i].used
    <2>1. PICK s \in Slots : Table(d)[s].name = n /\ Table(d)[s].ino = i
      BY DEF Lookup
    <2>2. TableInv(d) /\ Proper(d, s)
      BY <1>1, <2>1 DEF DiskInv, DirInv, Proper
    <2> QED BY <1>1, <2>1, <2>2, TableType DEF TableInv
  <1>4. CASE inode[i].dir \/ Needed(size) > Direct
    BY <1>1, <1>2, <1>4, FailKeepsInv
  <1>5. CASE ~(inode[i].dir \/ Needed(size) > Direct)
    <2>1. PICK m : m = inode[i]
      OBVIOUS
    <2>2. PICK o : o = [Idle EXCEPT !.ino = i, !.mem = m, !.size = size]
      OBVIOUS
    <2>3. m \in InodeType /\ size \in 0..(SizeMod - 1) /\ Needed(size) \in Nat
      BY <1>1, <1>3, <2>1, Constants, NeededNat DEF Types
    <2>4. o \in CallType /\ o.ino = i /\ o.mem = m /\ o.size = size /\ o.j = 0
      BY <1>3, <2>2, <2>3, IdleIs DEF CallType
    <2>5. WriteNext(a, o, inode)
      BY <1>2, <1>5, <2>1, <2>2
    <2>6. Filled(o)'
      BY <2>4, Constants DEF Filled
    <2>7. Needed(o.size) <= Direct /\ o.j <= Needed(o.size)
      BY <1>5, <2>3, <2>4, Constants
    <2>8. PICK q \in CallType : op' = [op EXCEPT ![a] = q] /\ CallOK(q)'
      BY <1>1, <1>3, <1>5, <2>1, <2>4, <2>5, <2>6, <2>7, WriteNextOK
    <2>9. DiskInv' /\ inode' \in [Inodes -> InodeType] /\ data' \in [Blocks -> SectorType]
      BY <1>1, DiskKept DEF Types
    <2> QED BY <1>1, <2>8, <2>9, StepInv
  <1> QED BY <1>4, <1>5

\* An empty file has no blocks.
LEMMA ExtentEmpty == Extent(0) = {}
  <1>1. \A n \in Nat : n > 0 => (0 - 1 + n) \div n = 0
    OBVIOUS
  <1>2. (0 - 1 + SectorSize) \div SectorSize = 0
    BY <1>1, Constants
  <1> QED BY <1>2 DEF Extent

\* Setting an inode without changing its size shows no old contents.
LEMMA InodeKeepsData ==
  ASSUME Types, NEW i \in Inodes, NEW v, SetInode(i, v), data' = data, NoStale,
         v.size = IF inode[i].used THEN inode[i].size ELSE 0
  PROVE  NoStale' /\ Grows
  <1>1. inode'[i] = v /\ \A k \in Inodes \ {i} : inode'[k] = inode[k]
    BY DEF SetInode, Types
  <1>2. Grows
    BY <1>1 DEF Grows, SetInode
  <1>3. ASSUME NEW k \in Inodes, inode'[k].used, ~inode'[k].dir, NEW j \in Extent(inode'[k].size)
        PROVE  j \in Index /\ inode'[k].blocks[j] # 0 /\ data[inode'[k].blocks[j]].of = <<k, j>>
    <2>1. CASE k # i
      BY <1>1, <1>3, <2>1 DEF NoStale
    <2>2. CASE k = i /\ ~inode[i].used
      BY <1>1, <1>3, <2>2, ExtentEmpty
    <2>3. CASE k = i /\ inode[i].used
      <3>1. v.dir = inode[i].dir /\ v.size = inode[i].size
        BY <2>3 DEF SetInode
      <3>2. j \in Index /\ inode[i].blocks[j] # 0 /\ data[inode[i].blocks[j]].of = <<i, j>>
        BY <1>1, <1>3, <2>3, <3>1 DEF NoStale
      <3>3. v.blocks[j] = inode[i].blocks[j]
        BY <2>3, <3>2 DEF SetInode
      <3> QED BY <1>1, <2>3, <3>2, <3>3
    <2> QED BY <2>1, <2>2, <2>3
  <1>4. NoStale'
    BY <1>3 DEF NoStale, Extent
  <1> QED BY <1>2, <1>4

\* Sector b is set to x, which is what a file that b belongs to expects there.
SetData(b, x) ==
  /\ data' = [data EXCEPT ![b] = x] /\ inode' = inode
  /\ \A i \in Inodes, j \in Index :
       inode[i].used /\ ~inode[i].dir /\ inode[i].blocks[j] = b => x.of = <<i, j>>

\* Writing a data sector that is a file's only as what is written.
LEMMA DataKeepsData ==
  ASSUME Types, NEW b \in Blocks, NEW x, SetData(b, x)
  PROVE  Grows /\ (NoStale => NoStale')
  <1>1. Grows
    BY DEF Grows, SetData
  <1>2. ASSUME NoStale, NEW i \in Inodes, inode[i].used, ~inode[i].dir, NEW j \in Extent(inode[i].size)
        PROVE  j \in Index /\ inode[i].blocks[j] # 0 /\ data'[inode[i].blocks[j]].of = <<i, j>>
    <2>1. j \in Index /\ inode[i].blocks[j] # 0 /\ data[inode[i].blocks[j]].of = <<i, j>>
      BY <1>2 DEF NoStale
    <2>2. CASE inode[i].blocks[j] = b
      <3>1. x.of = <<i, j>>
        BY <1>2, <2>1, <2>2 DEF SetData
      <3> QED BY <2>1, <2>2, <3>1 DEF Types, SetData
    <2>3. CASE inode[i].blocks[j] # b
      <3>1. inode[i].blocks[j] \in Blocks
        BY <2>1 DEF Types, InodeType
      <3> QED BY <2>1, <2>3, <3>1 DEF Types, SetData
    <2> QED BY <2>2, <2>3
  <1>3. inode' = inode
    BY DEF SetData
  <1>4. NoStale => NoStale'
    BY <1>2, <1>3 DEF NoStale, Extent
  <1> QED BY <1>1, <1>4

\* add_dir_entry up to its write.
LEMMA AddEntryOK ==
  ASSUME Types, NEW a \in Actors, NEW o \in CallType, o = op[a], IsDir(o.dir),
         IsDir(o.dir)', Table(o.dir)' = Table(o.dir), o.name \in Names, o.ino # 0, Unnamed(o.ino)',
         \A s \in Slots : Table(o.dir)[s].name # o.name, inode'[o.ino].used,
         inode'[o.ino].dir => IsDir(o.ino)' /\ Table(o.ino)'[2].ino = o.dir,
         AddEntry(a)
  PROVE  \E q \in CallType : op' = [op EXCEPT ![a] = q] /\ CallOK(q)'
  <1>1. CASE EmptySlots(o.dir) = {}
    <2>1. op' = [op EXCEPT ![a] = Idle]
      BY <1>1 DEF AddEntry, Fail
    <2> QED BY <2>1, IdleIs DEF CallOK
  <1>2. CASE EmptySlots(o.dir) # {}
    <2>1. PICK s \in EmptySlots(o.dir) :
            Goto(a, [o EXCEPT !.pc = "entry",
                       !.table = [Table(o.dir) EXCEPT ![s] = [name |-> o.name, ino |-> o.ino]]])
      BY <1>2 DEF AddEntry
    <2>2. PICK t : t = [Table(o.dir) EXCEPT ![s] = [name |-> o.name, ino |-> o.ino]]
      OBVIOUS
    <2>3. PICK q : q = [o EXCEPT !.pc = "entry", !.table = t]
      OBVIOUS
    <2>4. op' = [op EXCEPT ![a] = q]
      BY <2>1, <2>2, <2>3 DEF Goto
    <2>5. t \in [Slots -> EntryType]
      <3>1. Table(o.dir) \in [Slots -> EntryType] /\ o.ino \in Inodes
        BY TableType DEF CallType
      <3>2. [name |-> o.name, ino |-> o.ino] \in EntryType
        BY <3>1 DEF EntryType
      <3> QED BY <2>2, <3>1, <3>2
    <2>6. /\ q \in CallType /\ q.pc = "entry" /\ q.table = t /\ q.dir = o.dir /\ q.name = o.name /\ q.ino = o.ino
      BY <2>3, <2>5 DEF CallType
    <2>7. s \in EmptySlots(o.dir)'
      BY DEF EmptySlots
    <2>8. (\E r \in EmptySlots(o.dir) : t = [Table(o.dir) EXCEPT ![r] = [name |-> o.name, ino |-> o.ino]])'
      BY <2>2, <2>7
    <2>9. Making(q)'
      BY <2>6, <2>8 DEF Making
    <2> QED BY <2>4, <2>6, <2>9 DEF CallOK
  <1> QED BY <1>1, <1>2

\* The directories keep their entries, so an inode without a name stays without one.
LEMMA UnnamedKept ==
  ASSUME TablesKept, NEW i \in Inodes, Unnamed(i) PROVE Unnamed(i)'
  BY DEF TablesKept, Unnamed, Proper
\* allocate_free_inode's write.
LEMMA AllocKeepsInv ==
  ASSUME Orderly, FSInv, NEW a \in Actors, AllocWrite(a)
  PROVE  FSInv' /\ Grows /\ (NoStale => NoStale')
  <1>0. PICK o : o = op[a]
    OBVIOUS
  <1>1. /\ up = "up" /\ Types /\ DiskInv /\ o \in CallType /\ o.pc = "alloc"
        /\ \A c \in Actors : c # a => op[c] = Idle
        /\ Making(o) /\ UNCHANGED <<magic, data, up, fmt, tools>> /\ inode' = Flush(o)
    <2>1. MayStep(a, "alloc") /\ UNCHANGED <<magic, data, up, fmt, tools>> /\ inode' = Flush(o)
      BY <1>0 DEF AllocWrite
    <2> QED BY <1>0, <2>1, InCall
  <1>2. PICK v : v = NewInode(o.isdir)
    OBVIOUS
  <1>3. /\ v \in InodeType /\ v.used /\ v.size = 0 /\ \A j \in Index : v.blocks[j] = 0
        /\ v.dir = o.isdir
    BY <1>1, <1>2, InodeTypes DEF CallType
  <1>4. /\ o.ino \in Inodes /\ o.dir \in Inodes /\ IsDir(o.dir) /\ o.name \in Names /\ o.ino # 0
        /\ Unnamed(o.ino) /\ ~inode[o.ino].used
        /\ \A s \in Slots : Table(o.dir)[s].name # o.name
    BY <1>1 DEF CallType, Making
  <1>5. inode' = [inode EXCEPT ![o.ino] = v]
    <2>1. o.sec = [inode EXCEPT ![o.ino] = v]
      BY <1>1, <1>2 DEF Making
    <2> QED BY <1>1, <1>4, <2>1 DEF Flush, Types
  <1>6. SetInode(o.ino, v) /\ inode'[o.ino] = v /\ inode' \in [Inodes -> InodeType]
    BY <1>1, <1>3, <1>4, <1>5 DEF SetInode, Types
  <1>7. DiskInv' /\ TablesKept
    BY <1>1, <1>4, <1>6, Constants, SetInodeKeepsDisk
  <1>8. Grows /\ (NoStale => NoStale')
    <2>1. Grows
      BY <1>1, <1>4, <1>5, <1>6 DEF Grows, SetInode, Types
    <2>2. ASSUME NoStale PROVE NoStale'
      BY <1>1, <1>3, <1>4, <1>6, <2>2, InodeKeepsData
    <2> QED BY <2>1, <2>2
  <1>9. Unnamed(o.ino)' /\ IsDir(o.dir)' /\ Table(o.dir)' = Table(o.dir)
    BY <1>4, <1>7, UnnamedKept DEF TablesKept
  <1>10. \E q \in CallType : op' = [op EXCEPT ![a] = q] /\ CallOK(q)'
    <2>1. CASE o.isdir
      <3>1. PICK b \in Blocks : IsFirstFree(b, inode') /\ Goto(a, [o EXCEPT !.pc = "dirblock", !.blk = b])
        BY <1>0, <1>1, <2>1 DEF AllocWrite
      <3>2. PICK q : q = [o EXCEPT !.pc = "dirblock", !.blk = b]
        OBVIOUS
      <3>3. /\ q \in CallType /\ q.pc = "dirblock" /\ q.blk = b /\ q.dir = o.dir /\ q.name = o.name
            /\ q.ino = o.ino /\ q.isdir = o.isdir
        BY <1>1, <3>2 DEF CallType
      <3>4. inode'[o.ino] = NewInode(TRUE)
        <4>1. o.isdir = TRUE
          BY <1>1, <2>1 DEF CallType
        <4> QED BY <1>2, <1>6, <4>1
      <3>5. b \in (Blocks \ UsedBlocks(inode))'
        BY <3>1 DEF IsFirstFree
      <3>6. Making(q)'
        BY <1>4, <1>9, <2>1, <3>3, <3>4, <3>5 DEF Making, NewInode, ZeroInode
      <3>7. op' = [op EXCEPT ![a] = q]
        BY <3>1, <3>2 DEF Goto
      <3> QED BY <3>3, <3>6, <3>7 DEF CallOK
    <2>2. CASE ~o.isdir
      <3>1. AddEntry(a)
        BY <1>0, <2>2 DEF AllocWrite
      <3>2. inode'[o.ino].used /\ ~inode'[o.ino].dir
        BY <1>3, <1>6, <2>2
      <3> QED BY <1>0, <1>1, <1>4, <1>9, <3>1, <3>2, AddEntryOK
    <2> QED BY <2>1, <2>2
  <1>11. FSInv'
    <2>1. PICK q \in CallType : op' = [op EXCEPT ![a] = q] /\ CallOK(q)'
      BY <1>10
    <2>2. data' \in [Blocks -> SectorType]
      BY <1>1 DEF Types
    <2> QED BY <1>1, <1>6, <1>7, <2>1, <2>2, StepInv
  <1> QED BY <1>8, <1>11

\* The new directory's table is written to a free block.
LEMMA DirBlockKeepsInv ==
  ASSUME Orderly, FSInv, NEW a \in Actors, DirBlockWrite(a)
  PROVE  FSInv' /\ Grows /\ (NoStale => NoStale')
  <1>0. PICK o : o = op[a]
    OBVIOUS
  <1>1. /\ up = "up" /\ Types /\ DiskInv /\ o \in CallType /\ o.pc = "dirblock"
        /\ \A c \in Actors : c # a => op[c] = Idle
        /\ Making(o) /\ UNCHANGED <<magic, inode, up, fmt, tools>>
        /\ data' = [data EXCEPT ![o.blk] = TableSector(DirTable(o.ino, o.dir))]
    <2>1. MayStep(a, "dirblock") /\ UNCHANGED <<magic, inode, up, fmt, tools>>
          /\ data' = [data EXCEPT ![o.blk] = TableSector(DirTable(o.ino, o.dir))]
      BY <1>0 DEF DirBlockWrite
    <2> QED BY <1>0, <2>1, InCall
  <1>2. /\ o.ino \in Inodes /\ o.dir \in Inodes /\ IsDir(o.dir) /\ o.name \in Names /\ o.ino # 0
        /\ Unnamed(o.ino) /\ o.isdir /\ inode[o.ino] = NewInode(TRUE) /\ o.blk \in Blocks \ UsedBlocks(inode)
        /\ \A s \in Slots : Table(o.dir)[s].name # o.name
    BY <1>1 DEF CallType, Making
  <1>3. PICK x : x = TableSector(DirTable(o.ino, o.dir))
    OBVIOUS
  <1>4. x \in SectorType /\ x.table = DirTable(o.ino, o.dir)
    <2>1. DirTable(o.ino, o.dir) \in [Slots -> EntryType]
      BY <1>2, DirTableIs
    <2> QED BY <1>3, <2>1, SectorTypes DEF TableSector
  <1>5. data' = [data EXCEPT ![o.blk] = x] /\ data' \in [Blocks -> SectorType] /\ data'[o.blk] = x
    BY <1>1, <1>2, <1>3, <1>4 DEF Types
  <1>6. \A i \in Inodes, j \in Index : inode[i].used => inode[i].blocks[j] # o.blk
    BY <1>2, FreeBlock
  <1>7. DiskInv' /\ TablesKept
    <2>1. \A d \in Inodes : IsDir(d) => inode[d].blocks[0] # o.blk
      BY <1>6, Constants DEF IsDir
    <2> QED BY <1>1, <1>2, <1>5, <2>1, SetDataKeepsDisk
  <1>8. Grows /\ (NoStale => NoStale')
    <2>1. SetData(o.blk, x)
      BY <1>1, <1>5, <1>6 DEF SetData
    <2>2. o.blk \in Blocks
      BY <1>2
    <2> QED BY <1>1, <2>1, <2>2, DataKeepsData
  <1>9. Unnamed(o.ino)' /\ IsDir(o.dir)' /\ Table(o.dir)' = Table(o.dir)
    BY <1>2, <1>7, UnnamedKept DEF TablesKept
  <1>10. PICK w : w = [inode[o.ino] EXCEPT !.blocks[0] = o.blk]
    OBVIOUS
  <1>11. PICK sec : sec = [inode EXCEPT ![o.ino] = w]
    OBVIOUS
  <1>12. PICK q : q = [o EXCEPT !.pc = "dirinode", !.sec = sec]
    OBVIOUS
  <1>13. op' = [op EXCEPT ![a] = q]
    BY <1>0, <1>10, <1>11, <1>12 DEF DirBlockWrite, Goto, Sector
  <1>14. sec \in [Inodes -> InodeType]
    <2>1. inode[o.ino] \in InodeType /\ o.blk \in Blocks /\ 0 \in Index
      BY <1>1, <1>2, Constants DEF Types
    <2>2. w \in InodeType
      BY <1>10, <2>1 DEF InodeType
    <2> QED BY <1>1, <1>2, <1>11, <2>2 DEF Types
  <1>15. /\ q \in CallType /\ q.pc = "dirinode" /\ q.sec = sec /\ q.dir = o.dir /\ q.name = o.name
         /\ q.ino = o.ino /\ q.isdir = o.isdir /\ q.blk = o.blk
    BY <1>1, <1>12, <1>14 DEF CallType
  <1>16. Making(q)'
    <2>1. sec = [inode' EXCEPT ![o.ino] = [inode'[o.ino] EXCEPT !.blocks[0] = o.blk]]
      BY <1>1, <1>10, <1>11
    <2>2. o.blk \in (Blocks \ UsedBlocks(inode))'
      BY <1>1, <1>2 DEF UsedBlocks
    <2>3. data'[o.blk].table = DirTable(o.ino, o.dir) /\ inode'[o.ino] = NewInode(TRUE)
      BY <1>1, <1>2, <1>4, <1>5
    <2> QED BY <1>2, <1>9, <1>15, <2>1, <2>2, <2>3 DEF Making, NewInode, ZeroInode, DirTable
  <1>17. CallOK(q)'
    BY <1>15, <1>16 DEF CallOK
  <1>18. inode' \in [Inodes -> InodeType]
    BY <1>1 DEF Types
  <1> QED BY <1>1, <1>5, <1>7, <1>8, <1>13, <1>15, <1>17, <1>18, StepInv

\* mkdir writes the new directory's inode with its block.
LEMMA DirInodeKeepsInv ==
  ASSUME Orderly, FSInv, NEW a \in Actors, DirInodeWrite(a)
  PROVE  FSInv' /\ Grows /\ (NoStale => NoStale')
  <1>0. PICK o : o = op[a]
    OBVIOUS
  <1>1. /\ up = "up" /\ Types /\ DiskInv /\ o \in CallType /\ o.pc = "dirinode"
        /\ \A c \in Actors : c # a => op[c] = Idle
        /\ Making(o) /\ UNCHANGED <<magic, data, up, fmt, tools>> /\ inode' = Flush(o) /\ AddEntry(a)
    <2>1. /\ MayStep(a, "dirinode") /\ UNCHANGED <<magic, data, up, fmt, tools>> /\ inode' = Flush(o)
          /\ AddEntry(a)
      BY <1>0 DEF DirInodeWrite
    <2> QED BY <1>0, <2>1, InCall
  <1>2. /\ o.ino \in Inodes /\ o.dir \in Inodes /\ IsDir(o.dir) /\ o.name \in Names /\ o.ino # 0
        /\ Unnamed(o.ino) /\ o.isdir /\ inode[o.ino] = NewInode(TRUE) /\ o.blk \in Blocks \ UsedBlocks(inode)
        /\ data[o.blk].table = DirTable(o.ino, o.dir)
        /\ \A s \in Slots : Table(o.dir)[s].name # o.name
    BY <1>1 DEF CallType, Making
  <1>3. PICK v : v = [inode[o.ino] EXCEPT !.blocks[0] = o.blk]
    OBVIOUS
  <1>4. inode' = [inode EXCEPT ![o.ino] = v]
    <2>1. o.sec = [inode EXCEPT ![o.ino] = v]
      BY <1>1, <1>3 DEF Making
    <2> QED BY <1>1, <1>2, <2>1 DEF Flush, Types
  <1>5. /\ DiskInv' /\ SetInode(o.ino, v) /\ Unnamed(o.ino)' /\ IsDir(o.ino)'
        /\ Table(o.ino)' = DirTable(o.ino, o.dir)
        /\ \A d \in Inodes : IsDir(d) => d # o.ino /\ IsDir(d)' /\ Table(d)' = Table(d)
    <2>1. GivesBlock(o.ino, o.blk, v)
      BY <1>1, <1>3, <1>4 DEF GivesBlock
    <2> QED BY <1>1, <1>2, <2>1, DirInodeKeepsDisk
  <1>6. inode'[o.ino] = v /\ inode' \in [Inodes -> InodeType] /\ v.used
    BY <1>1, <1>2, <1>4, <1>5 DEF SetInode, Types
  <1>7. Grows /\ (NoStale => NoStale')
    <2>1. inode[o.ino].used /\ v.size = inode[o.ino].size
      <3>1. inode[o.ino] \in InodeType /\ inode[o.ino].used
        BY <1>1, <1>2, InodeTypes DEF Types
      <3> QED BY <1>3, <3>1 DEF InodeType
    <2>2. Grows
      BY <1>1, <1>2, <1>4, <1>5, <1>6 DEF Grows, SetInode, Types
    <2>3. ASSUME NoStale PROVE NoStale'
      BY <1>1, <1>2, <1>5, <2>1, <2>3, InodeKeepsData
    <2> QED BY <2>2, <2>3
  <1>8. Table(o.ino)'[2].ino = o.dir
    BY <1>2, <1>5, DirTableIs
  <1>9. PICK q \in CallType : op' = [op EXCEPT ![a] = q] /\ CallOK(q)'
    BY <1>0, <1>1, <1>2, <1>5, <1>6, <1>8, AddEntryOK
  <1>10. data' \in [Blocks -> SectorType]
    BY <1>1 DEF Types
  <1>11. FSInv'
    BY <1>1, <1>5, <1>6, <1>9, <1>10, StepInv
  <1> QED BY <1>7, <1>11

\* create and mkdir enter the name.
LEMMA EntryKeepsInv ==
  ASSUME Orderly, FSInv, NEW a \in Actors, EntryWrite(a)
  PROVE  FSInv' /\ Grows /\ (NoStale => NoStale')
  <1>0. PICK o : o = op[a]
    OBVIOUS
  <1>1. /\ up = "up" /\ Types /\ DiskInv /\ o \in CallType /\ o.pc = "entry"
        /\ \A c \in Actors : c # a => op[c] = Idle
        /\ Making(o) /\ UNCHANGED <<magic, inode, up, fmt, tools>> /\ op' = [op EXCEPT ![a] = Idle]
        /\ data' = [data EXCEPT ![inode[o.dir].blocks[0]] = TableSector(o.table)]
    <2>1. /\ MayStep(a, "entry") /\ UNCHANGED <<magic, inode, up, fmt, tools>> /\ op' = [op EXCEPT ![a] = Idle]
          /\ data' = [data EXCEPT ![inode[o.dir].blocks[0]] = TableSector(o.table)]
      BY <1>0 DEF EntryWrite, Goto
    <2> QED BY <1>0, <2>1, InCall
  <1>2. /\ o.ino \in Inodes /\ o.dir \in Inodes /\ IsDir(o.dir) /\ o.name \in Names /\ o.ino # 0
        /\ Unnamed(o.ino) /\ inode[o.ino].used
        /\ inode[o.ino].dir => IsDir(o.ino) /\ Table(o.ino)[2].ino = o.dir
        /\ \A s \in Slots : Table(o.dir)[s].name # o.name
    BY <1>1 DEF CallType, Making
  <1>3. PICK s \in EmptySlots(o.dir) : o.table = [Table(o.dir) EXCEPT ![s] = [name |-> o.name, ino |-> o.ino]]
    BY <1>1 DEF Making
  <1>4. PICK t : t = [Table(o.dir) EXCEPT ![s] = [name |-> o.name, ino |-> o.ino]]
    OBVIOUS
  <1>5. data' = [data EXCEPT ![inode[o.dir].blocks[0]] = TableSector(t)]
    BY <1>1, <1>3, <1>4
  <1>6. DiskInv' /\ t \in [Slots -> EntryType]
    <2>1. Enters(o.dir, s, o.name, o.ino, t)
      BY <1>1, <1>4, <1>5 DEF Enters
    <2> QED BY <1>1, <1>2, <2>1, EntryKeepsDisk
  <1>7. PICK b : b = inode[o.dir].blocks[0]
    OBVIOUS
  <1>8. PICK x : x = TableSector(t)
    OBVIOUS
  <1>9. b \in Blocks /\ x \in SectorType /\ data' = [data EXCEPT ![b] = x]
    BY <1>1, <1>2, <1>5, <1>6, <1>7, <1>8, TableType, SectorTypes
  <1>10. SetData(b, x)
    <2>1. ASSUME NEW i \in Inodes, NEW j \in Index, inode[i].used, ~inode[i].dir, inode[i].blocks[j] = b
          PROVE  FALSE
      <3>1. i # o.dir /\ b # 0 /\ inode[o.dir].used /\ 0 \in Index
        BY <1>2, <1>9, <2>1, Constants DEF IsDir
      <3> QED BY <1>1, <1>2, <1>7, <2>1, <3>1 DEF DiskInv, Disjoint
    <2> QED BY <1>1, <1>9, <2>1 DEF SetData
  <1>11. Grows /\ (NoStale => NoStale')
    BY <1>1, <1>9, <1>10, DataKeepsData
  <1>12. data' \in [Blocks -> SectorType] /\ inode' \in [Inodes -> InodeType]
    BY <1>1, <1>9 DEF Types
  <1>13. CallOK(Idle)'
    BY DEF CallOK
  <1>14. FSInv'
    BY <1>1, <1>6, <1>12, <1>13, IdleIs, StepInv
  <1> QED BY <1>11, <1>14

\* write puts the block it claims in the inode table.
LEMMA ClaimKeepsInv ==
  ASSUME Orderly, FSInv, NEW a \in Actors, ClaimWrite(a)
  PROVE  FSInv' /\ Grows /\ (NoStale => NoStale')
  <1>0. PICK o : o = op[a]
    OBVIOUS
  <1>1. /\ up = "up" /\ Types /\ DiskInv /\ o \in CallType /\ o.pc = "claim"
        /\ \A c \in Actors : c # a => op[c] = Idle
        /\ Writing(o) /\ UNCHANGED <<magic, data, up, fmt, tools>> /\ inode' = Flush(o)
        /\ op' = [op EXCEPT ![a] = [o EXCEPT !.pc = "data"]]
    <2>1. /\ MayStep(a, "claim") /\ UNCHANGED <<magic, data, up, fmt, tools>> /\ inode' = Flush(o)
          /\ op' = [op EXCEPT ![a] = [o EXCEPT !.pc = "data"]]
      BY <1>0 DEF ClaimWrite, Goto
    <2> QED BY <1>0, <2>1, InCall
  <1>2. /\ o.ino \in Inodes /\ o.j \in Nat /\ o.size \in Sizes /\ o.size \in 0..(SizeMod - 1)
        /\ inode[o.ino].used /\ ~inode[o.ino].dir /\ o.mem \in InodeType
        /\ Needed(o.size) <= Direct /\ o.j < Needed(o.size) /\ inode[o.ino].blocks[o.j] = 0
        /\ inode[o.ino] \in InodeType
    <2>1. o.ino \in Inodes /\ o.j \in Nat /\ o.size \in 0..(SizeMod - 1) /\ o.mem \in InodeType
      BY <1>1 DEF CallType
    <2>2. inode[o.ino] \in InodeType
      BY <1>1, <2>1 DEF Types
    <2>3. /\ o.size \in Sizes /\ inode[o.ino].used /\ ~inode[o.ino].dir
          /\ Needed(o.size) <= Direct /\ o.j < Needed(o.size) /\ inode[o.ino].blocks[o.j] = 0
      <3>1. o.size \in Sizes /\ inode[o.ino].used /\ ~inode[o.ino].dir
        BY <1>1 DEF Writing
      <3>2. Needed(o.size) <= Direct /\ (o.pc # "size" => o.j < Needed(o.size))
        BY <1>1 DEF Writing
      <3>3. o.pc = "claim" => inode[o.ino].blocks[o.j] = 0
        BY <1>1 DEF Writing
      <3> QED BY <1>1, <3>1, <3>2, <3>3
    <2> QED BY <2>1, <2>2, <2>3
  <1>3. o.j \in Index /\ Needed(o.size) \in Nat
    BY <1>2, NeededNat, Constants DEF Index
  <1>4. PICK b \in Blocks \ UsedBlocks(inode) : o.mem = [inode[o.ino] EXCEPT !.blocks[o.j] = b]
    BY <1>1 DEF Writing
  <1>5. PICK v : v = o.mem
    OBVIOUS
  <1>6. inode' = [inode EXCEPT ![o.ino] = v]
    <2>1. o.sec = [inode EXCEPT ![o.ino] = v]
      BY <1>1, <1>5 DEF Writing
    <2> QED BY <1>1, <1>2, <2>1 DEF Flush, Types
  <1>7. /\ v \in InodeType /\ v.used = inode[o.ino].used /\ v.dir = inode[o.ino].dir
        /\ v.size = inode[o.ino].size /\ v.blocks[o.j] = b
        /\ \A k \in Index \ {o.j} : v.blocks[k] = inode[o.ino].blocks[k]
    <2>1. inode[o.ino] \in InodeType /\ b \in Blocks /\ o.j \in Index
      BY <1>2, <1>3
    <2>2. v = [inode[o.ino] EXCEPT !.blocks[o.j] = b]
      BY <1>4, <1>5
    <2> QED BY <2>1, <2>2 DEF InodeType
  <1>8. SetInode(o.ino, v)
    BY <1>2, <1>6, <1>7 DEF SetInode
  <1>9. DiskInv' /\ TablesKept
    <2>1. /\ \A k \in Index \ {o.j} : v.blocks[k] = inode[o.ino].blocks[k]
          /\ v.blocks[o.j] \in (Blocks \ UsedBlocks(inode)) \cup {inode[o.ino].blocks[o.j]}
      BY <1>4, <1>7
    <2>2. ~v.dir /\ inode[o.ino].used
      BY <1>2, <1>7
    <2> QED BY <1>1, <1>2, <1>3, <1>8, <2>1, <2>2, SetInodeKeepsDisk
  <1>10. inode'[o.ino] = v /\ inode' \in [Inodes -> InodeType] /\ \A k \in Inodes \ {o.ino} : inode'[k] = inode[k]
    BY <1>1, <1>2, <1>6, <1>7 DEF Types
  <1>11. Grows /\ (NoStale => NoStale')
    <2>1. Grows
      BY <1>2, <1>8, <1>10 DEF Grows, SetInode
    <2>2. ASSUME NoStale PROVE NoStale'
      BY <1>1, <1>2, <1>7, <1>8, <2>2, InodeKeepsData
    <2> QED BY <2>1, <2>2
  <1>12. PICK q : q = [o EXCEPT !.pc = "data"]
    OBVIOUS
  <1>13. /\ q \in CallType /\ q.pc = "data" /\ q.mem = v /\ q.ino = o.ino /\ q.j = o.j /\ q.size = o.size
    BY <1>1, <1>5, <1>12 DEF CallType
  <1>14. Writing(q)'
    <2>1. ASSUME NEW k \in Index, k < o.j
          PROVE  inode'[o.ino].blocks[k] # 0 /\ data'[inode'[o.ino].blocks[k]].of = <<o.ino, k>>
      <3>1. inode[o.ino].blocks[k] # 0 /\ data[inode[o.ino].blocks[k]].of = <<o.ino, k>>
        BY <1>1, <2>1 DEF Writing
      <3>2. inode'[o.ino].blocks[k] = inode[o.ino].blocks[k]
        <4>1. k # o.j
          BY <1>2, <2>1, Constants
        <4> QED BY <1>7, <1>10, <4>1
      <3> QED BY <1>1, <3>1, <3>2
    <2>2. b # 0 /\ v.used /\ ~v.dir
      BY <1>2, <1>7, Constants
    <2>3. q.j <= Needed(q.size) /\ q.j < Needed(q.size) /\ Needed(q.size) <= Direct /\ q.size \in Sizes
      BY <1>2, <1>3, <1>13
    <2>4. inode'[q.ino].used /\ ~inode'[q.ino].dir /\ q.mem = inode'[q.ino] /\ q.mem.blocks[q.j] # 0
      BY <1>7, <1>10, <1>13, <2>2
    <2> QED BY <1>13, <2>1, <2>3, <2>4 DEF Writing
  <1>15. CallOK(q)'
    BY <1>13, <1>14 DEF CallOK
  <1>16. op' = [op EXCEPT ![a] = q] /\ data' \in [Blocks -> SectorType]
    BY <1>1, <1>12 DEF Types
  <1>17. FSInv'
    BY <1>1, <1>9, <1>10, <1>13, <1>15, <1>16, StepInv
  <1> QED BY <1>11, <1>17

\* write fills a block.
LEMMA DataKeepsInv ==
  ASSUME Orderly, FSInv, NEW a \in Actors, DataWrite(a)
  PROVE  FSInv' /\ Grows /\ (NoStale => NoStale')
  <1>0. PICK o : o = op[a]
    OBVIOUS
  <1>1. /\ up = "up" /\ Types /\ DiskInv /\ o \in CallType /\ o.pc = "data"
        /\ \A c \in Actors : c # a => op[c] = Idle
        /\ Writing(o) /\ UNCHANGED <<magic, inode, up, fmt, tools>>
        /\ data' = [data EXCEPT ![o.mem.blocks[o.j]] = FileSector(o.ino, o.j)]
        /\ WriteNext(a, [o EXCEPT !.j = o.j + 1], inode)
    <2>1. /\ MayStep(a, "data") /\ UNCHANGED <<magic, inode, up, fmt, tools>>
          /\ data' = [data EXCEPT ![o.mem.blocks[o.j]] = FileSector(o.ino, o.j)]
          /\ WriteNext(a, [o EXCEPT !.j = o.j + 1], inode)
      BY <1>0 DEF DataWrite
    <2> QED BY <1>0, <2>1, InCall
  <1>2. /\ o.ino \in Inodes /\ o.j \in Nat /\ o.size \in Sizes /\ o.size \in 0..(SizeMod - 1)
        /\ inode[o.ino].used /\ ~inode[o.ino].dir /\ o.mem = inode[o.ino] /\ inode[o.ino] \in InodeType
        /\ Needed(o.size) <= Direct /\ o.j < Needed(o.size) /\ inode[o.ino].blocks[o.j] # 0
    <2>1. o.ino \in Inodes /\ o.j \in Nat /\ o.size \in 0..(SizeMod - 1)
      BY <1>1 DEF CallType
    <2>2. inode[o.ino] \in InodeType
      BY <1>1, <2>1 DEF Types
    <2>3. /\ o.size \in Sizes /\ inode[o.ino].used /\ ~inode[o.ino].dir /\ o.mem = inode[o.ino]
          /\ Needed(o.size) <= Direct /\ o.j < Needed(o.size) /\ inode[o.ino].blocks[o.j] # 0
      BY <1>1 DEF Writing
    <2> QED BY <2>1, <2>2, <2>3
  <1>3. o.j \in Index /\ Needed(o.size) \in Nat
    BY <1>2, NeededNat, Constants DEF Index
  <1>4. PICK b : b = inode[o.ino].blocks[o.j]
    OBVIOUS
  <1>5. PICK x : x = FileSector(o.ino, o.j)
    OBVIOUS
  <1>6. /\ b \in Blocks /\ b # 0 /\ x \in SectorType /\ x.of = <<o.ino, o.j>>
        /\ data' = [data EXCEPT ![b] = x]
    BY <1>1, <1>2, <1>3, <1>4, <1>5, SectorTypes DEF InodeType
  <1>7. \A i \in Inodes, l \in Index : inode[i].used /\ inode[i].blocks[l] = b => i = o.ino /\ l = o.j
    BY <1>1, <1>2, <1>3, <1>4, <1>6 DEF DiskInv, Disjoint
  <1>8. Grows /\ (NoStale => NoStale')
    <2>1. SetData(b, x)
      BY <1>1, <1>6, <1>7 DEF SetData
    <2> QED BY <1>1, <1>6, <2>1, DataKeepsData
  <1>9. DiskInv'
    <2>1. \A d \in Inodes : IsDir(d) => inode[d].blocks[0] # b
      BY <1>2, <1>7, Constants DEF IsDir
    <2> QED BY <1>1, <1>6, <2>1, SetDataKeepsDisk
  <1>10. PICK m : m = o.j + 1
    OBVIOUS
  <1>11. PICK o1 : o1 = [o EXCEPT !.j = m]
    OBVIOUS
  <1>12. m \in Nat /\ m <= Needed(o.size) /\ \A k \in Index : k < m => k < o.j \/ k = o.j
    BY <1>2, <1>3, <1>10, Constants
  <1>13. /\ o1 \in CallType /\ o1.j = m /\ o1.ino = o.ino /\ o1.mem = inode[o.ino] /\ o1.size = o.size
    BY <1>1, <1>2, <1>11, <1>12 DEF CallType
  <1>14. data' \in [Blocks -> SectorType] /\ data'[b] = x /\ \A c \in Blocks \ {b} : data'[c] = data[c]
    BY <1>1, <1>6 DEF Types
  <1>15. Filled(o1)'
    <2> SUFFICES ASSUME NEW k \in Index, k < m
                 PROVE  inode[o.ino].blocks[k] # 0 /\ data'[inode[o.ino].blocks[k]].of = <<o.ino, k>>
      BY <1>1, <1>13 DEF Filled
    <2>1. CASE k = o.j
      BY <1>4, <1>6, <1>14, <2>1
    <2>2. CASE k < o.j
      <3>1. inode[o.ino].blocks[k] # 0 /\ data[inode[o.ino].blocks[k]].of = <<o.ino, k>>
        BY <1>1, <2>2 DEF Writing
      <3>2. inode[o.ino].blocks[k] \in Blocks
        BY <1>2, <3>1 DEF InodeType
      <3>3. k # o.j
        BY <1>2, <2>2
      <3>4. inode[o.ino].blocks[k] # b
        BY <1>2, <1>7, <3>3
      <3> QED BY <1>14, <3>1, <3>2, <3>4
    <2> QED BY <1>12, <2>1, <2>2
  <1>16. WriteNext(a, o1, inode)
    BY <1>1, <1>10, <1>11
  <1>17. PICK q \in CallType : op' = [op EXCEPT ![a] = q] /\ CallOK(q)'
    <2>1. Needed(o1.size) <= Direct /\ o1.j <= Needed(o1.size) /\ o1.size \in Sizes
      BY <1>2, <1>12, <1>13
    <2>2. o1.mem = inode[o1.ino] /\ inode[o1.ino].used /\ ~inode[o1.ino].dir
      BY <1>2, <1>13
    <2> QED BY <1>1, <1>13, <1>15, <1>16, <2>1, <2>2, WriteNextOK
  <1>18. inode' \in [Inodes -> InodeType]
    BY <1>1 DEF Types
  <1>19. FSInv'
    BY <1>1, <1>9, <1>14, <1>17, <1>18, StepInv
  <1> QED BY <1>8, <1>19

\* The blocks below a size are blocks that a write of it fills.
LEMMA ExtentNeeded ==
  ASSUME NEW z \in Sizes, NEW j \in Extent(z)
  PROVE  j \in 0..(Needed(z) - 1)
  <1>1. z \in Nat /\ z + SectorSize - 1 < SizeMod /\ SizeMod \in Nat /\ SizeMod > 0 /\ SectorSize \in Nat
    BY Constants DEF Extent, Counted
  <1>2. z + SectorSize - 1 = z - 1 + SectorSize /\ z + SectorSize - 1 \in Nat
    BY <1>1, Constants
  <1>3. \A x, n \in Nat : x < n => x % n = x
    OBVIOUS
  <1>4. (z + SectorSize - 1) % SizeMod = z - 1 + SectorSize
    BY <1>1, <1>2, <1>3
  <1> QED BY <1>4 DEF Extent, Needed

\* write sets the size, last of all.
LEMMA SizeKeepsInv ==
  ASSUME Orderly, FSInv, NEW a \in Actors, SizeWrite(a)
  PROVE  FSInv' /\ Grows /\ (NoStale => NoStale')
  <1>0. PICK o : o = op[a]
    OBVIOUS
  <1>1. /\ up = "up" /\ Types /\ DiskInv /\ o \in CallType /\ o.pc = "size"
        /\ \A c \in Actors : c # a => op[c] = Idle
        /\ Writing(o) /\ UNCHANGED <<magic, data, up, fmt, tools>> /\ inode' = Flush(o)
        /\ op' = [op EXCEPT ![a] = Idle]
    <2>1. /\ MayStep(a, "size") /\ UNCHANGED <<magic, data, up, fmt, tools>> /\ inode' = Flush(o)
          /\ op' = [op EXCEPT ![a] = Idle]
      BY <1>0 DEF SizeWrite, Goto
    <2> QED BY <1>0, <2>1, InCall
  <1>2. /\ o.ino \in Inodes /\ o.size \in Sizes /\ o.size \in 0..(SizeMod - 1)
        /\ inode[o.ino].used /\ ~inode[o.ino].dir /\ inode[o.ino] \in InodeType
        /\ Needed(o.size) <= Direct /\ o.j = Needed(o.size)
    <2>1. o.ino \in Inodes /\ o.size \in 0..(SizeMod - 1)
      BY <1>1 DEF CallType
    <2>2. inode[o.ino] \in InodeType
      BY <1>1, <2>1 DEF Types
    <2>3. /\ o.size \in Sizes /\ inode[o.ino].used /\ ~inode[o.ino].dir
          /\ Needed(o.size) <= Direct /\ o.j = Needed(o.size)
      BY <1>1 DEF Writing
    <2> QED BY <2>1, <2>2, <2>3
  <1>3. PICK v : v = [inode[o.ino] EXCEPT !.size = o.size]
    OBVIOUS
  <1>4. inode' = [inode EXCEPT ![o.ino] = v]
    <2>1. o.sec = [inode EXCEPT ![o.ino] = v]
      BY <1>1, <1>3 DEF Writing
    <2> QED BY <1>1, <1>2, <2>1 DEF Flush, Types
  <1>5. /\ v \in InodeType /\ v.used = inode[o.ino].used /\ v.dir = inode[o.ino].dir
        /\ v.size = o.size /\ v.blocks = inode[o.ino].blocks
    BY <1>2, <1>3 DEF InodeType
  <1>6. SetInode(o.ino, v)
    BY <1>2, <1>4, <1>5 DEF SetInode
  <1>7. DiskInv'
    <2>1. PICK m \in Index : m = 0
      BY Constants
    <2>2. /\ \A k \in Index \ {m} : v.blocks[k] = inode[o.ino].blocks[k]
          /\ v.blocks[m] \in (Blocks \ UsedBlocks(inode)) \cup {inode[o.ino].blocks[m]}
      BY <1>5
    <2>3. ~v.dir /\ inode[o.ino].used
      BY <1>2, <1>5
    <2> QED BY <1>1, <1>2, <1>6, <2>2, <2>3, SetInodeKeepsDisk
  <1>8. inode'[o.ino] = v /\ inode' \in [Inodes -> InodeType] /\ \A k \in Inodes \ {o.ino} : inode'[k] = inode[k]
    BY <1>1, <1>2, <1>4, <1>5 DEF Types
  <1>9. Grows
    BY <1>2, <1>6, <1>8 DEF Grows, SetInode
  <1>10. ASSUME NoStale PROVE NoStale'
    <2> SUFFICES ASSUME NEW i \in Inodes, inode'[i].used, ~inode'[i].dir, NEW j \in Extent(inode'[i].size)
                 PROVE  j \in Index /\ inode'[i].blocks[j] # 0 /\ data[inode'[i].blocks[j]].of = <<i, j>>
      BY <1>1 DEF NoStale, Extent
    <2>1. CASE i # o.ino
      BY <1>8, <1>10, <2>1 DEF NoStale
    <2>2. CASE i = o.ino
      <3>1. j \in 0..(Needed(o.size) - 1) /\ Needed(o.size) \in Nat
        BY <1>2, <1>5, <1>8, <1>10, <2>2, ExtentNeeded, NeededNat
      <3>2. j \in Index /\ j < o.j
        BY <1>2, <3>1, Constants DEF Index
      <3>3. inode[i].blocks[j] # 0 /\ data[inode[i].blocks[j]].of = <<i, j>>
        BY <1>1, <2>2, <3>2 DEF Writing
      <3> QED BY <1>5, <1>8, <2>2, <3>2, <3>3
    <2> QED BY <2>1, <2>2
  <1>11. CallOK(Idle)' /\ data' \in [Blocks -> SectorType]
    BY <1>1 DEF CallOK, Types
  <1>12. FSInv'
    BY <1>1, <1>7, <1>8, <1>11, IdleIs, StepInv
  <1> QED BY <1>9, <1>10, <1>12
-----------------------------------------------------------------------------
(* The disk tool *)

\* The members of a finite set have all the ranks there are.
LEMMA Ranks ==
  ASSUME NEW S, IsFiniteSet(S), S \subseteq Nat, NEW k \in 1..Cardinality(S)
  PROVE  \E b \in S : Cardinality({c \in S : c < b}) = k - 1
  <1>1. PICK n \in Nat : n = Cardinality(S)
    BY FS_CardinalityType
  <1> DEFINE Below(b) == {c \in S : c < b}
             r == [b \in S |-> Cardinality(Below(b))]
             T == 0..(n - 1)
  <1>2. \A b \in S : IsFiniteSet(Below(b)) /\ Cardinality(Below(b)) \in Nat
    <2>1. \A b \in S : IsFiniteSet(Below(b))
      BY FS_Subset
    <2> HIDE DEF Below
    <2> QED BY <2>1, FS_CardinalityType
  <1>3. ASSUME NEW x \in S, NEW y \in S, x < y
        PROVE  Cardinality(Below(x)) < Cardinality(Below(y))
    <2>1. x \notin Below(x) /\ (Below(x) \cup {x}) \in SUBSET Below(y)
      <3>1. x \in Nat /\ y \in Nat /\ \A c \in S : c \in Nat
        OBVIOUS
      <3>2. \A c \in Below(x) : c \in S /\ c < y
        BY <1>3, <3>1
      <3>3. x \notin Below(x)
        BY <3>1
      <3>4. \A c \in Below(x) \cup {x} : c \in Below(y)
        BY <1>3, <3>2
      <3> QED BY <3>3, <3>4
    <2> HIDE DEF Below
    <2>2. Cardinality(Below(x) \cup {x}) = Cardinality(Below(x)) + 1
      BY <1>2, <2>1, FS_AddElement
    <2>3. Cardinality(Below(x) \cup {x}) <= Cardinality(Below(y))
      BY <1>2, <2>1, FS_Subset
    <2> QED BY <1>2, <2>2, <2>3
  <1>4. ASSUME NEW x \in S PROVE Cardinality(Below(x)) \in T
    <2>1. Below(x) \in SUBSET (S \ {x})
      BY <1>4
    <2>2. IsFiniteSet(S \ {x}) /\ Cardinality(S \ {x}) = n - 1
      BY <1>1, FS_RemoveElement
    <2> HIDE DEF Below
    <2>3. Cardinality(Below(x)) <= n - 1
      BY <2>1, <2>2, FS_Subset
    <2> QED BY <1>1, <1>2, <2>3
  <1> HIDE DEF Below
  <1>5. r \in [S -> T]
    BY <1>4
  <1>6. \A x, y \in S : r[x] = r[y] => x = y
    <2>1. ASSUME NEW x \in S, NEW y \in S, r[x] = r[y], x # y PROVE FALSE
      <3>1. x \in Nat /\ y \in Nat /\ (x < y \/ y < x)
        BY <2>1
      <3>2. r[x] = Cardinality(Below(x)) /\ r[y] = Cardinality(Below(y))
        OBVIOUS
      <3>3. r[x] < r[y] \/ r[y] < r[x]
        BY <1>3, <3>1, <3>2
      <3>4. r[x] \in Nat /\ r[y] \in Nat
        BY <1>2, <3>2
      <3> QED BY <2>1, <3>3, <3>4
    <2> QED BY <2>1
  <1>7. IsFiniteSet(T) /\ Cardinality(T) = n
    <2>1. PICK m \in Int : m = n - 1
      OBVIOUS
    <2>2. IsFiniteSet(0..m) /\ Cardinality(0..m) = IF 0 > m THEN 0 ELSE m - 0 + 1
      BY FS_Interval
    <2> QED BY <2>1, <2>2
  <1>8. \A x \in S : r[x] = Cardinality(Below(x))
    OBVIOUS
  <1>9. k - 1 \in T
    BY <1>1
  <1> HIDE DEF r, T
  <1>10. r \in Injection(S, T)
    BY <1>5, <1>6 DEF Injection, IsInjective
  <1>11. r \in Surjection(S, T)
    BY <1>1, <1>7, <1>10, FS_Injection
  <1>12. PICK b \in S : r[b] = k - 1
    BY <1>9, <1>11 DEF Surjection
  <1> QED BY <1>8, <1>12 DEF Below

\* The numbers of a finite set in order: each of them once.
LEMMA InOrderIs ==
  ASSUME NEW S, IsFiniteSet(S), S \subseteq Nat
  PROVE  /\ Cardinality(S) \in Nat /\ InOrder(S) \in Seq(S) /\ Len(InOrder(S)) = Cardinality(S)
         /\ \A k \in 1..Cardinality(S) : InOrder(S)[k] \in S
         /\ \A k, l \in 1..Cardinality(S) : InOrder(S)[k] = InOrder(S)[l] => k = l
  <1>1. PICK n \in Nat : n = Cardinality(S)
    BY FS_CardinalityType
  <1>2. PICK q : q = InOrder(S)
    OBVIOUS
  <1>3. ASSUME NEW k \in 1..n PROVE q[k] \in S /\ Cardinality({c \in S : c < q[k]}) = k - 1
    <2>1. q[k] = CHOOSE b \in S : Cardinality({c \in S : c < b}) = k - 1
      <3>1. q = [j \in 1..n |-> CHOOSE b \in S : Cardinality({c \in S : c < b}) = j - 1]
        BY <1>1, <1>2 DEF InOrder
      <3> QED BY <3>1, Zenon
    <2>2. \E b \in S : Cardinality({c \in S : c < b}) = k - 1
      BY <1>1, Ranks
    <2> QED BY <2>1, <2>2
  <1>4. q = [k \in 1..n |-> q[k]]
    <2> DEFINE pick(j) == CHOOSE b \in S : Cardinality({c \in S : c < b}) = j - 1
    <2>1. q = [j \in 1..Cardinality(S) |-> pick(j)]
      BY <1>2 DEF InOrder
    <2> HIDE DEF pick
    <2> QED BY <1>1, <2>1
  <1>5. q \in [1..n -> S]
    BY <1>3, <1>4
  <1>6. q \in Seq(S) /\ Len(q) = n
    BY <1>5
  <1>7. ASSUME NEW k \in 1..n, NEW l \in 1..n, q[k] = q[l] PROVE k = l
    <2>1. k - 1 = l - 1
      BY <1>3, <1>7
    <2> QED BY <2>1
  <1> QED BY <1>1, <1>2, <1>3, <1>6, <1>7

\* f are m blocks for inode i: different ones, which no other inode in use has.
Supply(f, m, i) ==
  /\ f \in [1..m -> Blocks] /\ \A x, y \in 1..m : f[x] = f[y] => x = y
  /\ \A k \in Inodes \ {i}, l \in Index, x \in 1..m : inode[k].used => inode[k].blocks[l] # f[x]

\* The free blocks that the tool finds.
LEMMA FreeBlocksAre ==
  /\ FreeBlocks \in Seq(Blocks) /\ Len(FreeBlocks) \in Nat
  /\ \A x \in 1..Len(FreeBlocks) : FreeBlocks[x] \in Blocks \ UsedBlocks(inode)
  /\ \A x, y \in 1..Len(FreeBlocks) : FreeBlocks[x] = FreeBlocks[y] => x = y
  <1>1. PICK S : S = Blocks \ UsedBlocks(inode)
    OBVIOUS
  <1>2. S \subseteq Nat /\ S \subseteq Blocks
    BY <1>1, Constants
  <1>3. IsFiniteSet(S)
    <2>1. IsFiniteSet(Blocks)
      BY SimpleFSAssumption
    <2> QED BY <1>2, <2>1, FS_Subset
  <1>4. /\ Cardinality(S) \in Nat /\ InOrder(S) \in Seq(S) /\ Len(InOrder(S)) = Cardinality(S)
        /\ \A k \in 1..Cardinality(S) : InOrder(S)[k] \in S
        /\ \A k, l \in 1..Cardinality(S) : InOrder(S)[k] = InOrder(S)[l] => k = l
    BY <1>2, <1>3, InOrderIs
  <1>5. PICK q \in Seq(S) : q = InOrder(S)
    BY <1>4
  <1>6. q \in Seq(Blocks)
    <2>1. PICK n \in Nat : q \in [1..n -> S]
      OBVIOUS
    <2>2. q \in [1..n -> Blocks]
      BY <1>2, <2>1
    <2> QED BY <2>2
  <1>7. FreeBlocks = q
    BY <1>1, <1>5 DEF FreeBlocks
  <1> QED BY <1>1, <1>4, <1>5, <1>6, <1>7

\* The blocks of an inode in use, each once.
LEMMA OldBlocksAre ==
  ASSUME Types, Disjoint, NEW i \in Inodes, inode[i].used
  PROVE  /\ OldBlocks(i) \in Seq(Blocks) /\ Len(OldBlocks(i)) \in Nat
         /\ \A x \in 1..Len(OldBlocks(i)) : \E j \in Index : OldBlocks(i)[x] = inode[i].blocks[j]
         /\ \A x, y \in 1..Len(OldBlocks(i)) : OldBlocks(i)[x] = OldBlocks(i)[y] => x = y
  <1>1. PICK S : S = {j \in Index : inode[i].blocks[j] # 0}
    OBVIOUS
  <1>2. S \subseteq Nat /\ S \subseteq Index
    BY <1>1, Constants
  <1>3. IsFiniteSet(S)
    <2>1. 0 \in Int /\ Direct - 1 \in Int
      BY Constants
    <2>2. IsFiniteSet(Index)
      BY <2>1, FS_Interval DEF Index
    <2> QED BY <1>2, <2>2, FS_Subset
  <1>4. PICK q : q = InOrder(S)
    OBVIOUS
  <1>5. PICK n \in Nat : n = Cardinality(S)
    BY <1>3, FS_CardinalityType
  <1>6. /\ Len(q) = n /\ \A k \in 1..n : q[k] \in S
        /\ \A k, l \in 1..n : q[k] = q[l] => k = l
    BY <1>2, <1>3, <1>4, <1>5, InOrderIs
  <1>7. PICK p : p = [k \in 1..n |-> inode[i].blocks[q[k]]]
    OBVIOUS
  <1>8. OldBlocks(i) = p
    BY <1>1, <1>4, <1>6, <1>7 DEF OldBlocks
  <1>9. \A j \in S : inode[i].blocks[j] \in Blocks
    <2>1. inode[i].blocks \in [Index -> Blocks \cup {0}]
      BY DEF Types, InodeType
    <2> QED BY <1>1, <2>1
  <1>10. p \in [1..n -> Blocks]
    BY <1>6, <1>7, <1>9
  <1>11. p \in Seq(Blocks) /\ Len(p) = n
    BY <1>10
  <1>12. ASSUME NEW x \in 1..n, NEW y \in 1..n, p[x] = p[y] PROVE x = y
    <2>1. PICK j \in Index, l \in Index : j = q[x] /\ l = q[y] /\ inode[i].blocks[j] # 0
      BY <1>1, <1>6
    <2>2. inode[i].blocks[j] = inode[i].blocks[l]
      BY <1>7, <1>12, <2>1
    <2>3. j = l
      BY <2>1, <2>2 DEF Disjoint
    <2> QED BY <1>6, <2>1, <2>3
  <1>13. \A x \in 1..n : \E j \in Index : p[x] = inode[i].blocks[j]
    BY <1>2, <1>6, <1>7
  <1> QED BY <1>8, <1>11, <1>12, <1>13

\* What put_file has to choose from.
Choice(i, known) == IF known THEN OldBlocks(i) \o FreeBlocks ELSE FreeBlocks

\* The first m of them will do.
LEMMA ToolBlocks ==
  ASSUME Types, Disjoint, NEW i \in Inodes, NEW known \in BOOLEAN, known => inode[i].used,
         NEW m \in Nat, Len(Choice(i, known)) >= m
  PROVE  \E f : Supply(f, m, i) /\ \A x \in 1..m : f[x] = Choice(i, known)[x]
  <1>1. PICK q \in Seq(Blocks) : q = FreeBlocks
    BY FreeBlocksAre
  <1>2. PICK n \in Nat : n = Len(q)
    BY <1>1, FreeBlocksAre
  <1>3. /\ \A x \in 1..n : q[x] \in Blocks \ UsedBlocks(inode)
        /\ \A x, y \in 1..n : q[x] = q[y] => x = y
    BY <1>1, <1>2, FreeBlocksAre
  <1>4. \A x \in 1..n, k \in Inodes, l \in Index : inode[k].used => inode[k].blocks[l] # q[x]
    BY <1>3, FreeBlock
  <1>5. CASE ~known
    <2>1. Choice(i, known) = q
      BY <1>1, <1>5 DEF Choice
    <2>2. n >= m
      BY <1>2, <2>1
    <2>3. PICK f : f = [x \in 1..m |-> q[x]]
      OBVIOUS
    <2>4. \A x \in 1..m : x \in 1..n /\ f[x] = q[x]
      BY <2>2, <2>3
    <2>5. f \in [1..m -> Blocks]
      BY <1>3, <2>3, <2>4
    <2>6. \A x, y \in 1..m : f[x] = f[y] => x = y
      BY <1>3, <2>4
    <2>7. \A k \in Inodes \ {i}, l \in Index, x \in 1..m : inode[k].used => inode[k].blocks[l] # f[x]
      BY <1>4, <2>4
    <2>8. Supply(f, m, i)
      BY <2>5, <2>6, <2>7 DEF Supply
    <2> QED BY <2>1, <2>4, <2>8
  <1>6. CASE known
    <2>1. PICK p \in Seq(Blocks) : p = OldBlocks(i)
      BY <1>6, OldBlocksAre, Zenon
    <2>2. PICK w \in Nat : w = Len(p)
      BY <1>6, <2>1, OldBlocksAre, Zenon
    <2>3. /\ \A x \in 1..w : \E j \in Index : p[x] = inode[i].blocks[j]
          /\ \A x, y \in 1..w : p[x] = p[y] => x = y
      BY <1>6, <2>1, <2>2, OldBlocksAre, Zenon
    <2>4. PICK a : a = p \o q
      OBVIOUS
    <2>5. Choice(i, known) = a
      BY <1>1, <1>6, <2>1, <2>4 DEF Choice
    <2>6. /\ a \in Seq(Blocks) /\ Len(a) = w + n
          /\ \A x \in 1..(w + n) : a[x] = IF x <= w THEN p[x] ELSE q[x - w]
      BY <1>2, <2>2, <2>4, ConcatProperties
    <2>7. w + n >= m
      BY <2>5, <2>6
    <2>8. PICK f : f = [x \in 1..m |-> a[x]]
      OBVIOUS
    <2>9. \A x \in 1..m : f[x] = a[x] /\ a[x] = IF x <= w THEN p[x] ELSE q[x - w]
      BY <2>6, <2>7, <2>8
    <2>10. \A x \in 1..m : f[x] \in Blocks
      <3>1. \A x \in 1..m : x \in 1..Len(a)
        BY <2>6, <2>7
      <3>2. \A x \in 1..Len(a) : a[x] \in Blocks
        BY <2>6, ElementOfSeq
      <3> QED BY <2>9, <3>1, <3>2
    <2>11. f \in [1..m -> Blocks]
      BY <2>8, <2>9, <2>10
    <2>12. ASSUME NEW x \in 1..m
           PROVE  \/ x \in 1..w /\ f[x] = p[x]
                  \/ x - w \in 1..n /\ f[x] = q[x - w]
      BY <2>7, <2>9
    <2>13. \A x \in 1..w, y \in 1..n : p[x] # q[y]
      BY <1>4, <1>6, <2>3, Zenon
    <2>14. ASSUME NEW x \in 1..m, NEW y \in 1..m, f[x] = f[y] PROVE x = y
      <3>1. CASE x \in 1..w /\ f[x] = p[x]
        <4>1. y \in 1..w /\ f[y] = p[y]
          BY <2>12, <2>13, <2>14, <3>1
        <4> QED BY <2>3, <2>14, <3>1, <4>1
      <3>2. CASE x - w \in 1..n /\ f[x] = q[x - w]
        <4>1. y - w \in 1..n /\ f[y] = q[y - w]
          BY <2>12, <2>13, <2>14, <3>2
        <4>2. x - w = y - w
          BY <1>3, <2>14, <3>2, <4>1
        <4> QED BY <4>2
      <3> QED BY <2>12, <3>1, <3>2
    <2>15. ASSUME NEW k \in Inodes \ {i}, NEW l \in Index, NEW x \in 1..m, inode[k].used
           PROVE  inode[k].blocks[l] # f[x]
      <3>1. CASE x \in 1..w /\ f[x] = p[x]
        <4>1. PICK j \in Index : p[x] = inode[i].blocks[j]
          BY <2>3, <3>1
        <4>2. f[x] # 0
          BY <2>10, Constants
        <4>3. inode[i].blocks[j] # inode[k].blocks[l]
          BY <1>6, <2>15, <3>1, <4>1, <4>2, Zenon DEF Disjoint
        <4> QED BY <3>1, <4>1, <4>3
      <3>2. CASE x - w \in 1..n /\ f[x] = q[x - w]
        BY <1>4, <2>15, <3>2
      <3> QED BY <2>12, <3>1, <3>2
    <2>16. Supply(f, m, i)
      BY <2>11, <2>14, <2>15 DEF Supply
    <2> QED BY <2>5, <2>9, <2>16
  <1> QED BY <1>5, <1>6

\* The tool changes inode i, which is no directory afterwards, and slot s of the root, the only
\* one that may name it: the slot is emptied, or names it.
RootEntry(i, s) ==
  /\ i # 0 /\ s \in Slots \ {1, 2}
  /\ \A k \in Inodes \ {i} : inode'[k] = inode[k]
  /\ ~(inode'[i].used /\ inode'[i].dir)
  /\ \A d \in Inodes \ {0, i} : IsDir(d) => Table(d)' = Table(d)
  /\ \A r \in Slots \ {s} : Table(0)'[r] = Table(0)[r]
  /\ \A d \in Inodes, r \in Slots : IsDir(d) /\ Proper(d, r) /\ Table(d)[r].ino = i => d = 0 /\ r = s
  /\ \/ Table(0)'[s].name = NoName
     \/ /\ Table(0)'[s].name \in Names /\ Table(0)'[s].ino = i /\ inode'[i].used
        /\ \A r \in Slots \ {s} : Table(0)[r].name # Table(0)'[s].name

\* Then the tree stays sound, whatever the inode was before.
LEMMA RootEntryKeepsTree ==
  ASSUME DiskInv, Types, NEW i \in Inodes, NEW s, RootEntry(i, s)
  PROVE  IsDir(0)' /\ DirInv' /\ OneName'
  <1>1. /\ i # 0 /\ s \in Slots /\ s # 1 /\ s # 2
        /\ \A k \in Inodes \ {i} : inode'[k] = inode[k]
        /\ ~(inode'[i].used /\ inode'[i].dir)
    BY DEF RootEntry
  <1>2. IsDir(0) /\ DirInv /\ OneName
    BY DEF DiskInv
  <1>3. ~IsDir(i)' /\ \A d \in Inodes \ {i} : IsDir(d)' <=> IsDir(d)
    BY <1>1 DEF IsDir
  <1>4. IsDir(0)'
    BY <1>1, <1>2, <1>3, Constants
  <1>5. ASSUME NEW d \in Inodes, d # i, IsDir(d), NEW r \in Slots, <<d, r>> # <<0, s>>
        PROVE  Table(d)'[r] = Table(d)[r] /\ (Proper(d, r)' <=> Proper(d, r))
    <2>1. Table(d)'[r] = Table(d)[r]
      BY <1>5 DEF RootEntry
    <2> QED BY <2>1 DEF Proper
  <1>6. \A d \in Inodes, r \in Slots : IsDir(d) /\ Proper(d, r) /\ Table(d)[r].ino = i => d = 0 /\ r = s
    BY DEF RootEntry
  <1>7. \/ Table(0)'[s].name = NoName
        \/ /\ Table(0)'[s].name \in Names /\ Table(0)'[s].ino = i /\ inode'[i].used
           /\ \A r \in Slots \ {s} : Table(0)[r].name # Table(0)'[s].name
    BY DEF RootEntry
  <1>8. /\ Table(0)'[s].name # "." /\ Table(0)'[s].name # ".."
        /\ Proper(0, s)' => /\ Table(0)'[s].ino = i /\ inode'[i].used
                            /\ \A r \in Slots \ {s} : Table(0)[r].name # Table(0)'[s].name
    <2>1. Proper(0, s)' => Table(0)'[s].name # NoName
      BY NamesProper DEF Proper
    <2> QED BY <1>7, <2>1, NamesProper
  <1>9. ASSUME NEW d \in Inodes, IsDir(d)' PROVE TableInv(d)'
    <2>1. d # i /\ IsDir(d) /\ TableInv(d)
      BY <1>2, <1>3, <1>9 DEF DirInv
    <2>2. Table(d)'[1] = Table(d)[1] /\ Table(d)'[2] = Table(d)[2]
      BY <1>1, <1>5, <2>1, Constants
    <2>3. Table(d)'[1].name = "." /\ Table(d)'[1].ino = d /\ Table(d)'[2].name = ".."
      BY <2>1, <2>2 DEF TableInv
    <2>4. ASSUME NEW r \in Slots, r # 1, r # 2 PROVE Table(d)'[r].name # "." /\ Table(d)'[r].name # ".."
      <3>1. CASE <<d, r>> = <<0, s>>
        BY <1>8, <3>1
      <3>2. CASE <<d, r>> # <<0, s>>
        <4>1. Table(d)'[r] = Table(d)[r]
          BY <1>5, <2>1, <3>2
        <4> QED BY <2>1, <2>4, <4>1 DEF TableInv
      <3> QED BY <3>1, <3>2
    <2>5. ASSUME NEW r \in Slots, Proper(d, r)'
          PROVE  /\ inode'[Table(d)'[r].ino].used /\ Table(d)'[r].ino # 0
                 /\ (inode[Table(d)[r].ino].dir => IsDir(Table(d)[r].ino) /\ Table(Table(d)[r].ino)[2].ino = d)'
      <3>1. CASE <<d, r>> = <<0, s>>
        <4>1. Table(d)'[r].ino = i /\ inode'[i].used /\ ~inode'[i].dir /\ i # 0
          BY <1>1, <1>8, <2>5, <3>1
        <4> QED BY <4>1
      <3>2. CASE <<d, r>> # <<0, s>>
        <4>1. Proper(d, r) /\ Table(d)'[r] = Table(d)[r]
          BY <1>5, <2>1, <2>5, <3>2
        <4>2. PICK k \in Inodes : k = Table(d)[r].ino
          BY <2>1, TableType
        <4>3. k # i
          BY <1>6, <2>1, <3>2, <4>1, <4>2
        <4>4. inode[k].used /\ k # 0 /\ (inode[k].dir => IsDir(k) /\ Table(k)[2].ino = d)
          BY <2>1, <4>1, <4>2 DEF TableInv
        <4>5. inode'[k] = inode[k] /\ (IsDir(k)' <=> IsDir(k)) /\ (IsDir(k) => Table(k)'[2] = Table(k)[2])
          BY <1>1, <1>3, <1>5, <4>3, <4>4, Constants
        <4>6. inode'[k].used /\ (inode'[k].dir => IsDir(k)' /\ Table(k)'[2].ino = d)
          BY <4>4, <4>5
        <4>7. Table(d)'[r].ino = k
          BY <4>1, <4>2
        <4> QED BY <4>4, <4>6, <4>7
      <3> QED BY <3>1, <3>2
    <2>6. ASSUME NEW r \in Slots, Proper(d, r)', NEW q \in Slots, Table(d)'[q].name = Table(d)'[r].name
          PROVE  q = r
      <3>1. CASE d # 0
        <4>1. Proper(d, r) /\ Table(d)'[r] = Table(d)[r] /\ Table(d)'[q] = Table(d)[q]
          BY <1>5, <2>1, <2>6, <3>1
        <4> QED BY <2>1, <2>6, <4>1 DEF TableInv
      <3>2. CASE d = 0 /\ r = s
        <4>1. ASSUME q # s PROVE FALSE
          <5>1. Table(0)'[q] = Table(0)[q]
            BY <1>5, <2>1, <3>2, <4>1
          <5>2. Table(0)[q].name # Table(0)'[s].name
            BY <1>8, <2>6, <3>2, <4>1
          <5> QED BY <2>6, <3>2, <5>1, <5>2
        <4> QED BY <3>2, <4>1
      <3>3. CASE d = 0 /\ r # s /\ q = s
        <4>1. Table(0)'[r] = Table(0)[r] /\ Proper(0, s)'
          <5>1. Table(0)'[r] = Table(0)[r]
            BY <1>5, <2>1, <3>3
          <5> QED BY <2>6, <3>3, <5>1 DEF Proper
        <4>2. Table(0)[r].name # Table(0)'[s].name
          BY <1>8, <3>3, <4>1
        <4> QED BY <2>6, <3>3, <4>1, <4>2
      <3>4. CASE d = 0 /\ r # s /\ q # s
        <4>1. Proper(d, r) /\ Table(d)'[r] = Table(d)[r] /\ Table(d)'[q] = Table(d)[q]
          BY <1>5, <2>1, <2>6, <3>4
        <4> QED BY <2>1, <2>6, <4>1 DEF TableInv
      <3> QED BY <3>1, <3>2, <3>3, <3>4
    <2> QED BY <2>3, <2>4, <2>5, <2>6 DEF TableInv
  <1>10. DirInv'
    BY <1>9 DEF DirInv
  <1>11. OneName'
    <2> SUFFICES ASSUME NEW d \in Inodes, NEW e \in Inodes, NEW q \in Slots, NEW r \in Slots,
                        IsDir(d)', IsDir(e)', Proper(d, q)', Proper(e, r)', Table(d)'[q].ino = Table(e)'[r].ino
                 PROVE  d = e /\ q = r
      BY DEF OneName
    <2>1. d # i /\ IsDir(d) /\ e # i /\ IsDir(e)
      BY <1>3
    <2>2. ASSUME NEW c \in Inodes, NEW x \in Slots, c # i, IsDir(c), <<c, x>> # <<0, s>>, Proper(c, x)'
          PROVE  Table(c)'[x].ino # i /\ Proper(c, x) /\ Table(c)'[x] = Table(c)[x]
      BY <1>5, <1>6, <2>2
    <2>3. CASE <<d, q>> = <<0, s>> /\ <<e, r>> # <<0, s>>
      <3>1. Table(d)'[q].ino = i
        BY <1>8, <2>3
      <3> QED BY <2>1, <2>2, <2>3, <3>1
    <2>4. CASE <<e, r>> = <<0, s>> /\ <<d, q>> # <<0, s>>
      <3>1. Table(e)'[r].ino = i
        BY <1>8, <2>4
      <3> QED BY <2>1, <2>2, <2>4, <3>1
    <2>5. CASE <<d, q>> # <<0, s>> /\ <<e, r>> # <<0, s>>
      <3>1. Proper(d, q) /\ Proper(e, r) /\ Table(d)[q].ino = Table(e)[r].ino
        BY <2>1, <2>2, <2>5
      <3> QED BY <1>2, <2>1, <3>1 DEF OneName
    <2> QED BY <2>3, <2>4, <2>5
  <1> QED BY <1>4, <1>10, <1>11

\* On a machine that is off there is no call.
LEMMA Resting ==
  ASSUME FSInv, up = "off", UNCHANGED <<magic, up, fmt, op>>, tools' = tools + 1,
         inode' \in [Inodes -> InodeType], data' \in [Blocks -> SectorType], DiskInv'
  PROVE  FSInv'
  <1>1. Types'
    BY DEF FSInv, Types
  <1>2. CallInv' /\ FormatInv'
    <2>1. \A a \in Actors : op'[a] = Idle
      BY DEF FSInv, CallInv
    <2> QED BY <2>1 DEF CallInv, FormatInv
  <1> QED BY <1>1, <1>2 DEF FSInv

\* Sector x with entry e at slot s of its table.
WithEntry(x, s, e) == [x EXCEPT !.table[s] = e]

\* Entry e at slot s of the root's table, in the root's sector.
LEMMA RootSector ==
  ASSUME Types, DiskInv, NEW s \in Slots, NEW e \in EntryType, NEW x \in SectorType,
         x.table = Table(0), NEW y, y = WithEntry(x, s, e)
  PROVE  /\ y \in SectorType /\ y.of = x.of /\ y.table[s] = e
         /\ \A r \in Slots \ {s} : y.table[r] = Table(0)[r]
  <1>1. x.table \in [Slots -> EntryType] /\ x.of \in {<<>>} \cup (Inodes \X Index)
        /\ x = [table |-> x.table, of |-> x.of]
    BY DEF SectorType
  <1>2. PICK t : t = [x.table EXCEPT ![s] = e]
    OBVIOUS
  <1>3. y = [table |-> t, of |-> x.of]
    BY <1>1, <1>2 DEF WithEntry
  <1>4. t \in [Slots -> EntryType] /\ t[s] = e /\ \A r \in Slots \ {s} : t[r] = x.table[r]
    BY <1>1, <1>2
  <1>5. y.table = t /\ y.of = x.of
    BY <1>3
  <1>6. y \in SectorType
    BY <1>1, <1>3, <1>4 DEF SectorType
  <1> QED BY <1>4, <1>5, <1>6

\* An entry that is not in use.
LEMMA NoEntryIs == NoEntry \in EntryType /\ NoEntry.name = NoName
  <1>1. NoEntry = [name |-> NoName, ino |-> 0]
    BY DEF NoEntry
  <1>2. NoEntry.name = NoName
    BY <1>1, EntryIs
  <1>3. NoEntry \in EntryType
    BY <1>1, Constants DEF EntryType
  <1> QED BY <1>2, <1>3

\* The root's table lies in a sector that nobody else has.
LEMMA RootIs ==
  ASSUME Types, DiskInv
  PROVE  /\ IsDir(0) /\ TableInv(0) /\ inode[0].blocks[0] \in Blocks
         /\ data[inode[0].blocks[0]] \in SectorType /\ data[inode[0].blocks[0]].table = Table(0)
         /\ \A d \in Inodes \ {0} : IsDir(d) =>
              inode[d].blocks[0] \in Blocks /\ inode[d].blocks[0] # inode[0].blocks[0]
  <1>1. IsDir(0) /\ TableInv(0)
    BY Constants DEF DiskInv, DirInv
  <1>2. \A d \in Inodes : IsDir(d) => inode[d].blocks[0] \in Blocks
    BY TableType
  <1>3. \A d \in Inodes \ {0} : IsDir(d) => inode[d].blocks[0] # inode[0].blocks[0]
    BY <1>1, Constants DEF DiskInv, Disjoint, IsDir
  <1>4. inode[0].blocks[0] \in Blocks
    BY <1>1, <1>2, Constants
  <1>5. data[inode[0].blocks[0]] \in SectorType
    BY <1>4 DEF Types
  <1> QED BY <1>1, <1>2, <1>3, <1>4, <1>5 DEF Table

\* What the entry of a name in the root names.
LEMMA RootNames ==
  ASSUME Types, DiskInv, NEW s \in Slots, NEW n \in Names, Table(0)[s].name = n
  PROVE  LET i == Table(0)[s].ino
         IN /\ i \in Inodes /\ i # 0 /\ inode[i].used /\ s # 1 /\ s # 2
            /\ \A r \in Slots \ {s} : Table(0)[r].name # n
            /\ \A d \in Inodes, r \in Slots : IsDir(d) /\ Proper(d, r) /\ Table(d)[r].ino = i => d = 0 /\ r = s
  <1>1. IsDir(0) /\ TableInv(0)
    BY RootIs
  <1>2. Proper(0, s)
    BY DEF Proper
  <1>3. PICK i \in Inodes : i = Table(0)[s].ino
    BY <1>1, TableType, Constants
  <1>4. i # 0 /\ inode[i].used /\ \A r \in Slots \ {s} : Table(0)[r].name # n
    BY <1>1, <1>2, <1>3 DEF TableInv
  <1>5. s # 1 /\ s # 2
    BY <1>1, NamesProper DEF TableInv
  <1>6. \A d \in Inodes, r \in Slots : IsDir(d) /\ Proper(d, r) /\ Table(d)[r].ino = i => d = 0 /\ r = s
    BY <1>1, <1>2, <1>3, Constants DEF DiskInv, OneName
  <1> QED BY <1>3, <1>4, <1>5, <1>6

\* rm_file leaves the disk sound and the contents of the other files what they were.
LEMMA RmKeepsInv ==
  ASSUME FSInv, NEW n \in Names, ToolRm(n)
  PROVE  FSInv' /\ (NoStale => NoStale')
  <1>1. /\ up = "off" /\ magic /\ UNCHANGED <<magic, up, fmt, op>> /\ tools' = tools + 1
    BY DEF ToolRm
  <1>2. Types /\ DiskInv
    BY <1>1 DEF FSInv
  <1>3. PICK s \in Slots :
          /\ Table(0)[s].name = n /\ ~inode[Table(0)[s].ino].dir
          /\ inode' = [inode EXCEPT ![Table(0)[s].ino] = ZeroInode]
          /\ data' = [data EXCEPT ![inode[0].blocks[0]].table[s] = NoEntry]
    BY DEF ToolRm
  <1>4. PICK i \in Inodes : i = Table(0)[s].ino
    BY <1>2, <1>3, RootNames
  <1>5. /\ i # 0 /\ inode[i].used /\ s # 1 /\ s # 2 /\ ~inode[i].dir
        /\ \A d \in Inodes, r \in Slots : IsDir(d) /\ Proper(d, r) /\ Table(d)[r].ino = i => d = 0 /\ r = s
    BY <1>2, <1>3, <1>4, RootNames
  <1>6. PICK b \in Blocks : b = inode[0].blocks[0]
    BY <1>2, RootIs
  <1>7. PICK x \in SectorType : x = data[b] /\ x.table = Table(0)
    BY <1>2, <1>6, RootIs
  <1>8. PICK y : y = WithEntry(x, s, NoEntry)
    OBVIOUS
  <1>9. /\ y \in SectorType /\ y.of = x.of /\ y.table[s] = NoEntry
        /\ \A r \in Slots \ {s} : y.table[r] = Table(0)[r]
    BY <1>2, <1>7, <1>8, NoEntryIs, RootSector
  <1>10. data' = [data EXCEPT ![b] = y]
    BY <1>2, <1>3, <1>6, <1>7, <1>8 DEF Types, WithEntry
  <1>11. data'[b] = y /\ (\A c \in Blocks \ {b} : data'[c] = data[c]) /\ data' \in [Blocks -> SectorType]
    BY <1>2, <1>9, <1>10 DEF Types
  <1>12. /\ inode'[i] = ZeroInode /\ (\A k \in Inodes \ {i} : inode'[k] = inode[k])
         /\ inode' \in [Inodes -> InodeType]
    BY <1>2, <1>3, <1>4, InodeTypes DEF Types
  <1>13. ~inode'[i].used
    BY <1>12 DEF ZeroInode
  <1>14. Table(0)' = y.table
    BY <1>5, <1>6, <1>11, <1>12, Constants DEF Table
  <1>15. \A d \in Inodes \ {0, i} : IsDir(d) => Table(d)' = Table(d)
    <2>1. \A d \in Inodes \ {0} : IsDir(d) => inode[d].blocks[0] \in Blocks \ {b}
      BY <1>2, <1>6, RootIs
    <2> QED BY <1>11, <1>12, <2>1 DEF Table
  <1>16. RootEntry(i, s)
    <2>1. Table(0)'[s].name = NoName /\ \A r \in Slots \ {s} : Table(0)'[r] = Table(0)[r]
      BY <1>9, <1>14, NoEntryIs
    <2> QED BY <1>5, <1>12, <1>13, <1>15, <2>1 DEF RootEntry
  <1>17. Disjoint'
    BY <1>2, <1>12, <1>13 DEF DiskInv, Disjoint
  <1>18. DiskInv'
    BY <1>2, <1>16, <1>17, RootEntryKeepsTree DEF DiskInv
  <1>19. FSInv'
    BY <1>1, <1>11, <1>12, <1>18, Resting
  <1>20. ASSUME NoStale, NEW k \in Inodes, inode'[k].used, ~inode'[k].dir, NEW j \in Extent(inode'[k].size)
         PROVE  j \in Index /\ inode'[k].blocks[j] # 0 /\ data'[inode'[k].blocks[j]].of = <<k, j>>
    <2>1. inode'[k] = inode[k]
      BY <1>12, <1>13, <1>20
    <2>2. j \in Index /\ inode[k].blocks[j] # 0 /\ data[inode[k].blocks[j]].of = <<k, j>>
      BY <1>20, <2>1 DEF NoStale
    <2>3. inode[k].blocks[j] \in Blocks
      BY <1>2, <2>2 DEF Types, InodeType
    <2>4. data'[inode[k].blocks[j]].of = data[inode[k].blocks[j]].of
      BY <1>7, <1>9, <1>11, <2>3
    <2> QED BY <2>1, <2>2, <2>4
  <1>21. NoStale => NoStale'
    BY <1>20 DEF NoStale, Extent
  <1> QED BY <1>19, <1>21

\* The sectors once put_file has written file i to the first m blocks of all.
Filling(i, all, m) ==
  [b \in Blocks |-> IF \E j \in 1..m : all[j] = b
                    THEN FileSector(i, (CHOOSE j \in 1..m : all[j] = b) - 1) ELSE data[b]]

\* f holds the sectors in the order of the file, and g is the disk with them written.
LEMMA FillingIs ==
  ASSUME Types, NEW i \in Inodes, NEW m \in 0..Direct, NEW f, Supply(f, m, i),
         NEW all, \A x \in 1..m : f[x] = all[x], NEW g, g = Filling(i, all, m)
  PROVE  /\ g \in [Blocks -> SectorType] /\ \A x \in 1..m : g[f[x]].of = <<i, x - 1>>
         /\ \A b \in Blocks : (\A x \in 1..m : f[x] # b) => g[b] = data[b]
  <1>1. f \in [1..m -> Blocks] /\ \A x, y \in 1..m : f[x] = f[y] => x = y
    BY DEF Supply
  <1> DEFINE At(b) == CHOOSE j \in 1..m : all[j] = b
             Here(b) == \E j \in 1..m : all[j] = b
  <1>2. g = [b \in Blocks |-> IF Here(b) THEN FileSector(i, At(b) - 1) ELSE data[b]]
    BY DEF Filling
  <1>3. ASSUME NEW b \in Blocks, Here(b) PROVE At(b) \in 1..m /\ f[At(b)] = b
    <2>1. At(b) \in 1..m /\ all[At(b)] = b
      BY <1>3
    <2> QED BY <2>1
  <1>4. \A b \in Blocks : Here(b) <=> \E x \in 1..m : f[x] = b
    OBVIOUS
  <1> HIDE DEF At, Here
  <1>5. \A j \in 1..m : FileSector(i, j - 1) \in SectorType /\ FileSector(i, j - 1).of = <<i, j - 1>>
    <2>1. ASSUME NEW j \in 1..m PROVE FileSector(i, j - 1) \in SectorType /\ FileSector(i, j - 1).of = <<i, j - 1>>
      <3>1. j - 1 \in Index
        BY Constants DEF Index
      <3>2. PICK l \in Index : l = j - 1
        BY <3>1
      <3>3. FileSector(i, l) \in SectorType
        BY SectorTypes
      <3>4. FileSector(i, l).of = <<i, l>>
        BY DEF FileSector
      <3> QED BY <3>2, <3>3, <3>4
    <2> QED BY <2>1
  <1>6. \A b \in Blocks : g[b] = IF Here(b) THEN FileSector(i, At(b) - 1) ELSE data[b]
    BY <1>2
  <1>7. \A b \in Blocks : g[b] \in SectorType
    BY <1>3, <1>5, <1>6 DEF Types
  <1>8. g \in [Blocks -> SectorType]
    BY <1>2, <1>7
  <1>9. ASSUME NEW x \in 1..m PROVE g[f[x]].of = <<i, x - 1>>
    <2>1. PICK b \in Blocks : b = f[x]
      BY <1>1
    <2>2. Here(b) /\ At(b) \in 1..m /\ f[At(b)] = f[x]
      BY <1>3, <1>4, <2>1
    <2>3. At(b) = x
      BY <1>1, <2>2
    <2> QED BY <1>5, <1>6, <2>1, <2>2, <2>3
  <1>10. \A b \in Blocks : (\A x \in 1..m : f[x] # b) => g[b] = data[b]
    BY <1>4, <1>6
  <1> QED BY <1>8, <1>9, <1>10

\* Inode i becomes a file of z bytes in the m blocks f.
BecomesFile(i, f, m, z) ==
  /\ inode' \in [Inodes -> InodeType] /\ \A k \in Inodes \ {i} : inode'[k] = inode[k]
  /\ inode'[i].used /\ ~inode'[i].dir /\ inode'[i].size = z
  /\ \A j \in Index : inode'[i].blocks[j] = IF j < m THEN f[j + 1] ELSE 0

\* The blocks stay disjoint.
LEMMA FileDisjoint ==
  ASSUME Types, Disjoint, NEW i \in Inodes, NEW m \in 0..Direct, NEW f, Supply(f, m, i), NEW z,
         BecomesFile(i, f, m, z)
  PROVE  Disjoint'
  <1>1. \A j \in Index : j < m => j + 1 \in 1..m /\ inode'[i].blocks[j] = f[j + 1]
    BY Constants DEF BecomesFile, Index
  <1>2. \A j \in Index : ~(j < m) => inode'[i].blocks[j] = 0
    BY DEF BecomesFile
  <1>3. \A j, l \in Index : j < m /\ l < m /\ f[j + 1] = f[l + 1] => j = l
    <2>1. \A j, l \in Index : j < m /\ l < m /\ f[j + 1] = f[l + 1] => j + 1 = l + 1
      BY <1>1 DEF Supply
    <2> QED BY <2>1, Constants
  <1>4. \A k \in Inodes \ {i}, l \in Index, j \in Index :
          inode[k].used /\ j < m => inode[k].blocks[l] # inode'[i].blocks[j]
    BY <1>1 DEF Supply
  <1>5. \A k \in Inodes \ {i} : inode'[k] = inode[k]
    BY DEF BecomesFile
  <1>6. \A j, l \in Index : j # l /\ inode'[i].blocks[j] # 0 => inode'[i].blocks[j] # inode'[i].blocks[l]
    BY <1>1, <1>2, <1>3
  <1>7. ASSUME NEW a \in Inodes, NEW k \in Inodes, NEW j \in Index, NEW l \in Index,
               inode'[a].used, inode'[k].used, <<a, j>> # <<k, l>>, inode'[a].blocks[j] # 0
        PROVE  inode'[a].blocks[j] # inode'[k].blocks[l]
    <2>1. CASE a # i /\ k # i
      BY <1>5, <1>7, <2>1 DEF Disjoint
    <2>2. CASE a = i /\ k = i
      BY <1>6, <1>7, <2>2
    <2>3. CASE a = i /\ k # i
      BY <1>2, <1>4, <1>5, <1>7, <2>3
    <2>4. CASE a # i /\ k = i
      BY <1>2, <1>4, <1>5, <1>7, <2>4
    <2> QED BY <2>1, <2>2, <2>3, <2>4
  <1> QED BY <1>7 DEF Disjoint

\* The blocks f hold what was put in file i, and the others what they did.
Written(i, f, m) ==
  /\ \A x \in 1..m : data'[f[x]].of = <<i, x - 1>>
  /\ \A b \in Blocks : (\A x \in 1..m : f[x] # b) => data'[b].of = data[b].of

\* So the new file shows what was put, and the others what they did.
LEMMA FileShows ==
  ASSUME Types, NoStale, NEW i \in Inodes, NEW z \in Nat, NEW m \in 0..Direct,
         m = (z + SectorSize - 1) \div SectorSize, NEW f, Supply(f, m, i), BecomesFile(i, f, m, z),
         Written(i, f, m)
  PROVE  NoStale'
  <1>1. ASSUME NEW k \in Inodes, inode'[k].used, ~inode'[k].dir, NEW j \in Extent(inode'[k].size)
        PROVE  j \in Index /\ inode'[k].blocks[j] # 0 /\ data'[inode'[k].blocks[j]].of = <<k, j>>
    <2>1. CASE k = i
      <3>1. z - 1 + SectorSize = z + SectorSize - 1
        BY Constants
      <3>2. j \in 0..(m - 1)
        <4>1. inode'[k].size = z
          BY <2>1 DEF BecomesFile
        <4> QED BY <1>1, <3>1, <4>1 DEF Extent
      <3>3. j \in Index /\ j < m /\ j + 1 \in 1..m /\ j + 1 - 1 = j
        BY <3>2, Constants DEF Index
      <3>4. inode'[i].blocks[j] = f[j + 1]
        BY <3>3 DEF BecomesFile
      <3>5. f[j + 1] \in Blocks
        BY <3>3 DEF Supply
      <3>6. data'[f[j + 1]].of = <<i, j>>
        <4>1. PICK x \in 1..m : x = j + 1 /\ x - 1 = j
          BY <3>3, Constants
        <4>2. data'[f[x]].of = <<i, x - 1>>
          BY DEF Written
        <4> QED BY <4>1, <4>2
      <3> QED BY <2>1, <3>3, <3>4, <3>5, <3>6, Constants
    <2>2. CASE k # i
      <3>1. inode'[k] = inode[k]
        BY <2>2 DEF BecomesFile
      <3>2. j \in Index /\ inode[k].blocks[j] # 0 /\ data[inode[k].blocks[j]].of = <<k, j>>
        BY <1>1, <3>1 DEF NoStale
      <3>3. inode[k].blocks[j] \in Blocks
        BY <3>2 DEF Types, InodeType
      <3>4. \A x \in 1..m : f[x] # inode[k].blocks[j]
        BY <1>1, <2>2, <3>1, <3>2 DEF Supply
      <3> QED BY <3>1, <3>2, <3>3, <3>4 DEF Written
    <2> QED BY <2>1, <2>2
  <1> QED BY <1>1 DEF NoStale, Extent

\* What put_file writes in the inode table.
LEMMA PutInode ==
  ASSUME Types, NEW i \in Inodes, NEW z \in ToolSizes, NEW m \in 0..Direct, NEW f, Supply(f, m, i),
         NEW all, \A x \in 1..m : f[x] = all[x],
         inode' = [inode EXCEPT ![i] = [used |-> TRUE, dir |-> FALSE, size |-> z,
                     blocks |-> [j \in Index |-> IF j < m THEN all[j + 1] ELSE 0]]]
  PROVE  BecomesFile(i, f, m, z)
  <1>1. PICK t : t = [j \in Index |-> IF j < m THEN all[j + 1] ELSE 0]
    OBVIOUS
  <1>2. PICK v : v = [used |-> TRUE, dir |-> FALSE, size |-> z, blocks |-> t]
    OBVIOUS
  <1>3. \A j \in Index : j < m => j + 1 \in 1..m
    BY Constants DEF Index
  <1>4. \A j \in Index : t[j] = IF j < m THEN f[j + 1] ELSE 0
    BY <1>1, <1>3
  <1>5. t \in [Index -> Blocks \cup {0}]
    <2>1. \A j \in Index : t[j] \in Blocks \cup {0}
      BY <1>3, <1>4 DEF Supply
    <2> QED BY <1>1, <2>1
  <1>6. z \in 0..(SizeMod - 1)
    BY SimpleFSAssumption
  <1>7. v \in InodeType
    BY <1>2, <1>5, <1>6 DEF InodeType
  <1>8. inode' = [inode EXCEPT ![i] = v]
    BY <1>1, <1>2
  <1>9. inode' \in [Inodes -> InodeType] /\ inode'[i] = v /\ \A k \in Inodes \ {i} : inode'[k] = inode[k]
    BY <1>7, <1>8 DEF Types
  <1>10. v.used /\ ~v.dir /\ v.size = z /\ v.blocks = t
    BY <1>2
  <1> QED BY <1>4, <1>9, <1>10 DEF BecomesFile

\* File i is in the blocks f, and g is the disk but for the root's entry.
Parts(z, m, i, f, g) ==
  /\ Supply(f, m, i) /\ BecomesFile(i, f, m, z)
  /\ g \in [Blocks -> SectorType] /\ \A x \in 1..m : g[f[x]].of = <<i, x - 1>>
  /\ \A c \in Blocks : (\A x \in 1..m : f[x] # c) => g[c] = data[c]
  /\ g[inode[0].blocks[0]] = data[inode[0].blocks[0]]

\* What put_file changes of the tables when it leaves y in the root's sector.
PutDone(i, y) ==
  /\ inode' \in [Inodes -> InodeType] /\ \A k \in Inodes \ {i} : inode'[k] = inode[k]
  /\ inode'[i].used /\ ~inode'[i].dir
  /\ data' \in [Blocks -> SectorType] /\ Table(0)' = y.table
  /\ \A d \in Inodes \ {0, i} : IsDir(d) => Table(d)' = Table(d)
  /\ Disjoint' /\ (NoStale => NoStale')

\* All other tables and files are left alone.
LEMMA PutEffect ==
  ASSUME Types, DiskInv, NEW z \in ToolSizes, NEW m \in 0..Direct, m = (z + SectorSize - 1) \div SectorSize,
         NEW i \in Inodes, i # 0, NEW f, NEW g, Parts(z, m, i, f, g),
         NEW b \in Blocks, b = inode[0].blocks[0], NEW y \in SectorType, y.of = data[b].of,
         data' = [g EXCEPT ![b] = y]
  PROVE  PutDone(i, y)
  <1>1. /\ Supply(f, m, i) /\ BecomesFile(i, f, m, z)
        /\ g \in [Blocks -> SectorType] /\ \A x \in 1..m : g[f[x]].of = <<i, x - 1>>
        /\ \A c \in Blocks : (\A x \in 1..m : f[x] # c) => g[c] = data[c]
    BY DEF Parts
  <1>2. data' \in [Blocks -> SectorType] /\ data'[b] = y /\ \A c \in Blocks \ {b} : data'[c] = g[c]
    BY <1>1
  <1>3. \A d \in Inodes \ {i}, x \in 1..m : IsDir(d) => f[x] # inode[d].blocks[0]
    BY <1>1, Constants DEF Supply, IsDir
  <1>4. \A x \in 1..m : f[x] # b
    BY <1>3, RootIs, Constants
  <1>5. /\ inode' \in [Inodes -> InodeType] /\ \A k \in Inodes \ {i} : inode'[k] = inode[k]
        /\ inode'[i].used /\ ~inode'[i].dir
    BY <1>1 DEF BecomesFile
  <1>6. Table(0)' = y.table
    BY <1>2, <1>5, Constants DEF Table
  <1>7. ASSUME NEW d \in Inodes \ {0, i}, IsDir(d) PROVE Table(d)' = Table(d)
    <2>1. PICK c \in Blocks \ {b} : c = inode[d].blocks[0]
      BY <1>7, RootIs
    <2>2. data'[c] = data[c]
      BY <1>1, <1>2, <1>3, <1>7, <2>1
    <2> QED BY <1>5, <2>1, <2>2 DEF Table
  <1>8. Disjoint'
    BY <1>1, FileDisjoint DEF DiskInv
  <1>9. \A x \in 1..m : data'[f[x]].of = <<i, x - 1>>
    BY <1>1, <1>2, <1>4 DEF Supply
  <1>10. ASSUME NEW c \in Blocks, \A x \in 1..m : f[x] # c PROVE data'[c].of = data[c].of
    BY <1>1, <1>2, <1>10
  <1>11. NoStale => NoStale'
    <2>1. Written(i, f, m)
      BY <1>9, <1>10 DEF Written
    <2>2. z \in Nat
      BY SimpleFSAssumption
    <2>3. Supply(f, m, i) /\ BecomesFile(i, f, m, z)
      BY <1>1
    <2> QED BY <2>1, <2>2, <2>3, FileShows
  <1> QED BY <1>2, <1>5, <1>6, <1>7, <1>8, <1>11 DEF PutDone

\* The writes of put_file when all are the blocks it has to choose from, slots the ones it
\* may enter the name in.
Puts(n, z, m, i, all, slots) ==
  /\ Len(all) >= m
  /\ inode' = [inode EXCEPT ![i] = [used |-> TRUE, dir |-> FALSE, size |-> z,
                 blocks |-> [j \in Index |-> IF j < m THEN all[j + 1] ELSE 0]]]
  /\ data' = IF slots = {} THEN Filling(i, all, m)
             ELSE [Filling(i, all, m) EXCEPT ![inode[0].blocks[0]].table[Min(slots)] = [name |-> n, ino |-> i]]

\* put_file finds the name, or takes a free inode.
LEMMA PutCases ==
  ASSUME NEW n \in Names, NEW z \in ToolSizes, ToolPut(n, z), NEW m, m = (z + SectorSize - 1) \div SectorSize
  PROVE  \/ \E s \in Slots : Table(0)[s].name = n /\ Puts(n, z, m, Table(0)[s].ino, Choice(Table(0)[s].ino, TRUE), {})
         \/ /\ \A s \in Slots : Table(0)[s].name # n
            /\ \E i \in FreeInodes \ {0} : Puts(n, z, m, i, Choice(i, FALSE), EmptySlots(0))
  <1> DEFINE known == Lookup(0, n) # {}
             all(i) == IF known THEN OldBlocks(i) \o FreeBlocks ELSE FreeBlocks
             slots == IF known THEN {} ELSE EmptySlots(0)
             from == IF known THEN Lookup(0, n) ELSE {k \in FreeInodes \ {0} : \A f \in FreeInodes \ {0} : k <= f}
  <1>1. PICK i \in from : Puts(n, z, (z + SectorSize - 1) \div SectorSize, i, all(i), slots)
    BY Zenon DEF ToolPut, Puts, Filling
  <1>2. Puts(n, z, m, i, all(i), slots)
    BY <1>1
  <1>3. CASE known
    <2>1. i \in Lookup(0, n) /\ all(i) = Choice(i, TRUE) /\ slots = {}
      BY <1>1, <1>3 DEF Choice
    <2>2. PICK s \in Slots : Table(0)[s].name = n /\ i = Table(0)[s].ino
      BY <2>1 DEF Lookup
    <2>3. Puts(n, z, m, i, Choice(i, TRUE), {})
      BY <1>2, <2>1
    <2> QED BY <2>2, <2>3
  <1>4. CASE ~known
    <2>1. i \in FreeInodes \ {0} /\ all(i) = Choice(i, FALSE) /\ slots = EmptySlots(0)
      BY <1>1, <1>4 DEF Choice
    <2>2. \A s \in Slots : Table(0)[s].name # n
      BY <1>4 DEF Lookup
    <2>3. Puts(n, z, m, i, Choice(i, FALSE), EmptySlots(0))
      BY <1>2, <2>1
    <2> QED BY <2>1, <2>2, <2>3
  <1> QED BY <1>3, <1>4

\* The writes of put_file but for the root's entry.
LEMMA PutParts ==
  ASSUME Types, DiskInv, NEW n, NEW z \in ToolSizes, NEW m \in 0..Direct, NEW i \in Inodes, i # 0,
         NEW known \in BOOLEAN, known => inode[i].used, NEW slots, Puts(n, z, m, i, Choice(i, known), slots)
  PROVE  \E f : Parts(z, m, i, f, Filling(i, Choice(i, known), m))
  <1>1. PICK all : all = Choice(i, known)
    OBVIOUS
  <1>2. Len(all) >= m /\ m \in Nat
    BY <1>1, Constants DEF Puts
  <1>3. PICK f : Supply(f, m, i) /\ \A x \in 1..m : f[x] = all[x]
    BY <1>1, <1>2, ToolBlocks DEF DiskInv
  <1>4. BecomesFile(i, f, m, z)
    BY <1>1, <1>3, PutInode DEF Puts
  <1>5. PICK g : g = Filling(i, all, m)
    OBVIOUS
  <1>6. /\ g \in [Blocks -> SectorType] /\ \A x \in 1..m : g[f[x]].of = <<i, x - 1>>
        /\ \A c \in Blocks : (\A x \in 1..m : f[x] # c) => g[c] = data[c]
    BY <1>3, <1>5, FillingIs
  <1>7. PICK b \in Blocks : b = inode[0].blocks[0]
    BY RootIs
  <1>8. \A x \in 1..m : f[x] # b
    BY <1>3, <1>7, RootIs, Constants DEF Supply, IsDir
  <1>9. g[b] = data[b]
    BY <1>6, <1>8
  <1>10. Parts(z, m, i, f, g)
    BY <1>3, <1>4, <1>6, <1>7, <1>9 DEF Parts
  <1> QED BY <1>1, <1>5, <1>10

\* The tree after put_file: the entry that names inode i, if one does, is at slot s.
LEMMA PutTree ==
  ASSUME FSInv, up = "off", magic, UNCHANGED <<magic, up, fmt, op>>, tools' = tools + 1,
         NEW i \in Inodes, NEW y, PutDone(i, y), NEW s, RootEntry(i, s)
  PROVE  FSInv' /\ (NoStale => NoStale')
  <1>1. Types /\ DiskInv
    BY DEF FSInv
  <1>2. IsDir(0)' /\ DirInv' /\ OneName'
    BY <1>1, RootEntryKeepsTree
  <1>3. /\ inode' \in [Inodes -> InodeType] /\ data' \in [Blocks -> SectorType]
        /\ Disjoint' /\ (NoStale => NoStale')
    BY DEF PutDone
  <1>4. DiskInv'
    BY <1>2, <1>3 DEF DiskInv
  <1>5. FSInv'
    BY <1>3, <1>4, Resting
  <1> QED BY <1>3, <1>5

\* put_file of a name that the root has.
LEMMA PutOld ==
  ASSUME FSInv, up = "off", magic, UNCHANGED <<magic, up, fmt, op>>, tools' = tools + 1,
         NEW n \in Names, NEW z \in ToolSizes, NEW m \in 0..Direct, m = (z + SectorSize - 1) \div SectorSize,
         NEW s \in Slots, Table(0)[s].name = n, NEW i, i = Table(0)[s].ino,
         Puts(n, z, m, i, Choice(i, TRUE), {})
  PROVE  FSInv' /\ (NoStale => NoStale')
  <1>1. Types /\ DiskInv
    BY DEF FSInv
  <1>2. /\ i \in Inodes /\ i # 0 /\ inode[i].used /\ s # 1 /\ s # 2
        /\ \A r \in Slots \ {s} : Table(0)[r].name # n
        /\ \A d \in Inodes, r \in Slots : IsDir(d) /\ Proper(d, r) /\ Table(d)[r].ino = i => d = 0 /\ r = s
    BY <1>1, RootNames
  <1>3. PICK g : g = Filling(i, Choice(i, TRUE), m)
    OBVIOUS
  <1>4. PICK f : Parts(z, m, i, f, g)
    BY <1>1, <1>2, <1>3, PutParts
  <1>5. PICK b \in Blocks : b = inode[0].blocks[0]
    BY <1>1, RootIs
  <1>6. PICK y \in SectorType : y = data[b] /\ y.table = Table(0)
    BY <1>1, <1>5, RootIs
  <1>7. data' = g
    BY <1>3, Zenon DEF Puts
  <1>8. data' = [g EXCEPT ![b] = y]
    BY <1>4, <1>5, <1>6, <1>7 DEF Parts
  <1>9. PutDone(i, y)
    BY <1>1, <1>2, <1>4, <1>5, <1>6, <1>8, PutEffect
  <1>10. RootEntry(i, s)
    BY <1>2, <1>6, <1>9 DEF RootEntry, PutDone
  <1> QED BY <1>2, <1>9, <1>10, PutTree

\* put_file of a new name, which may find no room in the root.
LEMMA PutNew ==
  ASSUME FSInv, up = "off", magic, UNCHANGED <<magic, up, fmt, op>>, tools' = tools + 1,
         NEW n \in Names, NEW z \in ToolSizes, NEW m \in 0..Direct, m = (z + SectorSize - 1) \div SectorSize,
         \A s \in Slots : Table(0)[s].name # n, NEW i \in FreeInodes \ {0},
         Puts(n, z, m, i, Choice(i, FALSE), EmptySlots(0))
  PROVE  FSInv' /\ (NoStale => NoStale')
  <1>1. Types /\ DiskInv
    BY DEF FSInv
  <1>2. i \in Inodes /\ i # 0 /\ ~inode[i].used /\ ~IsDir(i)
    BY DEF FreeInodes, IsDir
  <1>3. \A d \in Inodes, r \in Slots : IsDir(d) /\ Proper(d, r) => Table(d)[r].ino # i
    BY <1>1, <1>2 DEF DiskInv, DirInv, TableInv
  <1>4. PICK g : g = Filling(i, Choice(i, FALSE), m)
    OBVIOUS
  <1>5. PICK f : Parts(z, m, i, f, g)
    BY <1>1, <1>2, <1>4, PutParts
  <1>6. PICK b \in Blocks : b = inode[0].blocks[0]
    BY <1>1, RootIs
  <1>7. PICK x \in SectorType : x = data[b] /\ x.table = Table(0)
    BY <1>1, <1>6, RootIs
  <1>8. g \in [Blocks -> SectorType] /\ g[b] = x
    BY <1>5, <1>6, <1>7 DEF Parts
  <1>9. CASE EmptySlots(0) = {}
    <2>1. data' = g
      BY <1>4, <1>9, Zenon DEF Puts
    <2>2. data' = [g EXCEPT ![b] = x]
      BY <1>8, <2>1
    <2>3. PutDone(i, x)
      BY <1>1, <1>2, <1>5, <1>6, <1>7, <2>2, PutEffect
    <2>4. \A d \in Inodes : IsDir(d)' <=> IsDir(d)
      BY <1>2, <2>3 DEF PutDone, IsDir
    <2>5. \A d \in Inodes : IsDir(d) => Table(d)' = Table(d)
      BY <1>2, <1>7, <2>3 DEF PutDone
    <2>6. \A k \in Inodes : inode[k].used => inode'[k].used /\ inode'[k].dir = inode[k].dir
      BY <1>2, <2>3 DEF PutDone
    <2>7. IsDir(0)' /\ DirInv' /\ OneName'
      BY <1>1, <2>4, <2>5, <2>6, TreeKept
    <2>8. /\ inode' \in [Inodes -> InodeType] /\ data' \in [Blocks -> SectorType]
          /\ Disjoint' /\ (NoStale => NoStale')
      BY <2>3 DEF PutDone
    <2>9. DiskInv'
      BY <2>7, <2>8 DEF DiskInv
    <2> QED BY <2>8, <2>9, Resting
  <1>10. CASE EmptySlots(0) # {}
    <2>1. PICK s \in EmptySlots(0) : s = Min(EmptySlots(0))
      <3>1. EmptySlots(0) \in SUBSET Nat
        BY Constants DEF EmptySlots, Slots
      <3>2. \E x1 \in EmptySlots(0) : \A x2 \in EmptySlots(0) : x1 <= x2
        BY <1>10, <3>1, Least
      <3> QED BY <3>2, Zenon DEF Min
    <2>2. s \in Slots /\ Table(0)[s] = NoEntry
      BY <2>1 DEF EmptySlots
    <2>3. s # 1 /\ s # 2
      <3>1. TableInv(0) /\ Table(0)[s].name = NoName
        BY <1>1, <2>2, RootIs, NoEntryIs
      <3> QED BY <3>1 DEF TableInv, NoName
    <2>4. PICK e : e = [name |-> n, ino |-> i]
      OBVIOUS
    <2>5. e \in EntryType /\ e.name = n /\ e.ino = i
      BY <1>2, <2>4 DEF EntryType
    <2>6. PICK y : y = WithEntry(x, s, e)
      OBVIOUS
    <2>7. /\ y \in SectorType /\ y.of = x.of /\ y.table[s] = e
          /\ \A r \in Slots \ {s} : y.table[r] = Table(0)[r]
      BY <1>1, <1>7, <2>2, <2>5, <2>6, RootSector
    <2>8. data' = [g EXCEPT ![b].table[s] = e]
      BY <1>4, <1>6, <1>10, <2>1, <2>4 DEF Puts
    <2>9. data' = [g EXCEPT ![b] = y]
      BY <1>8, <2>6, <2>8 DEF WithEntry
    <2>10. PutDone(i, y)
      BY <1>1, <1>2, <1>5, <1>6, <1>7, <2>7, <2>9, PutEffect
    <2>11. RootEntry(i, s)
      BY <1>2, <1>3, <2>2, <2>3, <2>5, <2>7, <2>10 DEF RootEntry, PutDone
    <2> QED BY <1>2, <2>10, <2>11, PutTree
  <1> QED BY <1>9, <1>10

\* put_file leaves the disk sound, and every file shows what was put or written.
LEMMA PutKeepsInv ==
  ASSUME FSInv, NEW n \in Names, NEW z \in ToolSizes, ToolPut(n, z)
  PROVE  FSInv' /\ (NoStale => NoStale')
  <1>1. /\ up = "off" /\ magic /\ UNCHANGED <<magic, up, fmt, op>> /\ tools' = tools + 1
        /\ (z + SectorSize - 1) \div SectorSize <= Direct
    BY DEF ToolPut
  <1>2. PICK m \in 0..Direct : m = (z + SectorSize - 1) \div SectorSize
    <2>1. z \in Nat
      BY SimpleFSAssumption
    <2> QED BY <1>1, <2>1, Constants
  <1>3. CASE \E s \in Slots : Table(0)[s].name = n /\ Puts(n, z, m, Table(0)[s].ino, Choice(Table(0)[s].ino, TRUE), {})
    <2>1. PICK s \in Slots : Table(0)[s].name = n /\ Puts(n, z, m, Table(0)[s].ino, Choice(Table(0)[s].ino, TRUE), {})
      BY <1>3
    <2>2. PICK i : i = Table(0)[s].ino
      OBVIOUS
    <2>3. Puts(n, z, m, i, Choice(i, TRUE), {})
      BY <2>1, <2>2
    <2> QED BY <1>1, <1>2, <2>1, <2>2, <2>3, PutOld
  <1>4. CASE /\ \A s \in Slots : Table(0)[s].name # n
             /\ \E i \in FreeInodes \ {0} : Puts(n, z, m, i, Choice(i, FALSE), EmptySlots(0))
    <2>1. PICK i \in FreeInodes \ {0} : Puts(n, z, m, i, Choice(i, FALSE), EmptySlots(0))
      BY <1>4
    <2> QED BY <1>1, <1>2, <1>4, <2>1, PutNew
  <1> QED BY <1>2, <1>3, <1>4, PutCases

-----------------------------------------------------------------------------
(* The theorems *)

\* Formatting is over.
DiskOK == up = "up" \/ (up = "off" /\ magic)

\* Formatting leaves no file behind, and mounting and stopping write nothing.
LEMMA FormatKeepsData ==
  ASSUME Orderly, FSInv, DiskOK => NoStale,
         PowerOn \/ FormatSuper \/ FormatClear \/ FormatRootInode \/ FormatRootDir \/ Crash
  PROVE  (up = "up" => Grows) /\ (DiskOK => NoStale)'
  <1>1. Types
    BY DEF FSInv
  <1>2. CASE PowerOn \/ Crash
    <2>1. /\ inode' = inode /\ data' = data /\ magic' = magic
          /\ DiskOK' => DiskOK
      BY <1>1, <1>2 DEF PowerOn, Crash, disk, DiskOK, Orderly
    <2>2. Grows
      BY <2>1 DEF Grows
    <2>3. NoStale => NoStale'
      BY <2>1 DEF NoStale, Extent
    <2> QED BY <2>1, <2>2, <2>3
  <1>3. CASE FormatSuper \/ FormatClear \/ FormatRootInode
    BY <1>3 DEF FormatSuper, FormatClear, FormatRootInode, DiskOK
  <1>4. CASE FormatRootDir
    <2>1. up = "format" /\ fmt = InodeSectors + 2 /\ up' = "up" /\ inode' = inode
      BY <1>4 DEF FormatRootDir
    <2>2. \A i \in Inodes \ {0} : inode[i] = ZeroInode
      BY <2>1 DEF FSInv, FormatInv
    <2>3. \A i \in Inodes \ {0} : ~inode[i].used
      BY <2>2 DEF ZeroInode
    <2>4. IsDir(0)'
      BY <1>4, <2>1, FormatKeepsInv DEF FSInv, DiskInv
    <2>5. NoStale'
      BY <2>1, <2>3, <2>4 DEF NoStale, IsDir
    <2> QED BY <2>1, <2>5
  <1> QED BY <1>2, <1>3, <1>4

\* A step of a call.
LEMMA CallStep ==
  ASSUME Orderly, FSInv, NEW a \in Actors, Step(a)
  PROVE  FSInv' /\ Grows /\ (DiskOK' => DiskOK) /\ (NoStale => NoStale')
  <1>1. ASSUME NEW d \in Inodes, NEW n \in Names, NEW isdir \in BOOLEAN, MakeBegin(a, d, n, isdir)
        PROVE  FSInv' /\ Grows /\ (DiskOK' => DiskOK) /\ (NoStale => NoStale')
    <2>1. UNCHANGED <<magic, inode, data, up>>
      BY <1>1 DEF MakeBegin, disk
    <2> QED BY <1>1, <2>1, MakeBeginKeepsInv DEF Grows, NoStale, Extent, DiskOK
  <1>2. ASSUME NEW d \in Inodes, NEW n \in Names, NEW size \in Sizes, WriteBegin(a, d, n, size)
        PROVE  FSInv' /\ Grows /\ (DiskOK' => DiskOK) /\ (NoStale => NoStale')
    <2>1. UNCHANGED <<magic, inode, data, up>>
      BY <1>2 DEF WriteBegin, disk
    <2> QED BY <1>2, <2>1, WriteBeginKeepsInv DEF Grows, NoStale, Extent, DiskOK
  <1>3. CASE \/ AllocWrite(a) \/ DirBlockWrite(a) \/ DirInodeWrite(a) \/ EntryWrite(a)
             \/ ClaimWrite(a) \/ DataWrite(a) \/ SizeWrite(a)
    <2>1. UNCHANGED <<magic, up>>
      BY <1>3 DEF AllocWrite, DirBlockWrite, DirInodeWrite, EntryWrite, ClaimWrite, DataWrite, SizeWrite
    <2>2. DiskOK' => DiskOK
      BY <2>1 DEF DiskOK
    <2> QED BY <1>3, <2>2, AllocKeepsInv, DirBlockKeepsInv, DirInodeKeepsInv, EntryKeepsInv,
               ClaimKeepsInv, DataKeepsInv, SizeKeepsInv
  <1> QED BY <1>1, <1>2, <1>3 DEF Step

\* What every step does.
LEMMA FSStep ==
  ASSUME Orderly, FSInv, [Next]_vars
  PROVE  /\ FSInv' /\ (up = "up" => Grows)
         /\ (DiskOK => NoStale) => (DiskOK => NoStale)'
  <1>1. CASE PowerOn \/ FormatSuper \/ FormatClear \/ FormatRootInode \/ FormatRootDir \/ Crash
    <2>1. FSInv'
      BY <1>1, FormatKeepsInv
    <2>2. up = "up" => Grows
      BY <1>1 DEF PowerOn, FormatSuper, FormatClear, FormatRootInode, FormatRootDir, Crash, disk, Grows
    <2>3. ASSUME DiskOK => NoStale PROVE (DiskOK => NoStale)'
      BY <1>1, <2>3, FormatKeepsData
    <2> QED BY <2>1, <2>2, <2>3
  <1>2. CASE \E n \in Names : ToolRm(n) \/ \E size \in ToolSizes : ToolPut(n, size)
    <2>1. PICK n \in Names : ToolRm(n) \/ \E size \in ToolSizes : ToolPut(n, size)
      BY <1>2
    <2>2. FSInv' /\ (NoStale => NoStale')
      BY <2>1, RmKeepsInv, PutKeepsInv
    <2>3. up = "off" /\ magic
      BY <2>1 DEF ToolRm, ToolPut
    <2> QED BY <2>2, <2>3 DEF DiskOK
  <1>3. CASE \E a \in Actors : Step(a)
    BY <1>3, CallStep
  <1>4. CASE UNCHANGED vars
    <2>1. UNCHANGED <<magic, inode, data, up, fmt, op, tools>>
      BY <1>4 DEF vars
    <2>2. FSInv'
      <3>1. Types' /\ FormatInv'
        BY <2>1 DEF FSInv, Types, FormatInv
      <3>2. (\A d \in Inodes : IsDir(d)' <=> IsDir(d)) /\ (\A d \in Inodes : Table(d)' = Table(d))
        BY <2>1 DEF IsDir, Table
      <3>3. CallInv'
        <4>1. ASSUME NEW a \in Actors PROVE Writing(op[a])' <=> Writing(op[a])
          BY <2>1 DEF Writing, UsedBlocks
        <4>2. ASSUME NEW a \in Actors PROVE Making(op[a])' <=> Making(op[a])
          BY <2>1 DEF Making, Unnamed, IsDir, Proper, Table, UsedBlocks, EmptySlots
        <4> QED BY <2>1, <4>1, <4>2 DEF FSInv, CallInv
      <3>4. DiskInv => DiskInv'
        BY <2>1, DiskKept DEF FSInv
      <3> QED BY <2>1, <3>1, <3>3, <3>4 DEF FSInv
    <2>3. Grows /\ ((DiskOK => NoStale) => (DiskOK => NoStale)')
      BY <2>1 DEF Grows, NoStale, Extent, DiskOK
    <2> QED BY <2>2, <2>3
  <1> QED BY <1>1, <1>2, <1>3, <1>4 DEF Next

\* The tree of a sound disk.
LEMMA SoundTree == FSInv => TreeSound
  <1> SUFFICES ASSUME FSInv PROVE TreeSound
    OBVIOUS
  <1>1. Types
    BY DEF FSInv
  <1>2. TypeOK
    <2>1. \A b \in Blocks : data[b] \in SectorType
      BY <1>1 DEF Types
    <2>2. \A b \in Blocks : /\ data[b].table \in [Slots -> EntryType]
                            /\ data[b].of = <<>> \/ data[b].of \in Inodes \X Index
      BY <2>1 DEF SectorType
    <2> QED BY <1>1, <2>2 DEF Types, TypeOK
  <1>3. RootExists
    BY DEF FSInv, DiskInv, RootExists, IsDir
  <1>4. ASSUME Formatted, NEW d \in Dirs, NEW s \in Slots, Proper(d, s), NEW i, i = Table(d)[s].ino
        PROVE  /\ inode[i].used /\ i # 0
               /\ inode[i].dir => IsDir(i) /\ Lookup(i, ".") = {i} /\ Lookup(i, "..") = {d}
               /\ \A e \in Dirs, r \in Slots :
                    Proper(e, r) /\ <<d, s>> # <<e, r>> => Table(e)[r].ino # i
               /\ \A r \in Slots : Table(d)[r].name = Table(d)[s].name => s = r
    <2>1. DiskInv
      BY <1>1, <1>4 DEF FSInv, Formatted, Types
    <2>2. d \in Inodes /\ IsDir(d) /\ TableInv(d)
      BY <2>1 DEF Dirs, DiskInv, DirInv
    <2>3. i \in Inodes
      BY <1>1, <1>4, <2>2, TableType
    <2>4. /\ inode[i].used /\ i # 0
          /\ inode[i].dir => IsDir(i) /\ Table(i)[2].ino = d
          /\ \A r \in Slots : Table(d)[r].name = Table(d)[s].name => s = r
      BY <1>4, <2>2 DEF TableInv
    <2>5. ASSUME IsDir(i), Table(i)[2].ino = d PROVE Lookup(i, ".") = {i} /\ Lookup(i, "..") = {d}
      <3>1. TableInv(i)
        BY <2>1, <2>3, <2>5 DEF DiskInv, DirInv
      <3>2. /\ Table(i)[1].name = "." /\ Table(i)[1].ino = i /\ Table(i)[2].name = ".."
            /\ \A r \in Slots : r # 1 /\ r # 2 => Table(i)[r].name # "." /\ Table(i)[r].name # ".."
        BY <3>1 DEF TableInv
      <3>3. \A r \in Slots : (Table(i)[r].name = "." <=> r = 1) /\ (Table(i)[r].name = ".." <=> r = 2)
        BY <3>2
      <3>4. {r \in Slots : Table(i)[r].name = "."} = {1} /\ {r \in Slots : Table(i)[r].name = ".."} = {2}
        BY <3>3, Constants
      <3> QED BY <2>5, <3>2, <3>4 DEF Lookup
    <2>6. ASSUME NEW e \in Dirs, NEW r \in Slots, Proper(e, r), <<d, s>> # <<e, r>> PROVE Table(e)[r].ino # i
      <3>1. e \in Inodes /\ IsDir(e)
        BY DEF Dirs
      <3> QED BY <1>4, <2>1, <2>2, <2>6, <3>1 DEF DiskInv, OneName
    <2> QED BY <2>4, <2>5, <2>6
  <1> QED BY <1>2, <1>3, <1>4 DEF TreeSound

\* simplefs_create, simplefs_mkdir and simplefs_write, stopped wherever the machine may
\* stop, keep the inductive invariant: the types, how far each call and formatting have
\* come, and the soundness of the disk once it is formatted.
THEOREM FSSafe == ASSUME Orderly PROVE Spec => []FSInv
  <1>1. FSInv /\ [Next]_vars => FSInv'
    BY FSStep
  <1> QED BY <1>1, FSInit, PTL DEF Spec

\* No data block ever belongs to two inodes or twice to one: find_free_data_block reads the
\* table that the claim of every earlier write has reached.
THEOREM AlwaysDisjoint == ASSUME Orderly PROVE Spec => []BlocksDisjoint
  <1>1. FSInv => BlocksDisjoint
    BY DEF FSInv, Types, DiskInv, Disjoint, BlocksDisjoint, Formatted
  <1>2. Spec => []FSInv
    BY FSSafe
  <1> QED BY <1>1, <1>2, PTL

\* The tree is sound between any two sector writes of create, mkdir and write, so a crash
\* leaves no entry without an inode, no directory without its table, and no inode with two
\* names.
THEOREM TreeAlwaysSound == ASSUME Orderly PROVE Spec => []TreeSound
  <1>1. Spec => []FSInv
    BY FSSafe
  <1> QED BY <1>1, SoundTree, PTL

\* A size on the disk covers only blocks that were written for that file: simplefs_write
\* writes the size after the data.  Any count may be asked for, one whose rounding up
\* wraps included; the file that got such a size is the only one excepted.
THEOREM NeverStale == ASSUME Orderly PROVE Spec => []NoStaleData
  <1> DEFINE Inv == FSInv /\ (DiskOK => NoStale)
  <1>1. Init => Inv
    BY FSInit DEF Init, DiskOK
  <1>2. Inv /\ [Next]_vars => Inv'
    BY FSStep
  <1>3. Inv => NoStaleData
    <2>1. FSInv /\ Formatted => DiskOK
      BY DEF FSInv, Types, Formatted, DiskOK
    <2> QED BY <2>1 DEF NoStale, NoStaleData, Extent
  <1> QED BY <1>1, <1>2, <1>3, PTL DEF Spec

\* No call on one file takes a block, or its place in the inode table, from another one
\* whose inode is in the same sector.  Of calls that are not interleaved, as for all the
\* theorems here: of two that are, the second may write back what it read before the first.
THEOREM NeverLost == ASSUME Orderly PROVE Spec => NothingLost
  <1>1. FSInv /\ [Next]_vars =>
          [up = "up" => \A i \in Inodes : inode[i].used =>
             /\ inode'[i].used /\ inode'[i].dir = inode[i].dir
             /\ \A j \in Index : inode[i].blocks[j] \in {0, inode'[i].blocks[j]}]_vars
    BY FSStep DEF Grows
  <1>2. Spec => []FSInv
    BY FSSafe
  <1> QED BY <1>1, <1>2, PTL DEF Spec, NothingLost

-----------------------------------------------------------------------------
(* Inodes without a name *)

\* A directory that can be reached names inode i.
Named(i) == \E d \in Dirs, s \in Slots : Proper(d, s) /\ Table(d)[s].ino = i

\* A create or mkdir works in a directory that can be reached, a write on a file that has a name.
Reach ==
  \A a \in Actors : op[a] # Idle =>
    IF op[a].pc \in {"claim", "data", "size"} THEN Named(op[a].ino) ELSE op[a].dir \in Dirs

\* Directories stay, and so do their entries.
EntriesKept ==
  \A d \in Inodes : IsDir(d) =>
    IsDir(d)' /\ \A s \in Slots : Proper(d, s) => Table(d)'[s] = Table(d)[s]

\* What is named stays named.
LEMMA NamesStay ==
  ASSUME EntriesKept
  PROVE  (\A d \in Dirs : d \in Dirs') /\ \A i \in Inodes : Named(i) => Named(i)'
  <1>1. \A d \in Inodes, s \in Slots : IsDir(d) /\ Proper(d, s) =>
          IsDir(d)' /\ Proper(d, s)' /\ Table(d)'[s].ino = Table(d)[s].ino
    BY DEF EntriesKept, Proper
  <1>2. ASSUME NEW d \in Dirs PROVE d \in Dirs'
    <2>1. d \in Inodes /\ IsDir(d) /\ IsDir(d)'
      BY DEF Dirs, EntriesKept
    <2>2. CASE d = 0
      BY <2>1, <2>2 DEF Dirs
    <2>3. ASSUME NEW p \in Inodes, NEW s \in Slots, IsDir(p), Proper(p, s), Table(p)[s].ino = d
          PROVE  d \in Dirs'
      BY <1>1, <2>1, <2>3 DEF Dirs
    <2> QED BY <2>2, <2>3 DEF Dirs
  <1>3. ASSUME NEW i \in Inodes, NEW d \in Dirs, NEW s \in Slots, Proper(d, s), Table(d)[s].ino = i
        PROVE  Named(i)'
    <2>1. d \in Dirs' /\ Proper(d, s)' /\ Table(d)'[s].ino = i
      BY <1>1, <1>2, <1>3 DEF Dirs
    <2> QED BY <2>1 DEF Named
  <1> QED BY <1>2, <1>3 DEF Named

\* The sector of a directory that a step leaves alone.
LEMMA TableStays ==
  ASSUME Types, Grows, NEW d \in Inodes, IsDir(d), data'[inode[d].blocks[0]] = data[inode[d].blocks[0]]
  PROVE  IsDir(d)' /\ Table(d)' = Table(d)
  <1>1. inode'[d].used /\ inode'[d].dir /\ inode'[d].blocks[0] = inode[d].blocks[0]
    BY Constants DEF Grows, IsDir
  <1> QED BY <1>1 DEF IsDir, Table

\* The calls write a new table to a free block, file data to blocks of files, and one entry
\* to an empty slot.
LEMMA EntriesStay ==
  ASSUME Orderly, FSInv, NEW a \in Actors, Step(a)
  PROVE  EntriesKept
  <1>1. Grows /\ Types
    BY CallStep DEF FSInv
  <1>2. CASE data' = data
    BY <1>1, <1>2, TableStays DEF EntriesKept
  <1>3. CASE DirBlockWrite(a)
    <2>1. /\ MayStep(a, "dirblock")
          /\ data' = [data EXCEPT ![op[a].blk] = TableSector(DirTable(op[a].ino, op[a].dir))]
      BY <1>3 DEF DirBlockWrite
    <2>2. op[a].blk \in Blocks \ UsedBlocks(inode)
      BY <2>1, InCall DEF Making
    <2>3. ASSUME NEW d \in Inodes, IsDir(d)
          PROVE  data'[inode[d].blocks[0]] = data[inode[d].blocks[0]]
      <3>1. inode[d].blocks[0] # op[a].blk
        BY <2>2, <2>3, FreeBlock, Constants DEF IsDir
      <3> QED BY <1>1, <2>1, <2>3, <3>1, TableType DEF Types
    <2> QED BY <1>1, <2>3, TableStays DEF EntriesKept
  <1>4. CASE DataWrite(a)
    <2>1. /\ MayStep(a, "data")
          /\ data' = [data EXCEPT ![op[a].mem.blocks[op[a].j]] = FileSector(op[a].ino, op[a].j)]
      BY <1>4 DEF DataWrite
    <2>2. /\ DiskInv /\ op[a] \in CallType /\ Writing(op[a]) /\ op[a].pc = "data"
      BY <2>1, InCall
    <2>3. /\ op[a].ino \in Inodes /\ op[a].j \in Nat /\ inode[op[a].ino].used /\ ~inode[op[a].ino].dir
          /\ op[a].mem = inode[op[a].ino] /\ op[a].j < Direct /\ op[a].mem.blocks[op[a].j] # 0
      <3>1. op[a].ino \in Inodes /\ op[a].j \in Nat /\ op[a].size \in 0..(SizeMod - 1)
        BY <2>2 DEF CallType
      <3>2. /\ inode[op[a].ino].used /\ ~inode[op[a].ino].dir
            /\ op[a].mem = inode[op[a].ino] /\ op[a].mem.blocks[op[a].j] # 0
            /\ Needed(op[a].size) <= Direct /\ op[a].j < Needed(op[a].size)
        BY <2>2 DEF Writing
      <3>3. Needed(op[a].size) \in Nat
        BY <3>1, NeededNat
      <3> QED BY <3>1, <3>2, <3>3, Constants
    <2>4. op[a].j \in Index
      BY <2>3, Constants DEF Index
    <2>5. ASSUME NEW d \in Inodes, IsDir(d)
          PROVE  data'[inode[d].blocks[0]] = data[inode[d].blocks[0]]
      <3>1. op[a].ino # d /\ inode[d].used /\ inode[d].blocks[0] # 0
        BY <2>3, <2>5 DEF IsDir
      <3>2. inode[d].blocks[0] # inode[op[a].ino].blocks[op[a].j]
        <4>1. \A i, k \in Inodes, l \in Index :
                inode[i].used /\ inode[k].used /\ i # k /\ inode[i].blocks[0] # 0
                  => inode[i].blocks[0] # inode[k].blocks[l]
          BY <2>2, Constants DEF DiskInv, Disjoint
        <4> QED BY <2>3, <2>4, <3>1, <4>1
      <3> QED BY <1>1, <2>1, <2>3, <2>5, <3>2, TableType DEF Types
    <2> QED BY <1>1, <2>5, TableStays DEF EntriesKept
  <1>5. CASE EntryWrite(a)
    <2>1. /\ MayStep(a, "entry") /\ inode' = inode
          /\ data' = [data EXCEPT ![inode[op[a].dir].blocks[0]] = TableSector(op[a].table)]
      BY <1>5 DEF EntryWrite
    <2>2. /\ DiskInv /\ op[a] \in CallType /\ Making(op[a]) /\ op[a].pc = "entry"
      BY <2>1, InCall
    <2>3. PICK p : p = op[a].dir
      OBVIOUS
    <2>4. p \in Inodes /\ IsDir(p)
      BY <2>2, <2>3 DEF Making, CallType
    <2>5. PICK s \in EmptySlots(p) :
            op[a].table = [Table(p) EXCEPT ![s] = [name |-> op[a].name, ino |-> op[a].ino]]
      BY <2>2, <2>3 DEF Making
    <2>6. TableSector(op[a].table).table = op[a].table
      BY DEF TableSector
    <2>7. ASSUME NEW d \in Inodes, IsDir(d)
          PROVE  IsDir(d)' /\ \A r \in Slots : Proper(d, r) => Table(d)'[r] = Table(d)[r]
      <3>1. CASE d = p
        <4>1. IsDir(d)' /\ Table(d)' = op[a].table
          BY <1>1, <2>1, <2>3, <2>4, <2>6, <3>1, TableType DEF IsDir, Table, Types
        <4>2. ASSUME NEW r \in Slots, Proper(d, r) PROVE r # s
          <5>1. Table(d)[r].name \in Names /\ NoName \notin Names
            BY <4>2, NamesProper DEF Proper
          <5>2. Table(p)[s] = NoEntry /\ NoEntry.name = NoName
            BY <2>5 DEF EmptySlots, NoEntry
          <5> QED BY <3>1, <5>1, <5>2
        <4>3. Table(p) \in [Slots -> EntryType]
          BY <1>1, <2>4, TableType
        <4> QED BY <2>5, <3>1, <4>1, <4>2, <4>3
      <3>2. CASE d # p
        <4>1. inode[d].blocks[0] # inode[p].blocks[0]
          BY <2>2, <2>4, <2>7, <3>2, Constants DEF DiskInv, Disjoint, IsDir
        <4>2. data'[inode[d].blocks[0]] = data[inode[d].blocks[0]]
          BY <1>1, <2>1, <2>3, <2>7, <4>1, TableType DEF Types
        <4> QED BY <1>1, <2>7, <4>2, TableStays
      <3> QED BY <3>1, <3>2
    <2> QED BY <2>7 DEF EntriesKept
  <1> QED BY <1>2, <1>3, <1>4, <1>5 DEF Step, MakeBegin, WriteBegin, AllocWrite, DirInodeWrite,
             ClaimWrite, SizeWrite, disk

\* What a step makes of the call: it ends, and its inode has a name or the directory is full,
\* or it goes on with the same inode.
Ends(a) ==
  \/ op[a] = Idle \/ \E i \in Inodes : op[a].ino = i /\ (Named(i) \/ Named(i)')
  \/ op[a].dir \in Dirs /\ EmptySlots(op[a].dir) = {}
GoesOn(a, q) ==
  /\ q # Idle /\ q.pc # "idle" /\ (op[a] # Idle => q.ino = op[a].ino)
  /\ IF q.pc \in {"claim", "data", "size"} THEN q.ino \in Inodes /\ Named(q.ino) ELSE q.dir \in Dirs
Outcome(a) == \E q : op' = [op EXCEPT ![a] = q] /\ ((q = Idle /\ Ends(a)) \/ GoesOn(a, q))

\* create and mkdir.
LEMMA MakeOutcome ==
  ASSUME Orderly, FSInv, Reach, NEW a \in Actors,
         \/ \E d \in Inodes, n \in Names, isdir \in BOOLEAN : MakeBegin(a, d, n, isdir)
         \/ AllocWrite(a) \/ DirBlockWrite(a) \/ DirInodeWrite(a) \/ EntryWrite(a)
  PROVE  Outcome(a)
  <1>1. ASSUME NEW d \in Inodes, NEW n \in Names, NEW isdir \in BOOLEAN, MakeBegin(a, d, n, isdir)
        PROVE  Outcome(a)
    <2>1. d \in Dirs /\ op[a] = Idle
      BY <1>1 DEF MakeBegin, MayStart
    <2>2. CASE Fail(a)
      BY <2>1, <2>2 DEF Fail, Outcome, Ends
    <2>3. ASSUME NEW i, NEW v,
                 Goto(a, [Idle EXCEPT !.pc = "alloc", !.dir = d, !.name = n, !.isdir = isdir,
                                      !.ino = i, !.sec = v])
          PROVE  Outcome(a)
      <3>1. PICK q : q = [Idle EXCEPT !.pc = "alloc", !.dir = d, !.name = n, !.isdir = isdir,
                                      !.ino = i, !.sec = v]
        OBVIOUS
      <3>2. q.pc = "alloc" /\ q.dir = d
        BY <3>1 DEF Idle
      <3>3. op' = [op EXCEPT ![a] = q]
        BY <2>3, <3>1 DEF Goto
      <3>4. GoesOn(a, q)
        BY <2>1, <3>2, IdleIs DEF GoesOn
      <3> QED BY <3>3, <3>4 DEF Outcome
    <2> QED BY <1>1, <2>2, <2>3 DEF MakeBegin
  <1>2. ASSUME op[a] # Idle, op[a].pc \notin {"claim", "data", "size"}, op[a] \in CallType, AddEntry(a)
        PROVE  Outcome(a)
    <2>1. op[a].dir \in Dirs
      BY <1>2 DEF Reach
    <2>2. CASE EmptySlots(op[a].dir) = {}
      BY <1>2, <2>1, <2>2 DEF AddEntry, Fail, Outcome, Ends
    <2>3. CASE EmptySlots(op[a].dir) # {}
      <3>1. PICK t : Goto(a, [op[a] EXCEPT !.pc = "entry", !.table = t])
        BY <1>2, <2>3 DEF AddEntry
      <3>2. PICK q : q = [op[a] EXCEPT !.pc = "entry", !.table = t]
        OBVIOUS
      <3>3. q.pc = "entry" /\ q.dir = op[a].dir /\ q.ino = op[a].ino
        BY <1>2, <3>2 DEF CallType
      <3>4. op' = [op EXCEPT ![a] = q]
        BY <3>1, <3>2 DEF Goto
      <3>5. GoesOn(a, q)
        BY <2>1, <3>3, IdleIs DEF GoesOn
      <3> QED BY <3>4, <3>5 DEF Outcome
    <2> QED BY <2>2, <2>3
  <1>3. ASSUME NEW pc \in {"alloc", "dirblock", "dirinode", "entry"}, MayStep(a, pc)
        PROVE  /\ op[a] # Idle /\ op[a].pc = pc /\ op[a] \in CallType /\ Making(op[a]) /\ op[a].dir \in Dirs
               /\ Types /\ DiskInv
    <2>1. op[a].pc = pc /\ op[a] # Idle
      BY <1>3, IdleIs DEF MayStep
    <2>2. op[a] \in CallType /\ Making(op[a]) /\ Types /\ DiskInv
      BY <1>3, InCall
    <2>3. op[a].pc \notin {"claim", "data", "size"}
      BY <2>1
    <2> QED BY <2>1, <2>2, <2>3 DEF Reach
  <1>4. CASE AllocWrite(a)
    <2>1. MayStep(a, "alloc")
      BY <1>4 DEF AllocWrite
    <2>2. /\ op[a] # Idle /\ op[a].pc = "alloc" /\ op[a] \in CallType /\ op[a].dir \in Dirs
      BY <1>3, <2>1
    <2>3. CASE op[a].isdir
      <3>1. PICK b : Goto(a, [op[a] EXCEPT !.pc = "dirblock", !.blk = b])
        BY <1>4, <2>3 DEF AllocWrite
      <3>2. PICK q : q = [op[a] EXCEPT !.pc = "dirblock", !.blk = b]
        OBVIOUS
      <3>3. q.pc = "dirblock" /\ q.dir = op[a].dir /\ q.ino = op[a].ino
        BY <2>2, <3>2 DEF CallType
      <3>4. op' = [op EXCEPT ![a] = q]
        BY <3>1, <3>2 DEF Goto
      <3>5. GoesOn(a, q)
        BY <2>2, <3>3, IdleIs DEF GoesOn
      <3> QED BY <3>4, <3>5 DEF Outcome
    <2>4. CASE ~op[a].isdir
      <3>1. AddEntry(a)
        BY <1>4, <2>4 DEF AllocWrite
      <3> QED BY <1>2, <2>2, <3>1
    <2> QED BY <2>3, <2>4
  <1>5. CASE DirBlockWrite(a)
    <2>1. MayStep(a, "dirblock")
      BY <1>5 DEF DirBlockWrite
    <2>2. /\ op[a] # Idle /\ op[a] \in CallType /\ op[a].dir \in Dirs
      BY <1>3, <2>1
    <2>3. PICK v : Goto(a, [op[a] EXCEPT !.pc = "dirinode", !.sec = v])
      BY <1>5 DEF DirBlockWrite
    <2>4. PICK q : q = [op[a] EXCEPT !.pc = "dirinode", !.sec = v]
      OBVIOUS
    <2>5. q.pc = "dirinode" /\ q.dir = op[a].dir /\ q.ino = op[a].ino
      BY <2>2, <2>4 DEF CallType
    <2>6. op' = [op EXCEPT ![a] = q]
      BY <2>3, <2>4 DEF Goto
    <2>7. GoesOn(a, q)
      BY <2>2, <2>5, IdleIs DEF GoesOn
    <2> QED BY <2>6, <2>7 DEF Outcome
  <1>6. CASE DirInodeWrite(a)
    <2>1. MayStep(a, "dirinode") /\ AddEntry(a)
      BY <1>6 DEF DirInodeWrite
    <2>2. op[a] # Idle /\ op[a] \in CallType /\ op[a].pc = "dirinode"
      BY <1>3, <2>1
    <2> QED BY <1>2, <2>1, <2>2
  <1>7. CASE EntryWrite(a)
    <2>1. /\ MayStep(a, "entry") /\ op' = [op EXCEPT ![a] = Idle] /\ inode' = inode
          /\ data' = [data EXCEPT ![inode[op[a].dir].blocks[0]] = TableSector(op[a].table)]
      BY <1>7 DEF EntryWrite, Goto
    <2>2. /\ op[a] # Idle /\ op[a].pc = "entry" /\ op[a] \in CallType /\ Making(op[a])
          /\ op[a].dir \in Dirs /\ Types /\ DiskInv
      BY <1>3, <2>1
    <2>3. PICK p : p = op[a].dir
      OBVIOUS
    <2>4. p \in Inodes /\ IsDir(p) /\ op[a].name \in Names
      BY <2>2, <2>3 DEF Making, CallType
    <2>5. PICK s \in EmptySlots(p) :
            op[a].table = [Table(p) EXCEPT ![s] = [name |-> op[a].name, ino |-> op[a].ino]]
      BY <2>2, <2>3 DEF Making
    <2>6. Table(p) \in [Slots -> EntryType] /\ inode[p].blocks[0] \in Blocks /\ s \in Slots
      BY <2>2, <2>4, TableType DEF EmptySlots
    <2>7. Table(p)' = op[a].table
      <3>1. TableSector(op[a].table).table = op[a].table
        BY DEF TableSector
      <3> QED BY <2>1, <2>2, <2>3, <2>6, <3>1 DEF Table, Types
    <2>8. Table(p)'[s].name = op[a].name /\ Table(p)'[s].ino = op[a].ino
      BY <2>5, <2>6, <2>7
    <2>9. p \in Dirs'
      <3>1. Step(a)
        BY <1>7 DEF Step
      <3> QED BY <2>2, <2>3, <3>1, EntriesStay, NamesStay
    <2>10. PICK i \in Inodes : i = op[a].ino
      BY <2>2 DEF CallType
    <2>11. Named(i)'
      BY <2>4, <2>6, <2>8, <2>9, <2>10 DEF Named, Proper
    <2>12. Ends(a)
      BY <2>10, <2>11 DEF Ends
    <2> QED BY <2>1, <2>12 DEF Outcome
  <1> QED BY <1>1, <1>4, <1>5, <1>6, <1>7

\* A write at block o.j.
LEMMA WriteNextGoesOn ==
  ASSUME NEW a \in Actors, NEW o \in CallType, NEW t, WriteNext(a, o, t), Named(o.ino),
         op[a] # Idle => o.ino = op[a].ino
  PROVE  Outcome(a)
  <1>1. ASSUME NEW pc \in {"claim", "data", "size"}, NEW m, NEW v,
               Goto(a, [o EXCEPT !.pc = pc, !.mem = m, !.sec = v])
        PROVE  Outcome(a)
    <2>1. PICK q : q = [o EXCEPT !.pc = pc, !.mem = m, !.sec = v]
      OBVIOUS
    <2>2. q.pc = pc /\ q.ino = o.ino /\ o.ino \in Inodes
      BY <2>1 DEF CallType
    <2>3. op' = [op EXCEPT ![a] = q]
      BY <1>1, <2>1 DEF Goto
    <2>4. GoesOn(a, q)
      BY <2>2, IdleIs DEF GoesOn
    <2> QED BY <2>3, <2>4 DEF Outcome
  <1>2. CASE o.j = Needed(o.size)
    <2>1. PICK v : Goto(a, [o EXCEPT !.pc = "size", !.sec = v])
      BY <1>2 DEF WriteNext
    <2>2. [o EXCEPT !.pc = "size", !.sec = v] = [o EXCEPT !.pc = "size", !.mem = o.mem, !.sec = v]
      BY DEF CallType
    <2> QED BY <1>1, <2>1, <2>2
  <1>3. CASE o.j # Needed(o.size) /\ o.mem.blocks[o.j] # 0
    <2>1. Goto(a, [o EXCEPT !.pc = "data"])
      BY <1>3 DEF WriteNext
    <2>2. [o EXCEPT !.pc = "data"] = [o EXCEPT !.pc = "data", !.mem = o.mem, !.sec = o.sec]
      BY DEF CallType
    <2> QED BY <1>1, <2>1, <2>2
  <1>4. CASE o.j # Needed(o.size) /\ ~(o.mem.blocks[o.j] # 0)
    <2>1. PICK b \in Blocks : Goto(a, [o EXCEPT !.pc = "claim", !.mem = Claimed(o, b),
                                                !.sec = Sector(t, o.ino, Claimed(o, b))])
      BY <1>4 DEF WriteNext
    <2> QED BY <1>1, <2>1
  <1> QED BY <1>2, <1>3, <1>4

\* write.
LEMMA WriteOutcome ==
  ASSUME Orderly, FSInv, Reach, NEW a \in Actors,
         \/ \E d \in Inodes, n \in Names, size \in Sizes : WriteBegin(a, d, n, size)
         \/ ClaimWrite(a) \/ DataWrite(a) \/ SizeWrite(a)
  PROVE  Outcome(a)
  <1>1. ASSUME NEW d \in Inodes, NEW n \in Names, NEW size \in Sizes, WriteBegin(a, d, n, size)
        PROVE  Outcome(a)
    <2>1. d \in Dirs /\ op[a] = Idle /\ IsDir(d) /\ Types
      BY <1>1 DEF WriteBegin, MayStart, Dirs, FSInv
    <2>2. PICK i \in Lookup(d, n) :
            IF inode[i].dir \/ Needed(size) > Direct THEN Fail(a)
            ELSE WriteNext(a, [Idle EXCEPT !.ino = i, !.mem = inode[i], !.size = size], inode)
      BY <1>1 DEF WriteBegin
    <2>3. PICK s \in Slots : Table(d)[s].name = n /\ Table(d)[s].ino = i
      BY <2>2 DEF Lookup
    <2>4. i \in Inodes /\ Named(i)
      BY <2>1, <2>3, TableType DEF Named, Proper
    <2>5. CASE Fail(a)
      BY <2>1, <2>5 DEF Fail, Outcome, Ends
    <2>6. CASE WriteNext(a, [Idle EXCEPT !.ino = i, !.mem = inode[i], !.size = size], inode)
      <3>1. PICK o : o = [Idle EXCEPT !.ino = i, !.mem = inode[i], !.size = size]
        OBVIOUS
      <3>2. o \in CallType /\ o.ino = i
        BY <2>1, <2>4, <3>1, IdleIs, Constants DEF CallType, Types
      <3> QED BY <2>1, <2>4, <2>6, <3>1, <3>2, WriteNextGoesOn
    <2> QED BY <2>2, <2>5, <2>6
  <1>2. ASSUME NEW pc \in {"claim", "data", "size"}, MayStep(a, pc)
        PROVE  op[a] # Idle /\ op[a].pc = pc /\ op[a] \in CallType /\ Named(op[a].ino) /\ op[a].ino \in Inodes
    <2>1. op[a].pc = pc /\ op[a] # Idle
      BY <1>2, IdleIs DEF MayStep
    <2>2. op[a] \in CallType
      BY DEF FSInv, Types
    <2> QED BY <2>1, <2>2 DEF Reach, CallType
  <1>3. CASE ClaimWrite(a)
    <2>1. MayStep(a, "claim") /\ op' = [op EXCEPT ![a] = [op[a] EXCEPT !.pc = "data"]]
      BY <1>3 DEF ClaimWrite, Goto
    <2>2. op[a] # Idle /\ op[a] \in CallType /\ Named(op[a].ino) /\ op[a].ino \in Inodes
      BY <1>2, <2>1
    <2>3. PICK q : q = [op[a] EXCEPT !.pc = "data"]
      OBVIOUS
    <2>4. q.pc = "data" /\ q.ino = op[a].ino
      BY <2>2, <2>3 DEF CallType
    <2>5. GoesOn(a, q)
      BY <2>2, <2>4, IdleIs DEF GoesOn
    <2> QED BY <2>1, <2>3, <2>5 DEF Outcome
  <1>4. CASE DataWrite(a)
    <2>1. MayStep(a, "data") /\ WriteNext(a, [op[a] EXCEPT !.j = op[a].j + 1], inode)
      BY <1>4 DEF DataWrite
    <2>2. op[a] # Idle /\ op[a] \in CallType /\ Named(op[a].ino)
      BY <1>2, <2>1
    <2>3. PICK o : o = [op[a] EXCEPT !.j = op[a].j + 1]
      OBVIOUS
    <2>4. o \in CallType /\ o.ino = op[a].ino
      BY <2>2, <2>3 DEF CallType
    <2> QED BY <2>1, <2>2, <2>3, <2>4, WriteNextGoesOn
  <1>5. CASE SizeWrite(a)
    <2>1. MayStep(a, "size") /\ op' = [op EXCEPT ![a] = Idle]
      BY <1>5 DEF SizeWrite, Goto
    <2>2. Ends(a)
      BY <1>2, <2>1 DEF Ends
    <2> QED BY <2>1, <2>2 DEF Outcome
  <1> QED BY <1>1, <1>3, <1>4, <1>5

\* Only allocate_free_inode takes an inode, the one of the call.
LEMMA OnlyAllocTakes ==
  ASSUME Orderly, FSInv, NEW a \in Actors, Step(a), NEW i \in Inodes, ~inode[i].used, inode'[i].used
  PROVE  op[a] # Idle /\ op[a].ino = i
  <1>1. CASE inode' = inode
    BY <1>1
  <1>2. ASSUME NEW pc \in {"alloc", "dirinode", "claim", "size"}, MayStep(a, pc), inode' = Flush(op[a])
        PROVE  op[a] # Idle /\ op[a].ino = i
    <2>1. op[a] # Idle
      BY <1>2, IdleIs DEF MayStep
    <2>2. /\ Types /\ op[a] \in CallType /\ op[a].pc = pc /\ op[a].ino \in Inodes
          /\ pc \in {"claim", "size"} => Writing(op[a])
          /\ pc \in {"alloc", "dirinode"} => Making(op[a])
      BY <1>2, InCall DEF CallType
    <2>3. PICK v : op[a].sec = [inode EXCEPT ![op[a].ino] = v]
      BY <2>2 DEF Making, Writing
    <2>4. inode' = [inode EXCEPT ![op[a].ino] = v]
      BY <1>2, <2>2, <2>3, FlushSets DEF Types
    <2> QED BY <2>1, <2>2, <2>4 DEF Types
  <1> QED BY <1>1, <1>2 DEF Step, MakeBegin, WriteBegin, AllocWrite, DirBlockWrite, DirInodeWrite,
             EntryWrite, ClaimWrite, DataWrite, SizeWrite, disk

\* The inodes that a step loses are those of calls that find their directory full.
FullLoses ==
  \A i \in Lost' \ Lost : \E a \in Actors :
    /\ op[a] # Idle /\ op[a].ino = i
    /\ \A s \in Slots : Table(op[a].dir)[s] # NoEntry

\* Every step of a call.
LEMMA ReachStep ==
  ASSUME Orderly, FSInv, Reach, NEW a \in Actors, Step(a)
  PROVE  Reach' /\ FullLoses
  <1>1. Outcome(a)
    BY MakeOutcome, WriteOutcome DEF Step
  <1>2. PICK q : op' = [op EXCEPT ![a] = q] /\ ((q = Idle /\ Ends(a)) \/ GoesOn(a, q))
    BY <1>1 DEF Outcome
  <1>3. op'[a] = q /\ \A c \in Actors : c # a => op'[c] = op[c]
    BY <1>2 DEF FSInv, Types
  <1>4. (\A d \in Dirs : d \in Dirs') /\ \A i \in Inodes : Named(i) => Named(i)'
    BY EntriesStay, NamesStay
  <1>5. Reach'
    <2>1. ASSUME NEW c \in Actors, op'[c] # Idle
          PROVE  \/ op'[c].pc \in {"claim", "data", "size"}
                    /\ \E i \in Inodes : op'[c].ino = i /\ Named(i)'
                 \/ op'[c].pc \notin {"claim", "data", "size"} /\ op'[c].dir \in Dirs'
      <3>1. CASE c = a
        BY <1>2, <1>3, <1>4, <2>1, <3>1 DEF GoesOn
      <3>2. CASE c # a
        <4>1. op[c] \in CallType
          BY DEF FSInv, Types
        <4> QED BY <1>3, <1>4, <2>1, <3>2, <4>1 DEF Reach, CallType
      <3> QED BY <3>1, <3>2
    <2> QED BY <2>1 DEF Reach
  <1>6. ASSUME NEW i \in Lost', i \notin Lost
        PROVE  op[a] # Idle /\ op[a].ino = i /\ \A s \in Slots : Table(op[a].dir)[s] # NoEntry
    <2>1. /\ i \in Inodes /\ i # 0 /\ inode'[i].used /\ ~Named(i)'
          /\ \A c \in Actors : op'[c].pc = "idle" \/ op'[c].ino # i
      BY <1>6 DEF Lost, Named
    <2>2. ~Named(i)
      BY <1>4, <2>1
    <2>3. \/ ~inode[i].used
          \/ \E c \in Actors : op[c].pc # "idle" /\ op[c].ino = i
      BY <1>6, <2>1, <2>2 DEF Lost, Named
    <2>4. op[a] # Idle /\ op[a].ino = i
      <3>1. CASE ~inode[i].used
        BY <2>1, <3>1, OnlyAllocTakes
      <3>2. ASSUME NEW c \in Actors, op[c].pc # "idle", op[c].ino = i PROVE op[a] # Idle /\ op[a].ino = i
        BY <1>3, <2>1, <3>2, IdleIs
      <3> QED BY <2>3, <3>1, <3>2
    <2>5. ~GoesOn(a, q)
      BY <1>3, <2>1, <2>4 DEF GoesOn
    <2>6. op[a].dir \in Dirs /\ EmptySlots(op[a].dir) = {}
      BY <1>2, <2>1, <2>2, <2>4, <2>5 DEF Ends
    <2> QED BY <2>4, <2>6 DEF EmptySlots
  <1>7. FullLoses
    BY <1>6 DEF FullLoses
  <1> QED BY <1>5, <1>7

\* create and mkdir, short of a crash, leave the inode they took without a name only when
\* the directory they work in is full: add_dir_entry finds no slot after allocate_free_inode has written.
THEOREM OnlyFullLoses == ASSUME Orderly PROVE Spec => OnlyFullDirLoses
  <1>1. Init => Reach
    BY DEF Init, Reach
  <1>2. FSInv /\ Reach /\ [Next]_vars =>
          Reach' /\ [up = "up" /\ up' = "up" => FullLoses]_vars
    <2> SUFFICES ASSUME FSInv, Reach, [Next]_vars
                 PROVE  Reach' /\ [up = "up" /\ up' = "up" => FullLoses]_vars
      OBVIOUS
    <2>1. CASE \E a \in Actors : Step(a)
      BY <2>1, ReachStep
    <2>2. CASE PowerOn \/ FormatSuper \/ FormatClear \/ FormatRootInode \/ FormatRootDir \/ Crash
      <3>1. ~(up = "up" /\ up' = "up")
        BY <2>2 DEF PowerOn, FormatSuper, FormatClear, FormatRootInode, FormatRootDir, Crash
      <3>2. \A a \in Actors : op'[a] = Idle
        <4>1. CASE Crash
          BY <4>1 DEF Crash
        <4>2. CASE ~Crash
          <5>1. up # "up" /\ op' = op
            BY <2>2, <4>2 DEF PowerOn, FormatSuper, FormatClear, FormatRootInode, FormatRootDir
          <5> QED BY <5>1 DEF FSInv, CallInv
        <4> QED BY <4>1, <4>2
      <3> QED BY <3>1, <3>2 DEF Reach
    <2>3. CASE \E n \in Names : ToolRm(n) \/ \E size \in ToolSizes : ToolPut(n, size)
      <3>1. up = "off" /\ op' = op
        BY <2>3 DEF ToolRm, ToolPut
      <3>2. \A a \in Actors : op'[a] = Idle
        BY <3>1 DEF FSInv, CallInv
      <3> QED BY <3>1, <3>2 DEF Reach
    <2>4. CASE UNCHANGED vars
      <3>1. UNCHANGED <<inode, data, op>>
        BY <2>4 DEF vars
      <3>2. Dirs' = Dirs
        BY <3>1 DEF Dirs, IsDir, Proper, Table
      <3>3. ASSUME NEW a \in Actors PROVE Named(op[a].ino)' <=> Named(op[a].ino)
        BY <3>1, <3>2 DEF Named, Proper, Table
      <3>4. Reach'
        BY <3>1, <3>2, <3>3 DEF Reach
      <3> QED BY <2>4, <3>4
    <2> QED BY <2>1, <2>2, <2>3, <2>4 DEF Next
  <1>3. Spec => []FSInv
    BY FSSafe
  <1> QED BY <1>1, <1>2, <1>3, PTL DEF Spec, OnlyFullDirLoses, FullLoses
=============================================================================

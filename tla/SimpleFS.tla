------------------------------ MODULE SimpleFS ------------------------------
(***************************************************************************)
(* The file system, fs/simplefs.cpp, as the shell and user processes drive *)
(* it through fs/vfs.cpp: formatting and mounting, simplefs_create,        *)
(* simplefs_mkdir and simplefs_write on a disk that keeps what was written *)
(* when the machine stops.                                                 *)
(*                                                                         *)
(* ata_write_sector flushes the drive's cache before it returns, so every  *)
(* sector write is one step, and the machine may stop between any two of   *)
(* them.  An action is one sector write together with the reads that       *)
(* follow it, up to the next write: op[a] then holds the buffer that the   *)
(* next write will put on the disk.  A system call runs with IF = 0; the   *)
(* shell's own commands run with IF = 1, and an actor in Interruptible can *)
(* lose the processor between two of its writes.                           *)
(***************************************************************************)
EXTENDS Integers, FiniteSets, FiniteSetsExt, Sequences

CONSTANTS
  InodeCount,     \* SIMPLEFS_INODE_COUNT (64)
  PerSector,      \* SIMPLEFS_INODES_PER_SECTOR (4)
  Direct,         \* SIMPLEFS_DIRECT_BLOCKS (30)
  EntriesPer,     \* SIMPLEFS_ENTRIES_PER_BLOCK (16)
  SectorSize,     \* bytes of a block (512)
  SizeMod,        \* 2^32, the width of a size
  Blocks,         \* sector numbers of the data area
  Names,          \* file names a caller may use
  Actors,         \* the shell and the user processes
  Shell,          \* the only one with create and mkdir
  Sizes,          \* sizes a caller may write
  ToolSizes,      \* sizes of the host's files
  MaxTools,       \* bound: commands of the disk tool
  RawInodes,      \* what an unformatted inode table may contain
  Interruptible,  \* the actors another one can interrupt in the middle
  CrashInFormat   \* whether the machine may stop during formatting

Inodes == 0..(InodeCount - 1)
Slots == 1..EntriesPer
Index == 0..(Direct - 1)

InodeType == [used : BOOLEAN, dir : BOOLEAN, size : 0..(SizeMod - 1),
              blocks : [Index -> Blocks \cup {0}]]

\* The name of an entry that is not in use.
NoName == ""

ASSUME SimpleFSAssumption ==
  /\ InodeCount \in Nat \ {0} /\ PerSector \in Nat \ {0} /\ Direct \in Nat \ {0}
  /\ EntriesPer \in Nat /\ EntriesPer >= 2
  /\ SectorSize \in Nat \ {0} /\ SizeMod \in Nat \ {0}
  /\ Blocks \subseteq Nat \ {0} /\ IsFiniteSet(Blocks)
  /\ Cardinality(Blocks) > InodeCount * Direct
  /\ MaxTools \in Nat /\ Shell \in Actors /\ Interruptible \subseteq Actors
  /\ Sizes \subseteq 0..(SizeMod - 1) /\ ToolSizes \subseteq 0..(SizeMod - 1)
  /\ Names \cap {".", "..", NoName} = {}
  /\ RawInodes \subseteq InodeType
  /\ CrashInFormat \in BOOLEAN

ZeroInode == [used |-> FALSE, dir |-> FALSE, size |-> 0, blocks |-> [j \in Index |-> 0]]
NoEntry == [name |-> NoName, ino |-> 0]
EmptyTable == [s \in Slots |-> NoEntry]

\* The contents of a data sector: a table of entries, or the j-th block of a
\* write to inode i.  A sector never written reads as zeroes.
TableSector(t) == [table |-> t, of |-> <<>>]
FileSector(i, j) == [table |-> EmptyTable, of |-> <<i, j>>]

VARIABLES
  magic,    \* disk: the superblock is valid
  inode,    \* disk: the inode table
  data,     \* disk: the data sectors
  up,       \* "off", "format" or "up"
  fmt,      \* next sector simplefs_init writes while formatting
  op,       \* the call each actor is in
  tools     \* how often the disk tool was used

disk == <<magic, inode, data>>
vars == <<magic, inode, data, up, fmt, op, tools>>

\* A call: where it is, its arguments, the inode it works on as number and as
\* copy in memory, the loop index, and the sector buffer of the next write.
Idle == [pc |-> "idle", dir |-> 0, name |-> NoName, isdir |-> FALSE, size |-> 0,
         ino |-> 0, mem |-> ZeroInode, j |-> 0, blk |-> 0,
         sec |-> [i \in Inodes |-> ZeroInode], table |-> EmptyTable]

Init ==
  /\ magic = FALSE
  /\ \E r \in RawInodes : inode = [i \in Inodes |-> r]
  /\ data = [b \in Blocks |-> TableSector(EmptyTable)]
  /\ up = "off" /\ fmt = 0
  /\ op = [a \in Actors |-> Idle]
  /\ tools = 0

-----------------------------------------------------------------------------
(* simplefs_init *)

FirstBlock == CHOOSE b \in Blocks : \A c \in Blocks : b <= c
InodeSectors == (InodeCount + PerSector - 1) \div PerSector
SectorOf(i) == i \div PerSector

PowerOn ==
  /\ up = "off"
  /\ up' = IF magic THEN "up" ELSE "format"
  /\ fmt' = 0
  /\ UNCHANGED <<disk, op, tools>>

FormatSuper ==
  /\ up = "format" /\ fmt = 0
  /\ magic' = TRUE /\ fmt' = 1
  /\ UNCHANGED <<inode, data, up, op, tools>>

FormatClear ==
  /\ up = "format" /\ fmt \in 1..InodeSectors
  /\ inode' = [i \in Inodes |-> IF SectorOf(i) = fmt - 1 THEN ZeroInode ELSE inode[i]]
  /\ fmt' = fmt + 1
  /\ UNCHANGED <<magic, data, up, op, tools>>

\* The whole first sector is written: the root and zeroes.
FormatRootInode ==
  /\ up = "format" /\ fmt = InodeSectors + 1
  /\ inode' = [i \in Inodes |->
       IF i = 0 THEN [ZeroInode EXCEPT !.used = TRUE, !.dir = TRUE, !.blocks[0] = FirstBlock]
       ELSE IF SectorOf(i) = 0 THEN ZeroInode ELSE inode[i]]
  /\ fmt' = fmt + 1
  /\ UNCHANGED <<magic, data, up, op, tools>>

\* The table of a new directory.
DirTable(self, parent) ==
  [s \in Slots |-> CASE s = 1 -> [name |-> ".", ino |-> self]
                     [] s = 2 -> [name |-> "..", ino |-> parent]
                     [] OTHER -> NoEntry]

FormatRootDir ==
  /\ up = "format" /\ fmt = InodeSectors + 2
  /\ data' = [data EXCEPT ![FirstBlock] = TableSector(DirTable(0, 0))]
  /\ up' = "up" /\ fmt' = 0
  /\ UNCHANGED <<magic, inode, op, tools>>

\* Power is lost, or the machine is reset: the calls in progress are gone.
Crash ==
  /\ up = "up" \/ (up = "format" /\ CrashInFormat)
  /\ up' = "off" /\ fmt' = 0
  /\ op' = [a \in Actors |-> Idle]
  /\ UNCHANGED <<disk, tools>>

-----------------------------------------------------------------------------
(* Reading the disk *)

Table(d) == data[inode[d].blocks[0]].table

\* simplefs_lookup: the inodes that entries called n of directory d name.
Lookup(d, n) == {Table(d)[s].ino : s \in {s \in Slots : Table(d)[s].name = n}}

\* An entry of directory d other than . and .. at slot s.
Proper(d, s) == Table(d)[s].name \in Names

IsDir(d) == inode[d].used /\ inode[d].dir /\ inode[d].blocks[0] # 0

\* The directories vfs_resolve_path reaches, as a cwd or as a node's parent.
Dirs == {d \in Inodes : IsDir(d) /\ (d = 0 \/ \E p \in Inodes, s \in Slots :
                                       IsDir(p) /\ Proper(p, s) /\ Table(p)[s].ino = d)}

\* Mutant of UsedBlocks: only the first block of each inode is looked at.
UsedBlocksFirst(t) == {t[i].blocks[0] : i \in {i \in Inodes : t[i].used}}

\* is_block_used, on the inode table t.
UsedBlocks(t) ==
  {t[k[1]].blocks[k[2]] : k \in {k \in Inodes \X Index : t[k[1]].used}}

\* find_free_data_block.
IsFirstFree(b, t) ==
  b \in Blocks \ UsedBlocks(t) /\ \A c \in Blocks \ UsedBlocks(t) : b <= c

\* allocate_free_inode's search.
FreeInodes == {i \in Inodes : ~inode[i].used}

\* Mutant of Sector: the sector is not read before its inode is set.
SectorUnread(t, i, v) == [k \in Inodes |-> IF k = i THEN v ELSE ZeroInode]

\* The buffer of an inode sector of table t in which inode i is set to v (only
\* the inodes of that sector matter), and the table once it has been written.
Sector(t, i, v) == [t EXCEPT ![i] = v]

Flush(o) == [k \in Inodes |-> IF SectorOf(k) = SectorOf(o.ino) THEN o.sec[k] ELSE inode[k]]

MayStart(a) ==
  /\ up = "up" /\ op[a] = Idle
  /\ \A c \in Actors \ Interruptible : op[c] = Idle

\* op[a] may run: no call that must not be interrupted is in progress.
MayStep(a, pc) ==
  /\ op[a].pc = pc
  /\ \A c \in Actors \ Interruptible : c # a => op[c] = Idle

Goto(a, o) == op' = [op EXCEPT ![a] = o]
Fail(a) == op' = [op EXCEPT ![a] = Idle]

-----------------------------------------------------------------------------
(* simplefs_create and simplefs_mkdir *)

Taken(d, n) == Lookup(d, n) # {}

\* Up to the write of allocate_free_inode.
MakeBegin(a, d, n, isdir) ==
  /\ MayStart(a) /\ a = Shell /\ d \in Dirs
  /\ IF Taken(d, n) \/ FreeInodes = {}
     THEN Fail(a)
     ELSE \E i \in FreeInodes :
            /\ \A k \in FreeInodes : i <= k
            /\ LET new == [ZeroInode EXCEPT !.used = TRUE, !.dir = isdir]
               IN Goto(a, [Idle EXCEPT !.pc = "alloc", !.dir = d, !.name = n, !.isdir = isdir,
                                       !.ino = i, !.sec = Sector(inode, i, new)])
  /\ UNCHANGED <<disk, up, fmt, tools>>

\* Mutant of EmptySlots: the last entry is not looked at.
EmptySlotsShort(d) == {s \in Slots : Table(d)[s] = NoEntry /\ s # EntriesPer}

\* What add_dir_entry searches.
EmptySlots(d) == {s \in Slots : Table(d)[s] = NoEntry}

\* add_dir_entry, up to its write: the first empty slot of the parent's table.
\* (parent_data_block_num was read before; a directory keeps its block.)
AddEntry(a) ==
  LET o == op[a]
  IN IF EmptySlots(o.dir) = {} THEN Fail(a)
     ELSE \E s \in EmptySlots(o.dir) :
            /\ \A r \in EmptySlots(o.dir) : s <= r
            /\ Goto(a, [o EXCEPT !.pc = "entry",
                 !.table = [Table(o.dir) EXCEPT ![s] = [name |-> o.name, ino |-> o.ino]]])

\* allocate_free_inode writes the inode sector.
AllocWrite(a) ==
  LET o == op[a]
      t == Flush(o)
  IN /\ MayStep(a, "alloc")
     /\ inode' = t
     /\ IF o.isdir THEN \E b \in Blocks : /\ IsFirstFree(b, t)
                                          /\ Goto(a, [o EXCEPT !.pc = "dirblock", !.blk = b])
                   ELSE AddEntry(a)
     /\ UNCHANGED <<magic, data, up, fmt, tools>>

\* Mutant of DirBlockWrite: the inode is never given its block.
DirBlockWriteLinks(a) ==
  LET o == op[a]
  IN /\ MayStep(a, "dirblock")
     /\ data' = [data EXCEPT ![o.blk] = TableSector(DirTable(o.ino, o.dir))]
     /\ AddEntry(a)
     /\ UNCHANGED <<magic, inode, up, fmt, tools>>

\* The new directory's table is written; its inode is read back.
DirBlockWrite(a) ==
  LET o == op[a]
      new == [inode[o.ino] EXCEPT !.blocks[0] = o.blk]
  IN /\ MayStep(a, "dirblock")
     /\ data' = [data EXCEPT ![o.blk] = TableSector(DirTable(o.ino, o.dir))]
     /\ Goto(a, [o EXCEPT !.pc = "dirinode", !.sec = Sector(inode, o.ino, new)])
     /\ UNCHANGED <<magic, inode, up, fmt, tools>>

DirInodeWrite(a) ==
  /\ MayStep(a, "dirinode")
  /\ inode' = Flush(op[a])
  /\ AddEntry(a)
  /\ UNCHANGED <<magic, data, up, fmt, tools>>

EntryWrite(a) ==
  /\ MayStep(a, "entry")
  /\ data' = [data EXCEPT ![inode[op[a].dir].blocks[0]] = TableSector(op[a].table)]
  /\ Goto(a, Idle)
  /\ UNCHANGED <<magic, inode, up, fmt, tools>>

-----------------------------------------------------------------------------
(* simplefs_write *)

Needed(size) == ((size + SectorSize - 1) % SizeMod) \div SectorSize

\* Mutant of Claimed: the size is written together with a claimed block.
ClaimedSized(o, b) == [o.mem EXCEPT !.blocks[o.j] = b, !.size = o.size]

\* The file's inode in memory once block b has been assigned to it.
Claimed(o, b) == [o.mem EXCEPT !.blocks[o.j] = b]

\* The loop at block o.j, up to the next write; t is the table on the disk.
WriteNext(a, o, t) ==
  IF o.j = Needed(o.size)
  THEN Goto(a, [o EXCEPT !.pc = "size", !.sec = Sector(t, o.ino, [o.mem EXCEPT !.size = o.size])])
  ELSE IF o.mem.blocks[o.j] # 0
  THEN Goto(a, [o EXCEPT !.pc = "data"])
  ELSE \E b \in Blocks :
         /\ IsFirstFree(b, t)
         /\ Goto(a, [o EXCEPT !.pc = "claim", !.mem = Claimed(o, b),
                              !.sec = Sector(t, o.ino, Claimed(o, b))])

\* vfs_write on a node that names a file; nodes are never stale because
\* nothing is ever renamed or removed.
WriteBegin(a, d, n, size) ==
  /\ MayStart(a) /\ d \in Dirs
  /\ \E i \in Lookup(d, n) :
       IF inode[i].dir \/ Needed(size) > Direct THEN Fail(a)
       ELSE WriteNext(a, [Idle EXCEPT !.ino = i, !.mem = inode[i], !.size = size], inode)
  /\ UNCHANGED <<disk, up, fmt, tools>>

ClaimWrite(a) ==
  /\ MayStep(a, "claim")
  /\ inode' = Flush(op[a])
  /\ Goto(a, [op[a] EXCEPT !.pc = "data"])
  /\ UNCHANGED <<magic, data, up, fmt, tools>>

DataWrite(a) ==
  LET o == op[a]
  IN /\ MayStep(a, "data")
     /\ data' = [data EXCEPT ![o.mem.blocks[o.j]] = FileSector(o.ino, o.j)]
     /\ WriteNext(a, [o EXCEPT !.j = @ + 1], inode)
     /\ UNCHANGED <<magic, inode, up, fmt, tools>>

SizeWrite(a) ==
  /\ MayStep(a, "size")
  /\ inode' = Flush(op[a])
  /\ Goto(a, Idle)
  /\ UNCHANGED <<magic, data, up, fmt, tools>>

-----------------------------------------------------------------------------

(* tools/simplefs_tool.py, on the image of a machine that is off.  A command that the    *)
(* host breaks off in the middle is not modelled.                                        *)

\* The numbers of S in order.
InOrder(S) ==
  [k \in 1..Cardinality(S) |-> CHOOSE b \in S : Cardinality({c \in S : c < b}) = k - 1]

\* What _find_free_blocks finds, and the blocks that inode i has.
FreeBlocks == InOrder(Blocks \ UsedBlocks(inode))
OldBlocks(i) ==
  LET used == InOrder({j \in Index : inode[i].blocks[j] # 0})
  IN [k \in 1..Len(used) |-> inode[i].blocks[used[k]]]

\* put_file: an entry of that name keeps its inode and its blocks as far as they are
\* needed, whatever it was; the root may turn out to be full when all else is done.
ToolPut(n, size) ==
  LET need == (size + SectorSize - 1) \div SectorSize
      known == Lookup(0, n) # {}
  IN /\ up = "off" /\ magic /\ IsDir(0) /\ need <= Direct
     /\ \E i \in IF known THEN Lookup(0, n) ELSE {k \in FreeInodes \ {0} : \A f \in FreeInodes \ {0} : k <= f} :
          LET all == IF known THEN OldBlocks(i) \o FreeBlocks ELSE FreeBlocks
              filled == [b \in Blocks |-> IF \E j \in 1..need : all[j] = b
                           THEN FileSector(i, (CHOOSE j \in 1..need : all[j] = b) - 1) ELSE data[b]]
              root == inode[0].blocks[0]
              slots == IF known THEN {} ELSE EmptySlots(0)
          IN /\ Len(all) >= need
             /\ inode' = [inode EXCEPT ![i] = [used |-> TRUE, dir |-> FALSE, size |-> size,
                            blocks |-> [j \in Index |-> IF j < need THEN all[j + 1] ELSE 0]]]
             /\ data' = IF slots = {} THEN filled
                        ELSE [filled EXCEPT ![root].table[Min(slots)] = [name |-> n, ino |-> i]]
  /\ tools < MaxTools /\ tools' = tools + 1
  /\ UNCHANGED <<magic, up, fmt, op>>

\* rm_file: a file of the root directory.
ToolRm(n) ==
  /\ up = "off" /\ magic /\ IsDir(0)
  /\ \E s \in Slots :
       LET i == Table(0)[s].ino
       IN /\ Table(0)[s].name = n /\ ~inode[i].dir
          /\ inode' = [inode EXCEPT ![i] = ZeroInode]
          /\ data' = [data EXCEPT ![inode[0].blocks[0]].table[s] = NoEntry]
  /\ tools < MaxTools /\ tools' = tools + 1
  /\ UNCHANGED <<magic, up, fmt, op>>

-----------------------------------------------------------------------------

Step(a) ==
  \/ \E d \in Inodes, n \in Names :
       \/ \E isdir \in BOOLEAN : MakeBegin(a, d, n, isdir)
       \/ \E size \in Sizes : WriteBegin(a, d, n, size)
  \/ AllocWrite(a) \/ DirBlockWrite(a) \/ DirInodeWrite(a) \/ EntryWrite(a)
  \/ ClaimWrite(a) \/ DataWrite(a) \/ SizeWrite(a)

Next ==
  \/ PowerOn \/ FormatSuper \/ FormatClear \/ FormatRootInode \/ FormatRootDir
  \/ Crash
  \/ \E n \in Names : ToolRm(n) \/ \E size \in ToolSizes : ToolPut(n, size)
  \/ \E a \in Actors : Step(a)

Spec == Init /\ [][Next]_vars

-----------------------------------------------------------------------------
(* Properties. *)

EntryType == [name : Names \cup {".", "..", NoName}, ino : Inodes]

TypeOK ==
  /\ magic \in BOOLEAN
  /\ inode \in [Inodes -> InodeType]
  /\ \A b \in Blocks : /\ data[b].table \in [Slots -> EntryType]
                       /\ data[b].of = <<>> \/ data[b].of \in Inodes \X Index
  /\ up \in {"off", "format", "up"} /\ fmt \in 0..(InodeSectors + 2)

\* A mounted disk has its root directory, so that paths resolve and files can
\* be created.
RootExists == up = "up" => inode[0].used /\ inode[0].dir /\ inode[0].blocks[0] # 0

\* Formatting is over and the disk has been in use since.
Formatted == magic /\ up # "format"

\* No sector belongs to two files, or twice to one, whatever call was cut
\* short by a crash: simplefs_write puts its claim in the inode table before
\* the next search of find_free_data_block.
BlocksDisjoint ==
  Formatted =>
    \A i, k \in Inodes, j, l \in Index :
      /\ inode[i].used /\ inode[k].used /\ <<i, j>> # <<k, l>>
      /\ inode[i].blocks[j] # 0
      => inode[i].blocks[j] # inode[k].blocks[l]

\* A mounted disk has its root, and the tree is sound at every moment, so also
\* when a crash leaves a mkdir or a touch half done: an entry names an inode that
\* is in use, a directory it names has a table whose . and .. are itself and its
\* parent, no two entries of the disk name the same inode, and names are unique
\* within a directory, so that the first match of simplefs_lookup is the only one.
TreeSound ==
  /\ TypeOK /\ RootExists
  /\ Formatted =>
       \A d \in Dirs, s \in Slots : Proper(d, s) =>
         LET i == Table(d)[s].ino
         IN /\ inode[i].used /\ i # 0
            /\ inode[i].dir => IsDir(i) /\ Lookup(i, ".") = {i} /\ Lookup(i, "..") = {d}
            /\ \A e \in Dirs, r \in Slots :
                 Proper(e, r) /\ <<d, s>> # <<e, r>> => Table(e)[r].ino # i
            /\ \A r \in Slots : Table(d)[r].name = Table(d)[s].name => s = r

\* The bytes of a write whose blocks simplefs_write counts right: size + 511 does
\* not wrap.  A longer count, which SYS_WRITE passes on unchecked, is counted as no
\* block at all and recorded as the file's size: nothing below it was written.
Counted(size) == size + SectorSize - 1 < SizeMod

\* Every byte below a file's size was written to that file at that place, also
\* after a crash in the middle of a write that makes it longer: a block is
\* filled before the size that reveals it is written.  A size that simplefs_write
\* could not count is excepted, and stands on the disk until the next write or put.
NoStaleData ==
  Formatted =>
    \A i \in Inodes : inode[i].used /\ ~inode[i].dir /\ Counted(inode[i].size) =>
      \A j \in 0..((inode[i].size - 1 + SectorSize) \div SectorSize - 1) :
        /\ j \in Index /\ inode[i].blocks[j] # 0
        /\ data[inode[i].blocks[j]].of = <<i, j>>

\* What a file or directory has is never taken away by a call on another one,
\* although four inodes share a sector and each update rewrites all four.  (Only of
\* calls that are not interleaved: two that are can lose an update of that sector.)
NothingLost ==
  [][up = "up" => \A i \in Inodes : inode[i].used =>
       /\ inode'[i].used /\ inode'[i].dir = inode[i].dir
       /\ \A j \in Index : inode[i].blocks[j] \in {0, inode'[i].blocks[j]}]_vars

\* The inodes that are in use, in no call, and in no directory.
Lost ==
  {i \in Inodes \ {0} :
     /\ inode[i].used /\ \A a \in Actors : op[a].pc = "idle" \/ op[a].ino # i
     /\ \A d \in Dirs, s \in Slots : Proper(d, s) => Table(d)[s].ino # i}

\* create and mkdir take the inode first and enter the name last.  Short of a crash an
\* inode is lost only by a call that took it and found the directory it works in full.
OnlyFullDirLoses ==
  [][up = "up" /\ up' = "up" =>
       \A i \in Lost' \ Lost : \E a \in Actors :
         /\ op[a] # Idle /\ op[a].ino = i
         /\ \A s \in Slots : Table(op[a].dir)[s] # NoEntry]_vars
=============================================================================

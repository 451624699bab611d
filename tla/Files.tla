------------------------------- MODULE Files -------------------------------
(***************************************************************************)
(* Open files and paths: the descriptor system calls of                    *)
(* arch/x86/syscall.cpp, the File objects of fs/file.cpp, and the working  *)
(* directories, path resolution and path printing of fs/vfs.cpp.  The file *)
(* system below is module SimpleFS; here a call of it is one step.         *)
(*                                                                         *)
(* A path is a sequence of words and "/": the characters of a word, what   *)
(* stands between two slashes, are read and compared together.  The shell  *)
(* may give a file a name with a "/" in it, which no path can then spell:  *)
(* such a name is in Names and not in Words.  A node is a vfs_node, the    *)
(* copy of a directory entry that a task keeps as its cwd or in a File;    *)
(* the set {} stands for the result -1 of a function that returns a node.  *)
(***************************************************************************)
EXTENDS Integers, Sequences, FiniteSets, FiniteSetsExt, SequencesExt

CONSTANTS
  Names,       \* names touch and mkdir may be asked for
  Words,       \* words a path may have, besides "." and ".."
  NameLen,     \* the lengths of both
  NameMax,     \* the longest a name may be: SIMPLEFS_MAX_FILENAME - 1 (27)
  TokenMax,    \* the bytes of vfs_resolve_path's token (256)
  DirMax,      \* SIMPLEFS_ENTRIES_PER_BLOCK (16)
  SizeMax,     \* the largest file: SIMPLEFS_DIRECT_BLOCKS * 512
  NInodes,     \* SIMPLEFS_INODE_COUNT (64)
  Tasks,       \* the tasks
  Shell,       \* the task that creates files, directories and other tasks
  Clients,     \* the tasks that open and close files
  MaxFd,       \* MAX_FD (16)
  NFiles,      \* bound: File objects that kmalloc can serve
  Paths,       \* paths a caller may use
  OpenPaths,   \* those that are opened
  Sizes,       \* sizes a caller may write or read
  MaxOffset,   \* bound: no read once a File's offset has passed it
  BufSizes     \* sizes of the buffer given to SYS_GETCWD

Inodes == 0..(NInodes - 1)
Fds == 0..(MaxFd - 1)
Objects == 1..NFiles
NoToken == ""   \* the token before a character of a name was read

ASSUME FilesAssumption ==
  /\ NInodes \in Nat \ {0} /\ MaxFd \in Nat /\ MaxFd >= 3 /\ NFiles \in Nat /\ NFiles >= 3 /\ MaxOffset \in Nat
  /\ NameLen \in [Names \cup Words -> Nat \ {0}] /\ (Names \cup Words) \cap {".", "..", "/", NoToken} = {}
  /\ NameMax \in Nat /\ TokenMax \in Nat /\ NameMax < TokenMax /\ DirMax \in Nat /\ SizeMax \in Nat
  /\ Shell \in Tasks /\ Clients \subseteq Tasks /\ OpenPaths \subseteq Paths /\ Sizes \subseteq Nat /\ BufSizes \subseteq Nat
  /\ \A p \in Paths : /\ p \in Seq(Words \cup {".", "..", "/"})
                      /\ \A k \in 1..(Len(p) - 1) : p[k] = "/" \/ p[k + 1] = "/"

VARIABLES
  ent,      \* the tables of the directories: ent[i][name] = inode; <<>> for other inodes
  size,     \* the sizes of the inodes in use
  files,    \* the File objects kmalloc has given out
  fd,       \* fd_table of the live tasks; 0 is a null pointer
  cwd,      \* their working directories
  overrun   \* vfs_resolve_path has written behind its token

vars == <<ent, size, files, fd, cwd, overrun>>

Live == DOMAIN fd
IsDir(i) == ent[i] # <<>>
Root == [name |-> "/", ino |-> 0, parent |-> 0, dir |-> TRUE]   \* vfs_root
Table(i, up) == [n \in {".", ".."} |-> IF n = "." THEN i ELSE up]

-----------------------------------------------------------------------------
(* Paths *)

\* Mutant of Lookup: the node keeps the parent of the directory searched.
LookupGrandparent(d, n) ==
  IF ~d.dir THEN {}
  ELSE IF n = "." THEN {d}
  ELSE {[name |-> n, ino |-> ent[d.ino][x], parent |-> d.parent, dir |-> IsDir(ent[d.ino][x])] :
          x \in {n} \cap DOMAIN ent[d.ino]}

\* vfs_lookup
Lookup(d, n) ==
  IF ~d.dir THEN {}
  ELSE IF n = "." THEN {d}
  ELSE {[name |-> n, ino |-> ent[d.ino][x], parent |-> d.ino, dir |-> IsDir(ent[d.ino][x])] :
          x \in {n} \cap DOMAIN ent[d.ino]}

\* resolve_step; without a token nothing is looked up.
Step(S, token) == IF token = NoToken THEN S ELSE UNION {Lookup(c, token) : c \in S}

\* Mutant of Resolve: the token after the last "/" is forgotten.
ResolveNoTail(c, p) ==
  LET s[i \in 0..Len(p)] ==
        IF i = 0 THEN [cur |-> IF p # <<>> /\ p[1] = "/" THEN {Root} ELSE {c}, token |-> NoToken]
        ELSE IF p[i] = "/" THEN [cur |-> Step(s[i - 1].cur, s[i - 1].token), token |-> NoToken]
        ELSE [s[i - 1] EXCEPT !.token = p[i]]
  IN s[Len(p)].cur

\* vfs_resolve_path, for a task whose working directory is c: the loop over the path,
\* and the token that no "/" ends.
Resolve(c, p) ==
  LET s[i \in 0..Len(p)] ==
        IF i = 0 THEN [cur |-> IF p # <<>> /\ p[1] = "/" THEN {Root} ELSE {c}, token |-> NoToken]
        ELSE IF p[i] = "/" THEN [cur |-> Step(s[i - 1].cur, s[i - 1].token), token |-> NoToken]
        ELSE [s[i - 1] EXCEPT !.token = p[i]]
  IN Step(s[Len(p)].cur, s[Len(p)].token)

\* vfs_resolve_path comes to a word that does not fit its token: it has found what stands
\* before the word, and checks no length.
Overruns(c, p) ==
  \E k \in 1..Len(p) : /\ p[k] \in Words /\ NameLen[p[k]] >= TokenMax
                        /\ Resolve(c, SubSeq(p, 1, k - 1)) # {}

\* The name vfs_get_path finds for inode i in directory d.
NameIn(d, i) == CHOOSE n \in DOMAIN ent[d] : ent[d][n] = i

\* Mutant of GetPath: each component is put behind the ones below it.
GetPathReversed(node, n) ==
  LET g[k \in Inodes] ==
        IF k = 0 THEN [at |-> node.ino, room |-> n - 2, ok |-> TRUE, out |-> <<>>]
        ELSE LET s == g[k - 1]
                 up == ent[s.at][".."]
                 name == NameIn(up, s.at)
             IN IF s.at = 0 \/ ~s.ok THEN s
                ELSE [at |-> up, room |-> s.room - NameLen[name] - 1,
                      ok |-> s.room > NameLen[name], out |-> s.out \o <<"/", name>>]
  IN IF n = 0 THEN {} ELSE IF node.ino = 0 THEN {<<"/">>}
     ELSE {g[k].out : k \in {j \in {NInodes - 1} : g[j].ok}}

\* vfs_get_path into n bytes: components are put in front from the end of the buffer.
\* room is idx, the last free byte; the test after the "/" wants one more.  For the root
\* two bytes are copied whatever n is.
GetPath(node, n) ==
  LET g[k \in Inodes] ==
        IF k = 0 THEN [at |-> node.ino, room |-> n - 2, ok |-> TRUE, out |-> <<>>]
        ELSE LET s == g[k - 1]
                 up == ent[s.at][".."]
                 name == NameIn(up, s.at)
             IN IF s.at = 0 \/ ~s.ok THEN s
                ELSE [at |-> up, room |-> s.room - NameLen[name] - 1,
                      ok |-> s.room > NameLen[name], out |-> <<"/", name>> \o s.out]
  IN IF n = 0 THEN {} ELSE IF node.ino = 0 THEN {<<"/">>}
     ELSE {g[k].out : k \in {j \in {NInodes - 1} : g[j].ok}}

-----------------------------------------------------------------------------
(* File objects and descriptors *)

\* What kmalloc(sizeof(File)) returns while the Files fs exist, 0 when the heap is full.
NewObject(fs) == IF DOMAIN fs = Objects THEN 0 ELSE Min(Objects \ DOMAIN fs)

\* create_stdin_file, create_stdout_file, create_stderr_file, create_vfs_file.
File(type, node) == [type |-> type, node |-> node, offset |-> 0]

\* A File that vfs_file_close has marked, and (history) one whose task was killed: what
\* else they hold can never be read again.
Unused == File("unused", {})
Orphan == File("orphan", {})

\* The Files once f is written to object o, and once o is freed.  No File is at 0.
With(fs, o, f) == [x \in DOMAIN fs \cup ({o} \ {0}) |-> IF x = o THEN f ELSE fs[x]]
Forget(o) == [x \in DOMAIN files \ {o} |-> files[x]]

\* A descriptor table with the three standard streams.
Streams(a, b, c) ==
  [i \in Fds |-> IF i = 0 THEN a ELSE IF i = 1 THEN b ELSE IF i = 2 THEN c ELSE 0]

Init ==
  /\ ent = [i \in Inodes |-> IF i = 0 THEN Table(0, 0) ELSE <<>>]
  /\ size = [i \in {0} |-> 0]
  /\ files = [o \in 1..3 |-> File(<<"stdin", "stdout", "stderr">>[o], {})]
  /\ fd = [t \in {Shell} |-> Streams(1, 2, 3)]
  /\ cwd = [t \in {Shell} |-> Root]
  /\ overrun = FALSE

\* A new task: init_task_fds, which checks no kmalloc, and the cwd of its creator.
Spawn(t) ==
  /\ t \notin Live
  /\ LET in == NewObject(files)
         files1 == With(files, in, File("stdin", {}))
         out == NewObject(files1)
         files2 == With(files1, out, File("stdout", {}))
         err == NewObject(files2)
     IN /\ files' = With(files2, err, File("stderr", {}))
        /\ fd' = [u \in Live \cup {t} |-> IF u # t THEN fd[u] ELSE Streams(in, out, err)]
  /\ cwd' = [u \in Live \cup {t} |-> IF u # t THEN cwd[u] ELSE cwd[Shell]]
  /\ UNCHANGED <<ent, size, overrun>>

\* kill_task frees the Task and none of its Files.
Kill(t) ==
  /\ t \in Live \ {Shell}
  /\ fd' = [u \in Live \ {t} |-> fd[u]]
  /\ cwd' = [u \in Live \ {t} |-> cwd[u]]
  /\ files' = [o \in DOMAIN files |-> IF o \in Range(fd[t]) THEN Orphan ELSE files[o]]
  /\ UNCHANGED <<ent, size, overrun>>

\* SYS_OPEN: any node, a directory too.  It fails without a node, an object, or a free
\* descriptor, and then frees the object again.
Open(t, p) ==
  /\ t \in Live /\ NewObject(files) # 0 /\ 0 \in Range(fd[t]) /\ ~Overruns(cwd[t], p)
  /\ \E n \in Resolve(cwd[t], p) : files' = With(files, NewObject(files), File("regular", {n}))
  /\ fd' = [fd EXCEPT ![t][Min({i \in Fds : fd[t][i] = 0})] = NewObject(files)]
  /\ UNCHANGED <<ent, size, cwd, overrun>>

\* Mutant of Close: the descriptor keeps the pointer.
CloseKeepsFd(t, i) ==
  /\ t \in Live /\ fd[t][i] # 0
  /\ LET o == fd[t][i]
     IN files' = IF files[o].type \in {"regular", "unused"}
                 THEN [files EXCEPT ![o] = Unused] ELSE Forget(o)
  /\ UNCHANGED <<ent, size, fd, cwd, overrun>>

\* SYS_CLOSE: vfs_file_close only marks the File; the standard streams have no close
\* function and are freed.
Close(t, i) ==
  /\ t \in Live /\ fd[t][i] # 0
  /\ LET o == fd[t][i]
     IN files' = IF files[o].type = "regular" THEN [files EXCEPT ![o] = Unused] ELSE Forget(o)
  /\ fd' = [fd EXCEPT ![t][i] = 0]
  /\ UNCHANGED <<ent, size, cwd, overrun>>

\* The inode simplefs_read and simplefs_write work on: looked up again by name.
Target(n) == {ent[n.parent][x] : x \in {y \in {n.name} \cap DOMAIN ent[n.parent] : ~n.dir}}

\* The bytes simplefs_read copies, always from the start of the file.
Copied(x, count) == IF size[x] < count THEN size[x] ELSE count

\* SYS_READ on a regular file.
Read(t, i, count) ==
  /\ t \in Live /\ fd[t][i] # 0 /\ files[fd[t][i]].type = "regular"
  /\ files[fd[t][i]].offset <= MaxOffset
  /\ \E n \in files[fd[t][i]].node : \E x \in Target(n) :
       files' = [files EXCEPT ![fd[t][i]].offset = @ + Copied(x, count)]
  /\ UNCHANGED <<ent, size, fd, cwd, overrun>>

\* SYS_WRITE on a regular file, or the shell's write command: the file is replaced.
\* simplefs_write refuses what is too long (the counts here are those it does not wrap),
\* and returns 0, so the offset stays.
Write(t, i, count) ==
  /\ count <= SizeMax /\ t \in Live /\ fd[t][i] # 0 /\ files[fd[t][i]].type = "regular"
  /\ \E n \in files[fd[t][i]].node : \E x \in Target(n) : size' = [size EXCEPT ![x] = count]
  /\ UNCHANGED <<ent, files, fd, cwd, overrun>>

\* SYS_CHDIR, vfs_cd.
Chdir(t, p) ==
  /\ t \in Live /\ ~Overruns(cwd[t], p)
  /\ \E n \in Resolve(cwd[t], p) : n.dir /\ cwd' = [cwd EXCEPT ![t] = n]
  /\ UNCHANGED <<ent, size, files, fd, overrun>>

\* SYS_CHDIR, SYS_OPEN or a command of the shell with a word that is too long: what lies
\* behind the token on the kernel's stack is lost, and nothing is said of the kernel then.
PathOverrun(t, p) ==
  /\ t \in Live /\ Overruns(cwd[t], p)
  /\ overrun' = TRUE
  /\ UNCHANGED <<ent, size, files, fd, cwd>>

\* add_dir_entry finds an empty entry.
HasRoom(d) == Cardinality(DOMAIN ent[d]) < DirMax

\* The shell's touch and mkdir: vfs_create and vfs_mkdir in its working directory.  The
\* inode is taken before a full directory is found out, and is then lost: the table that
\* mkdir has made for it cannot be reached.
Create(name, isdir) ==
  LET d == cwd[Shell]
      i == Min(Inodes \ DOMAIN size)
      room == HasRoom(d.ino)
  IN /\ NameLen[name] <= NameMax /\ Lookup(d, name) = {} /\ DOMAIN size # Inodes
     /\ ent' = [ent EXCEPT ![d.ino] = IF ~room THEN @
                                      ELSE [n \in DOMAIN @ \cup {name} |-> IF n = name THEN i ELSE @[n]],
                           ![i] = IF isdir /\ room THEN Table(i, d.ino) ELSE <<>>]
     /\ size' = [j \in DOMAIN size \cup {i} |-> IF j = i THEN 0 ELSE size[j]]
     /\ UNCHANGED <<files, fd, cwd, overrun>>

Next ==
  /\ ~overrun
  /\ \/ \E t \in Tasks :
          \/ Spawn(t) \/ Kill(t)
          \/ \E p \in Paths : Chdir(t, p) \/ PathOverrun(t, p)
     \/ \E t \in Clients :
          \/ \E p \in OpenPaths : Open(t, p)
          \/ \E i \in Fds : Close(t, i) \/ \E n \in Sizes : Read(t, i, n) \/ Write(t, i, n)
     \/ \E name \in Names, isdir \in BOOLEAN : Create(name, isdir)

Spec == Init /\ [][Next]_vars

-----------------------------------------------------------------------------
(* Properties *)

\* Objects, descriptors and working directories have the shape the code gives them.
TypeOK ==
  /\ DOMAIN files \subseteq Objects
  /\ \A o \in DOMAIN files :
       /\ files[o].type \in {"stdin", "stdout", "stderr", "regular", "unused", "orphan"}
       /\ files[o].offset \in Nat
  /\ Shell \in Live /\ Live \subseteq Tasks /\ DOMAIN cwd = Live
  /\ \A t \in Live : fd[t] \in [Fds -> {0} \cup Objects] /\ cwd[t].dir

\* No descriptor of any task points at a freed or closed File, and no File is shared: so
\* a close, which frees or marks it, is never felt by another descriptor.
DescriptorsOwnFiles ==
  LET uses == {u \in Live \X Fds : fd[u[1]][u[2]] # 0}
  IN /\ TypeOK
     /\ \A u \in uses : /\ fd[u[1]][u[2]] \in DOMAIN files
                        /\ files[fd[u[1]][u[2]]].type # "unused"
     /\ \A u, v \in uses : fd[u[1]][u[2]] = fd[v[1]][v[2]] => u = v

\* What SYS_CLOSE says of a File that has a close function, "handles ref_count inside":
\* once its only descriptor is gone the File is gone.  A File that nobody can reach is
\* that of a killed task.
CloseFrees ==
  \A o \in DOMAIN files : files[o] = Orphan \/ \E t \in Live : o \in Range(fd[t])

\* Besides the closed Files that vfs_file_close only marks, which CloseFrees is about,
\* and the Files of killed tasks nothing leaks: not in a SYS_OPEN without a free
\* descriptor, nor in a task whose streams found the heap full.
OnlyClosedOrKilledLeak ==
  \A o \in DOMAIN files :
    files[o] \in {Unused, Orphan} \/ \E t \in Live : o \in Range(fd[t])

\* The copies of entries that tasks keep stay true while the tree grows: looking an open
\* file or working directory up again by parent and name gives the inode it was opened as.
NodesCurrent ==
  LET nodes == UNION ({files[o].node : o \in DOMAIN files} \cup {{cwd[t]} : t \in Live})
  IN \A n \in nodes :
       /\ n.dir = IsDir(n.ino) /\ n.ino \in DOMAIN size
       /\ n # Root => n.name \in DOMAIN ent[n.parent] /\ ent[n.parent][n.name] = n.ino

\* What a path means: the inode reached from the start by its components, or none.
Child(S, c) == {IF c = "." THEN i ELSE ent[i][c] : i \in {j \in S : IsDir(j) /\ c \in DOMAIN ent[j]}}
Denotes(i, p) ==
  LET to[k \in 0..Len(p)] ==
        IF k = 0 THEN {IF p # <<>> /\ p[1] = "/" THEN 0 ELSE i}
        ELSE IF p[k] = "/" THEN to[k - 1] ELSE Child(to[k - 1], p[k])
  IN to[Len(p)]

\* vfs_resolve_path finds the node that the path means, whatever slashes and words it
\* has and however the task came to its working directory, if it does not write behind
\* its token.  A name with a "/" in it is never what a path means.
ResolveRight ==
  \A t \in Live : \A p \in Paths :
    ~Overruns(cwd[t], p) => {n.ino : n \in Resolve(cwd[t], p)} = Denotes(cwd[t].ino, p)

\* The bytes of a path without the terminating 0.
PathLen(p) ==
  LET n[k \in 0..Len(p)] ==
        IF k = 0 THEN 0 ELSE n[k - 1] + (IF p[k] = "/" THEN 1 ELSE NameLen[p[k]])
  IN n[Len(p)]

\* vfs_get_path prints a path of the working directory that can be read again (it has no
\* name with a "/" in it) and resolves to it from anywhere, fits the buffer, and is
\* refused only if not even one byte would be to spare.  The one thing it prints that
\* does not fit is the root's "/" with its 0 into a buffer of one byte, which SYS_GETCWD
\* lets through.
GetPathRight ==
  \A t \in Live : \A n \in BufSizes :
    LET full == CHOOSE p \in GetPath(cwd[t], 1 + NInodes * (1 + NameMax)) : TRUE
    IN /\ \A k \in 1..Len(full) : full[k] \in Words \cup {"/"}
       /\ Denotes(0, full) = {cwd[t].ino}
       /\ \A p \in GetPath(cwd[t], n) : p = full /\ (PathLen(p) < n \/ (n = 1 /\ cwd[t].ino = 0))
       /\ PathLen(full) + 1 < n => GetPath(cwd[t], n) # {}
=============================================================================

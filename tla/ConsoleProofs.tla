--------------------------- MODULE ConsoleProofs ---------------------------
(***************************************************************************)
(* Proofs about what the user types and sees.  The ring of the keyboard    *)
(* driver is a bounded queue to all who read it, and the line on the       *)
(* screen is the line that Enter runs.                                     *)
(***************************************************************************)
EXTENDS Console, SequenceTheorems, FiniteSetTheorems, TLAPS

-----------------------------------------------------------------------------
(* The keyboard ring *)

\* x modulo N, at most one turn ahead.
Wrap(x) == IF x < N THEN x ELSE x - N

\* Index arithmetic: one turn around the ring at most.
LEMMA ModOnce ==
  ASSUME NEW x \in Nat, x < 2 * N
  PROVE  x % N = Wrap(x) /\ x % N \in 0..(N - 1)
  <1>1. N \in Nat /\ N > 1
    BY KeyboardAssumption
  <1>2. CASE x < N
    BY <1>1, <1>2 DEF Wrap
  <1>3. CASE x >= N
    BY <1>1, <1>3 DEF Wrap
  <1> QED BY <1>1, <1>2, <1>3

\* The mapped queue is a sequence of Pending cells.
LEMMA QueueIsSeq ==
  ASSUME KeyboardTypeOK
  PROVE  /\ Pending \in 0..(N - 1)
         /\ \A i \in 1..Pending : Waiting(i) \in KeyChars \cup {NoChar}
         /\ Unread \in Seq(KeyChars \cup {NoChar}) /\ Len(Unread) = Pending
  <1>1. N \in Nat /\ N > 1
    BY KeyboardAssumption
  <1>2. Pending \in 0..(N - 1)
    BY <1>1 DEF KeyboardTypeOK, Pending
  <1>3. \A i \in 1..Pending : Waiting(i) \in KeyChars \cup {NoChar}
    BY <1>1, <1>2 DEF KeyboardTypeOK, Waiting
  <1> QED BY <1>2, <1>3 DEF Unread

\* What waits in the ring was typed.
Queued == \A i \in 1..Pending : Waiting(i) \in KeyChars

\* A key press that is not dropped appends to the queue.
LEMMA EnqueueAppends ==
  ASSUME KeyboardTypeOK, NEW c \in KeyChars, Enqueue(c)
  PROVE  KeyboardTypeOK' /\ Q!Press(c) /\ (Queued => Queued')
  <1>1. N \in Nat /\ N > 1 /\ keyboard_head \in 0..(N - 1) /\ keyboard_tail \in 0..(N - 1)
    BY KeyboardAssumption DEF KeyboardTypeOK
  <1>2. /\ keyboard_head' = Wrap(keyboard_head + 1) /\ keyboard_head' \in 0..(N - 1)
        /\ keyboard_head' # keyboard_tail /\ UNCHANGED <<keyboard_tail, read>>
        /\ keyboard_buffer' = [keyboard_buffer EXCEPT ![keyboard_head] = c]
    BY <1>1, ModOnce DEF Enqueue
  <1>3. KeyboardTypeOK'
    BY <1>1, <1>2 DEF KeyboardTypeOK
  <1>4. Pending' = Pending + 1 /\ Pending < N - 1
    BY <1>1, <1>2 DEF Pending, Wrap
  <1>5. \A i \in 1..Pending : Waiting(i)' = Waiting(i)
    BY <1>1, <1>2 DEF Pending, Waiting, KeyboardTypeOK
  <1>6. \A i \in Nat : i = Pending + 1 => Waiting(i)' = c
    BY <1>1, <1>2 DEF Pending, Waiting, KeyboardTypeOK
  <1>7. Unread' = Append(Unread, c)
    <2>1. /\ Unread' = [i \in 1..(Pending + 1) |-> Waiting(i)'] /\ Pending \in Nat
          /\ Unread = [i \in 1..Pending |-> Waiting(i)] /\ Len(Unread) = Pending
      BY <1>4, QueueIsSeq DEF Unread
    <2>2. \A i \in 1..(Pending + 1) : i \in 1..Pending \/ i = Pending + 1
      BY <2>1
    <2> DEFINE S == KeyChars \cup {NoChar}
               t == Append(Unread, c)
    <2>3. /\ t \in Seq(S) /\ Len(t) = Pending + 1
          /\ \A i \in 1..Pending : t[i] = Waiting(i)
          /\ t[Pending + 1] = c
      BY <2>1, QueueIsSeq, AppendProperties
    <2>4. Unread' \in Seq(S) /\ Len(Unread') = Pending + 1
      <3>1. Pending + 1 \in Nat /\ \A i \in 1..(Pending + 1) : Waiting(i)' \in S
        BY <1>5, <1>6, <2>1, <2>2, QueueIsSeq
      <3> QED BY <2>1, <3>1
    <2>5. \A i \in 1..(Pending + 1) : Unread'[i] = t[i]
      BY <1>5, <1>6, <2>1, <2>2, <2>3
    <2> HIDE DEF S, t
    <2>6. Unread' = t
      BY <2>3, <2>4, <2>5, SeqEqual
    <2> QED BY <2>6 DEF t
  <1>8. Queued => Queued'
    <2> SUFFICES ASSUME Queued, NEW i \in 1..Pending' PROVE Waiting(i)' \in KeyChars
      BY DEF Queued
    <2>1. Pending \in Nat
      BY QueueIsSeq
    <2>2. i \in 1..Pending \/ (i \in Nat /\ i = Pending + 1)
      BY <1>4, <2>1
    <2> QED BY <1>5, <1>6, <2>2 DEF Queued
  <1>9. Q!Press(c)
    BY <1>2, <1>4, <1>7, QueueIsSeq DEF Q!Press
  <1> QED BY <1>3, <1>8, <1>9

\* A read takes the oldest characters off the queue.
LEMMA ReadTakes ==
  ASSUME KeyboardTypeOK, NEW count \in Nat, StdinRead(count)
  PROVE  /\ KeyboardTypeOK' /\ (Queued => Queued')
         /\ \E k \in 0..Len(Unread) : Q!Take(k)
  <1>1. N \in Nat /\ N > 1 /\ keyboard_head \in 0..(N - 1) /\ keyboard_tail \in 0..(N - 1)
    BY KeyboardAssumption DEF KeyboardTypeOK
  <1> DEFINE k == IF count < Pending THEN count ELSE Pending
  <1>2. k \in 0..Pending /\ Pending \in 0..(N - 1)
    BY QueueIsSeq
  <1>3. /\ keyboard_tail' = Wrap(keyboard_tail + k) /\ keyboard_tail' \in 0..(N - 1)
        /\ read' = [i \in 1..k |-> Waiting(i)]
        /\ UNCHANGED <<keyboard_head, keyboard_buffer>>
    <2>1. /\ keyboard_tail' = (keyboard_tail + k) % N
          /\ read' = [i \in 1..k |-> Waiting(i)]
          /\ UNCHANGED <<keyboard_head, keyboard_buffer>>
      BY DEF StdinRead
    <2> HIDE DEF k
    <2>2. keyboard_tail + k \in Nat /\ keyboard_tail + k < 2 * N
      BY <1>1, <1>2
    <2> QED BY <2>1, <2>2, ModOnce
  <1> HIDE DEF k
  <1>4. KeyboardTypeOK'
    BY <1>1, <1>2, <1>3, QueueIsSeq DEF KeyboardTypeOK
  <1>5. Pending' = Pending - k
    BY <1>1, <1>2, <1>3 DEF Pending, Wrap
  <1>6. \A i \in 1..(Pending - k) : Waiting(i)' = Waiting(k + i)
    BY <1>1, <1>2, <1>3 DEF Waiting, Wrap
  <1>7. read' = SubSeq(Unread, 1, k)
    BY <1>2, <1>3, QueueIsSeq DEF Unread
  <1>8. Unread' = SubSeq(Unread, k + 1, Len(Unread))
    BY <1>2, <1>4, <1>5, <1>6, QueueIsSeq DEF Unread
  <1>9. Queued => Queued'
    <2> SUFFICES ASSUME Queued, NEW i \in 1..Pending' PROVE Waiting(i)' \in KeyChars
      BY DEF Queued
    <2>1. i \in 1..(Pending - k) /\ k + i \in 1..Pending
      BY <1>2, <1>5
    <2> QED BY <1>6, <2>1 DEF Queued
  <1>10. \E j \in 0..Len(Unread) : Q!Take(j)
    BY <1>2, <1>7, <1>8, QueueIsSeq DEF Q!Take
  <1> QED BY <1>4, <1>9, <1>10

\* What the ring holds, through every step of the driver and its readers.
KeyInv == KeyboardTypeOK /\ Queued

LEMMA KeyInit == KeyboardInit => KeyInv /\ Q!Init
  <1> SUFFICES ASSUME KeyboardInit PROVE KeyInv /\ Q!Init
    OBVIOUS
  <1>1. N \in Nat /\ N > 1
    BY KeyboardAssumption
  <1>2. KeyboardTypeOK
    BY <1>1 DEF KeyboardInit, KeyboardTypeOK
  <1>3. Pending = 0 /\ read = <<>>
    BY DEF KeyboardInit, Pending
  <1>4. Queued
    BY <1>3 DEF Queued
  <1>5. Q!Init
    BY <1>2, <1>3, QueueIsSeq DEF Q!Init
  <1> QED BY <1>2, <1>4, <1>5 DEF KeyInv

\* A step of the driver or of a reader is a step of the queue.
LEMMA KeyStep == ASSUME KeyInv, [KeyboardNext]_keyboardVars PROVE KeyInv' /\ [Q!Next]_(Q!vars)
  <1>1. ASSUME NEW s \in Scancodes, KeyboardIRQ(s)
        PROVE  KeyInv' /\ Q!Next
    <2>1. kbd_us[s] \in KeyChars /\ Enqueue(kbd_us[s])
      BY <1>1 DEF KeyboardIRQ, KeyChars
    <2> QED BY <2>1, EnqueueAppends DEF KeyInv, Q!Next
  <1>2. ASSUME NEW count \in Counts, StdinRead(count)
        PROVE  KeyInv' /\ Q!Next
    <2>1. count \in Nat
      BY KeyboardAssumption
    <2> QED BY <1>2, <2>1, ReadTakes DEF KeyInv, Q!Next
  <1>3. CASE UNCHANGED keyboardVars
    BY <1>3 DEF keyboardVars, KeyInv, KeyboardTypeOK, Queued, Q!vars, Unread, Pending, Waiting
  <1> QED BY <1>1, <1>2, <1>3 DEF KeyboardNext

\* Nothing else in the system touches the ring.
LEMMA NextUsesRing == ASSUME [Next]_vars PROVE [KeyboardNext]_keyboardVars
  <1>1. CASE UNCHANGED vars
    BY <1>1 DEF vars
  <1>2. ASSUME Shell PROVE [KeyboardNext]_keyboardVars
    <2>1. CASE Poll
      BY <2>1, ConsoleAssumption DEF Poll, KeyboardNext
    <2>2. CASE ~Poll
      BY <1>2, <2>2 DEF Shell, HandleEnter, HandleBackspace, HandleChar, PromptCwd, PromptSign,
                        CommandReturns, DumpTests
    <2> QED BY <2>1, <2>2
  <1>3. ASSUME NEW out \in Outputs, CommandPrints(out) \/ ProgramWrites(out) PROVE UNCHANGED keyboardVars
    BY <1>3 DEF CommandPrints, ProgramWrites
  <1>4. ASSUME NEW s \in Scancodes, KeyPress(s) PROVE KeyboardNext
    BY <1>4 DEF KeyPress, KeyboardNext
  <1>5. ASSUME NEW count \in Counts, ProgramReads(count) PROVE KeyboardNext
    BY <1>5 DEF ProgramReads, KeyboardNext
  <1>6. ASSUME NEW c \in Wheel, Spin(c) PROVE UNCHANGED keyboardVars
    BY <1>6 DEF Spin
  <1>7. ASSUME NEW c \in Dumped, DumpPuts(c) PROVE UNCHANGED keyboardVars
    BY <1>7 DEF DumpPuts
  <1> QED BY <1>1, <1>2, <1>3, <1>4, <1>5, <1>6, <1>7 DEF Next

\* The ring of the keyboard driver is a bounded FIFO queue to the shell and the programs that
\* read it, for every ring size, keymap and set of read sizes: only a key pressed while the
\* ring is full is lost between the interrupt and stdin_read, none is doubled or reordered.
THEOREM KeyboardIsQueue == Spec => IsQueue
  <1>1. Init => KeyInv /\ Q!Init
    BY KeyInit DEF Init
  <1>2. KeyInv /\ [Next]_vars => KeyInv' /\ [Q!Next]_(Q!vars)
    BY NextUsesRing, KeyStep
  <1> QED BY <1>1, <1>2, PTL DEF Spec, IsQueue, Q!Spec

-----------------------------------------------------------------------------
(* Numbers and recursion *)

\* A nonempty set of natural numbers has a least element.
LEMMA Least ==
  ASSUME NEW S \in SUBSET Nat, S # {}
  PROVE  \E x \in S : \A y \in S : x <= y
  <1>1. PICK s \in S : TRUE
    OBVIOUS
  <1> DEFINE T == {y \in S : y <= s}
             Below(x) == {y \in T : y <= x}
             F == {Below(x) : x \in T}
  <1>2. IsFiniteSet(T)
    <2>1. T \in SUBSET Nat /\ s \in Nat /\ \A t \in T : t <= s
      OBVIOUS
    <2> QED BY <2>1, FS_BoundedSetOfNaturals
  <1>3. F \subseteq FiniteSubsetsOf(T)
    BY <1>2, FS_FiniteSubsetsOfFinite
  <1>4. F # {}
    <2>1. s \in T
      OBVIOUS
    <2>2. Below(s) \in F
      BY <2>1
    <2> HIDE DEF F
    <2> QED BY <2>2
  <1>5. IsWellFoundedOn(StrictSubsetOrdering(T), FiniteSubsetsOf(T))
    BY FS_StrictSubsetOrderingWellFounded
  <1>6. PICK U \in F : \A V \in F : ~(<<V, U>> \in StrictSubsetOrdering(T))
    BY <1>3, <1>4, <1>5, WFMin
  <1>7. PICK x \in T : U = Below(x)
    OBVIOUS
  <1>8. ASSUME NEW y \in T, y < x PROVE FALSE
    <2>1. \A z \in Below(y) : z \in U
      BY <1>7, <1>8
    <2>2. x \in U /\ x \notin Below(y)
      BY <1>7, <1>8
    <2>3. <<Below(y), U>> \in (SUBSET T) \X (SUBSET T)
      BY <1>7
    <2>4. Below(y) \in F
      BY <1>8
    <2> HIDE DEF Below, F
    <2>5. Below(y) \subseteq U /\ Below(y) # U
      BY <2>1, <2>2
    <2>6. <<Below(y), U>> \in StrictSubsetOrdering(T)
      BY <2>3, <2>5 DEF StrictSubsetOrdering
    <2> QED BY <1>6, <2>4, <2>6
  <1>9. x \in S /\ \A y \in S : x <= y
    BY <1>8
  <1> QED BY <1>9

\* h starts at a and takes step k by F[k].
Iterates(h, T, m, a, F) ==
  h \in [0..m -> T] /\ h[0] = a /\ \A k \in 1..m : h[k] = F[k][h[k - 1]]

\* A recursion whose steps stay within a type has a value at every number.
LEMMA Recursion ==
  ASSUME NEW T, NEW m \in Nat, NEW a \in T, NEW F \in [1..m -> [T -> T]]
  PROVE  \E h : Iterates(h, T, m, a, F)
  <1> DEFINE Has(n) == \E h \in [0..n -> T] : h[0] = a /\ \A k \in 1..n : h[k] = F[k][h[k - 1]]
             Bad == {n \in 0..m : ~Has(n)}
  <1>1. ASSUME Bad # {} PROVE FALSE
    <2>1. Bad \in SUBSET Nat
      OBVIOUS
    <2>2. PICK n \in Bad : \A y \in Bad : n <= y
      <3> HIDE DEF Bad
      <3> QED BY <1>1, <2>1, Least
    <2>3. n \in 0..m /\ ~Has(n)
      OBVIOUS
    <2>4. CASE n = 0
      <3>1. PICK h : h = [k \in 0..0 |-> a]
        OBVIOUS
      <3>2. h \in [0..0 -> T] /\ h[0] = a /\ 1..0 = {}
        BY <3>1
      <3>3. Has(0)
        BY <3>2
      <3> QED BY <2>3, <2>4, <3>3
    <2>5. CASE n # 0
      <3>1. n - 1 \in 0..m /\ n \in 1..m /\ ~(n <= n - 1)
        BY <2>3, <2>5
      <3>2. Has(n - 1)
        BY <2>2, <3>1
      <3>3. PICK h \in [0..(n - 1) -> T] : h[0] = a /\ \A k \in 1..(n - 1) : h[k] = F[k][h[k - 1]]
        BY <3>2
      <3>4. PICK g : g = [k \in 0..n |-> IF k = n THEN F[n][h[n - 1]] ELSE h[k]]
        OBVIOUS
      <3>5. \A k \in 0..(n - 1) : g[k] = h[k] /\ h[k] \in T
        BY <3>1, <3>3, <3>4
      <3>6. g[n] = F[n][h[n - 1]] /\ n - 1 \in 0..(n - 1)
        BY <3>1, <3>4
      <3>7. F[n][h[n - 1]] \in T
        BY <3>1, <3>5, <3>6
      <3>8. g \in [0..n -> T]
        <4>1. \A k \in 0..n : g[k] \in T
          <5>1. \A k \in 0..n : k = n \/ k \in 0..(n - 1)
            BY <3>1
          <5> QED BY <3>5, <3>6, <3>7, <5>1
        <4> QED BY <3>4, <4>1
      <3>9. g[0] = a
        BY <3>1, <3>3, <3>5
      <3>10. ASSUME NEW k \in 1..n PROVE g[k] = F[k][g[k - 1]]
        <4>1. k = n \/ k \in 1..(n - 1)
          BY <3>1
        <4>2. k - 1 \in 0..(n - 1)
          BY <3>1
        <4>3. g[k - 1] = h[k - 1]
          BY <3>5, <4>2
        <4>4. CASE k = n
          BY <3>6, <4>3, <4>4
        <4>5. CASE k \in 1..(n - 1)
          <5>1. k \in 0..(n - 1)
            BY <3>1, <4>5
          <5> QED BY <3>3, <3>5, <4>3, <4>5, <5>1
        <4> QED BY <4>1, <4>4, <4>5
      <3>11. Has(n)
        BY <3>8, <3>9, <3>10
      <3> QED BY <2>3, <3>11
    <2> QED BY <2>4, <2>5
  <1>2. m \in 0..m
    OBVIOUS
  <1>3. Has(m)
    BY <1>1, <1>2
  <1> QED BY <1>3 DEF Iterates

\* The recursion has no other value.
LEMMA RecursionOnce ==
  ASSUME NEW h, NEW g, NEW m \in Nat, g[0] = h[0], \A k \in 1..m : g[k - 1] = h[k - 1] => g[k] = h[k]
  PROVE  \A k \in 0..m : g[k] = h[k]
  <1> DEFINE Bad == {k \in 0..m : g[k] # h[k]}
  <1>1. ASSUME Bad # {} PROVE FALSE
    <2>1. Bad \in SUBSET Nat
      OBVIOUS
    <2>2. PICK n \in Bad : \A y \in Bad : n <= y
      <3> HIDE DEF Bad
      <3> QED BY <1>1, <2>1, Least
    <2>3. n \in 0..m /\ g[n] # h[n] /\ n # 0
      OBVIOUS
    <2>4. n - 1 \in 0..m /\ n \in 1..m /\ ~(n <= n - 1)
      BY <2>3
    <2>5. g[n - 1] = h[n - 1]
      BY <2>2, <2>4
    <2> QED BY <2>3, <2>4, <2>5
  <1> QED BY <1>1

-----------------------------------------------------------------------------
(* The screen *)

\* The screens with the cursor on one of the cells, or behind the last one too, and the
\* characters that print themselves.
Screens == [mem : [Cells -> Glyphs], pos : Cells]
Loose == [mem : [Cells -> Glyphs], pos : 0..(Width * Height)]
Plain == Glyphs \ {Enter, Back, Clear}

\* The cells of the screen: a of them, b before the last row.
LEMMA Area ==
  \E a, b \in Nat :
    /\ a = Width * Height /\ b = Width * (Height - 1) /\ a = b + Width /\ Cells = 0..(a - 1)
    /\ Width \in Nat /\ Width > 0 /\ b >= Width
  <1>1. PICK w \in Nat : w = Width /\ w > 0
    BY ConsoleAssumption
  <1>2. PICK h \in Nat : Height = h + 1 /\ h >= 1
    <2>1. Height \in Nat /\ Height >= 2
      BY ConsoleAssumption
    <2>2. Height - 1 \in Nat /\ Height = (Height - 1) + 1 /\ Height - 1 >= 1
      BY <2>1
    <2> QED BY <2>2
  <1>3. PICK b \in Nat : b = w * h
    OBVIOUS
  <1>4. w * (h + 1) = b + w /\ b >= w
    BY <1>1, <1>2, <1>3
  <1>5. Width * Height = b + w /\ Width * (Height - 1) = b
    <2>1. Height - 1 = h
      BY <1>2
    <2> QED BY <1>1, <1>2, <1>3, <1>4, <2>1
  <1>6. PICK a \in Nat : a = b + w
    OBVIOUS
  <1>7. Cells = 0..(a - 1)
    BY <1>5, <1>6 DEF Cells
  <1> QED BY <1>1, <1>4, <1>5, <1>6, <1>7

\* print_char scrolls last.
LEMMA PutIs ==
  ASSUME NEW v, NEW c
  PROVE  PrintChar(v, c) = IF Put(v, c).pos >= Width * Height THEN ScrollScreen(Put(v, c)) ELSE Put(v, c)
  BY DEF PrintChar, Scrolled

\* The control characters are different ones.
LEMMA Controls ==
  /\ Enter # Back /\ Enter # Clear /\ Back # Clear /\ Blank \in Glyphs /\ Chars \subseteq Glyphs
  /\ Enter \in Chars /\ Back \in Chars /\ Clear \notin Chars /\ Wheel \subseteq Glyphs
  BY ConsoleAssumption DEF Enter, Back, Clear

\* Scrolling brings the cursor back to the screen.
LEMMA ScrollType ==
  ASSUME NEW w, w.mem \in [Cells -> Glyphs]
  PROVE  ScrollScreen(w) \in Screens
  <1>1. PICK a \in Nat, b \in Nat :
          b = Width * (Height - 1) /\ a = b + Width /\ Cells = 0..(a - 1) /\ Width \in Nat /\ Width > 0
    BY Area
  <1>2. b \in Cells
    BY <1>1
  <1>3. PICK m : m = [i \in Cells |-> IF i + Width \in Cells THEN w.mem[i + Width] ELSE Blank]
    OBVIOUS
  <1>4. m \in [Cells -> Glyphs]
    BY <1>3, Controls
  <1>5. ScrollScreen(w) = [mem |-> m, pos |-> b]
    BY <1>1, <1>3 DEF ScrollScreen
  <1> QED BY <1>2, <1>4, <1>5 DEF Screens

\* A screen is a loose one.
LEMMA ScreensLoose == Screens \subseteq Loose /\ \A v \in Loose : v \in Screens \/ v.pos = Width * Height
  <1>1. PICK a \in Nat, b \in Nat : a = Width * Height /\ Cells = 0..(a - 1)
    BY Area
  <1>2. Cells \subseteq 0..a /\ \A p \in 0..a : p \in Cells \/ p = a
    BY <1>1
  <1> QED BY <1>1, <1>2 DEF Screens, Loose

\* The cells and the cursor before the test for the end of the screen.
LEMMA PutType ==
  ASSUME NEW v \in Loose, NEW c \in Glyphs
  PROVE  /\ Put(v, c).mem \in [Cells -> Glyphs] /\ Put(v, c).pos \in Nat
         /\ Put(v, c) = [mem |-> Put(v, c).mem, pos |-> Put(v, c).pos]
  <1>1. PICK a \in Nat, b \in Nat :
          a = Width * Height /\ a = b + Width /\ Cells = 0..(a - 1) /\ Width \in Nat /\ Width > 0
    BY Area
  <1>2. v.mem \in [Cells -> Glyphs] /\ v.pos \in Nat /\ v = [mem |-> v.mem, pos |-> v.pos]
    BY <1>1 DEF Loose
  <1>3. PICK w : w = Put(v, c)
    OBVIOUS
  <1>4. w.mem \in [Cells -> Glyphs] /\ w.pos \in Nat /\ w = [mem |-> w.mem, pos |-> w.pos]
    <2>1. CASE c = Enter
      <3>1. PICK q \in Nat : q = (v.pos \div Width + 1) * Width
        <4>1. PICK d \in Nat : d = v.pos \div Width
          BY <1>1, <1>2
        <4>2. (d + 1) * Width \in Nat
          BY <1>1
        <4> QED BY <4>1, <4>2
      <3>2. w = [v EXCEPT !.pos = (@ \div Width + 1) * Width]
        BY <1>3, <2>1, Controls DEF Put
      <3>3. w = [mem |-> v.mem, pos |-> q]
        BY <1>2, <3>1, <3>2
      <3> QED BY <1>2, <3>1, <3>3
    <2>2. CASE c = Back /\ v.pos = 0
      <3>1. w = v
        BY <1>3, <2>2, Controls DEF Put
      <3> QED BY <1>2, <3>1
    <2>3. CASE c = Back /\ v.pos # 0
      <3>1. w = [mem |-> [v.mem EXCEPT ![v.pos - 1] = Blank], pos |-> v.pos - 1]
        BY <1>3, <2>3, Controls DEF Put
      <3>2. PICK i \in Nat : i = v.pos - 1
        BY <1>2, <2>3
      <3>3. [v.mem EXCEPT ![i] = Blank] \in [Cells -> Glyphs]
        BY <1>2, Controls
      <3> QED BY <3>1, <3>2, <3>3
    <2>4. CASE c = Clear
      <3>1. w = [mem |-> [i \in Cells |-> Blank], pos |-> 0]
        BY <1>3, <2>4, Controls DEF Put, ClearScreen
      <3> QED BY <3>1, Controls
    <2>5. CASE c \notin {Enter, Back, Clear}
      <3>1. w = [mem |-> [v.mem EXCEPT ![v.pos] = c], pos |-> v.pos + 1]
        BY <1>3, <2>5 DEF Put
      <3>2. [v.mem EXCEPT ![v.pos] = c] \in [Cells -> Glyphs] /\ v.pos + 1 \in Nat
        <4>1. PICK i \in Nat : i = v.pos
          BY <1>2
        <4>2. [v.mem EXCEPT ![i] = c] \in [Cells -> Glyphs]
          BY <1>2
        <4> QED BY <4>1, <4>2
      <3> QED BY <3>1, <3>2
    <2> QED BY <2>1, <2>2, <2>3, <2>4, <2>5
  <1> QED BY <1>3, <1>4

\* The test brings the cursor back to the screen.
LEMMA ScrolledType ==
  ASSUME NEW w, w.mem \in [Cells -> Glyphs], w.pos \in Nat, w = [mem |-> w.mem, pos |-> w.pos]
  PROVE  Scrolled(w) \in Screens
  <1>1. PICK a \in Nat, b \in Nat : a = Width * Height /\ Cells = 0..(a - 1)
    BY Area
  <1>2. CASE w.pos >= a
    <2>1. Scrolled(w) = ScrollScreen(w)
      BY <1>1, <1>2 DEF Scrolled
    <2> QED BY <2>1, ScrollType
  <1>3. CASE ~(w.pos >= a)
    <2>1. Scrolled(w) = w /\ w.pos \in Cells
      BY <1>1, <1>3 DEF Scrolled
    <2> QED BY <2>1 DEF Screens
  <1> QED BY <1>2, <1>3

\* print_char leaves the cursor on the screen, wherever it finds it.
LEMMA PrintType ==
  ASSUME NEW v \in Loose, NEW c \in Glyphs
  PROVE  PrintChar(v, c) \in Screens
  <1>1. PICK w : w = Put(v, c)
    OBVIOUS
  <1>2. Scrolled(w) \in Screens
    BY <1>1, PutType, ScrolledType
  <1> QED BY <1>1, <1>2 DEF PrintChar

\* heap_dump and task_dump print no control character but the end of a line, and go one
\* cell further at most.
LEMMA PutLoose ==
  ASSUME NEW v \in Screens, NEW c \in Glyphs \ {Back, Clear}
  PROVE  Put(v, c) \in Loose
  <1>1. PICK a \in Nat, b \in Nat : a = Width * Height /\ Cells = 0..(a - 1)
    BY Area
  <1>2. PICK w : w = Put(v, c)
    OBVIOUS
  <1>3. v \in Loose /\ v.pos \in Cells /\ v = [mem |-> v.mem, pos |-> v.pos]
    BY ScreensLoose DEF Screens
  <1>4. w.mem \in [Cells -> Glyphs] /\ w.pos \in Nat /\ w = [mem |-> w.mem, pos |-> w.pos]
    BY <1>2, <1>3, PutType
  <1>5. w.pos <= a
    <2>1. CASE c = Enter
      <3>1. w = [v EXCEPT !.pos = (@ \div Width + 1) * Width]
        BY <1>2, <2>1, Controls DEF Put
      <3>2. w.pos = (v.pos \div Width + 1) * Width
        BY <1>3, <3>1
      <3>3. PICK p \in Nat : p = v.pos /\ p < a
        BY <1>1, <1>3
      <3>4. Width \in Nat /\ Width > 0 /\ Height \in Nat
        BY ConsoleAssumption
      <3>5. PICK d \in Nat : d = p \div Width /\ d * Width <= p
        BY <3>3, <3>4
      <3>6. d < Height
        BY <1>1, <3>3, <3>4, <3>5
      <3>7. (d + 1) * Width <= Width * Height
        BY <3>4, <3>6
      <3> QED BY <1>1, <3>2, <3>3, <3>5, <3>7
    <2>2. CASE c # Enter
      <3>1. w.pos = v.pos + 1
        BY <1>2, <2>2 DEF Put
      <3> QED BY <1>1, <1>3, <3>1
    <2> QED BY <2>1, <2>2
  <1> QED BY <1>1, <1>2, <1>4, <1>5 DEF Loose

\* The m characters before the cursor are the first m of s, as far as they are on the
\* screen and not in the spinner's corner.
Shows(v, s, m) ==
  \A k \in 1..m : LET cell == v.pos - m + k - 1
                  IN cell < 0 \/ cell = Corner \/ v.mem[cell] = s[k]

\* A character that is no control character comes behind them, if need be on a screen that
\* has scrolled.
LEMMA PrintPlain ==
  ASSUME NEW v \in Screens, NEW m \in Nat, NEW s, NEW c \in Plain, s[m + 1] = c, Shows(v, s, m)
  PROVE  Shows(PrintChar(v, c), s, m + 1)
  <1>1. PICK a \in Nat, b \in Nat :
          /\ a = Width * Height /\ b = Width * (Height - 1) /\ a = b + Width /\ Cells = 0..(a - 1)
          /\ Width \in Nat /\ Width > 0
    BY Area
  <1>2. v.mem \in [Cells -> Glyphs] /\ v.pos \in Cells /\ v.pos \in Nat
    BY <1>1 DEF Screens
  <1>3. PICK mem : mem = [v.mem EXCEPT ![v.pos] = c]
    OBVIOUS
  <1>4. PICK p \in Nat : p = v.pos
    BY <1>2
  <1>5. PICK w : w = Put(v, c)
    OBVIOUS
  <1>6. w = [mem |-> mem, pos |-> p + 1]
    BY <1>3, <1>4, <1>5 DEF Put, Plain
  <1>7. w.mem = mem /\ w.pos = p + 1
    BY <1>6
  <1>8. mem[p] = c /\ \A i \in Cells : i # p => mem[i] = v.mem[i]
    BY <1>2, <1>3, <1>4
  <1>9. ASSUME NEW k \in 1..(m + 1), NEW x \in Int, x = p - m + k - 1, x >= 0, x # Corner
        PROVE  x \in Cells /\ mem[x] = s[k]
    <2>1. CASE k = m + 1
      BY <1>2, <1>4, <1>8, <1>9, <2>1
    <2>2. CASE k # m + 1
      <3>1. k \in 1..m /\ x < p
        BY <1>9, <2>2
      <3>2. x \in Cells
        BY <1>1, <1>2, <1>4, <1>9, <3>1
      <3>3. v.mem[x] = s[k]
        BY <1>4, <1>9, <3>1 DEF Shows
      <3> QED BY <1>8, <3>1, <3>2, <3>3
    <2> QED BY <2>1, <2>2
  <1>10. CASE ~(p + 1 >= a)
    <2>1. PrintChar(v, c) = w
      BY <1>1, <1>5, <1>7, <1>10, PutIs
    <2>2. ASSUME NEW k \in 1..(m + 1), NEW x \in Int, x = (p + 1) - (m + 1) + k - 1
          PROVE  x < 0 \/ x = Corner \/ mem[x] = s[k]
      <3>1. x = p - m + k - 1
        BY <2>2
      <3> QED BY <1>9, <3>1
    <2>3. \A k \in 1..(m + 1) : (p + 1) - (m + 1) + k - 1 \in Int
      OBVIOUS
    <2> QED BY <1>7, <2>1, <2>2, <2>3 DEF Shows
  <1>11. CASE p + 1 >= a
    <2>1. PrintChar(v, c) = ScrollScreen(w)
      BY <1>1, <1>5, <1>7, <1>11, PutIs
    <2>2. PICK n : n = [i \in Cells |-> IF i + Width \in Cells THEN mem[i + Width] ELSE Blank]
      OBVIOUS
    <2>3. ScrollScreen(w).mem = n /\ ScrollScreen(w).pos = b
      BY <1>1, <1>7, <2>2 DEF ScrollScreen
    <2>4. p + 1 = b + Width /\ Width \in Nat
      BY <1>1, <1>2, <1>4, <1>11
    <2>5. ASSUME NEW k \in 1..(m + 1), NEW x \in Int, x = b - (m + 1) + k - 1
          PROVE  x < 0 \/ x = Corner \/ n[x] = s[k]
      <3> SUFFICES ASSUME x >= 0 PROVE n[x] = s[k]
        OBVIOUS
      <3>1. PICK y \in Int : y = x + Width
        BY <1>1
      <3>2. y = p - m + k - 1 /\ y >= Width
        BY <2>4, <2>5, <3>1
      <3>3. y >= 0 /\ y # Corner
        BY <2>4, <3>2 DEF Corner
      <3>4. y \in Cells /\ mem[y] = s[k]
        BY <1>9, <3>2, <3>3
      <3>5. x \in Cells
        BY <1>1, <3>1, <3>4
      <3> QED BY <2>2, <3>1, <3>4, <3>5
    <2>6. \A k \in 1..(m + 1) : b - (m + 1) + k - 1 \in Int
      BY <1>1
    <2> QED BY <2>1, <2>3, <2>5, <2>6 DEF Shows
  <1> QED BY <1>10, <1>11

\* A backspace takes the last of them away, also over the edge of a row and at the first
\* cell, when all of them have scrolled off.
LEMMA PrintBack ==
  ASSUME NEW v \in Screens, NEW m \in Nat, m > 0, NEW s, Shows(v, s, m)
  PROVE  Shows(PrintChar(v, Back), s, m - 1)
  <1>1. PICK a \in Nat, b \in Nat : a = Width * Height /\ Cells = 0..(a - 1)
    BY Area
  <1>2. v.mem \in [Cells -> Glyphs] /\ v.pos \in Cells /\ v.pos \in Nat /\ v.pos < a
    BY <1>1 DEF Screens
  <1>3. PICK p \in Nat : p = v.pos
    BY <1>2
  <1>4. PICK w : w = Put(v, Back)
    OBVIOUS
  <1>5. CASE p = 0
    <2>1. w = v
      BY <1>3, <1>4, <1>5, Controls DEF Put
    <2>2. PrintChar(v, Back) = v
      <3>1. ~(w.pos >= Width * Height)
        BY <1>1, <1>2, <2>1
      <3> QED BY <1>4, <2>1, <3>1, PutIs
    <2>3. \A k \in 1..(m - 1) : 0 - (m - 1) + k - 1 < 0
      OBVIOUS
    <2> QED BY <1>3, <1>5, <2>2, <2>3 DEF Shows
  <1>6. CASE p # 0
    <2>1. PICK mem : mem = [v.mem EXCEPT ![p - 1] = Blank]
      OBVIOUS
    <2>2. w = [mem |-> mem, pos |-> p - 1]
      BY <1>3, <1>4, <1>6, <2>1, Controls DEF Put
    <2>3. w.mem = mem /\ w.pos = p - 1 /\ ~(p - 1 >= a)
      BY <1>1, <1>2, <1>3, <2>2
    <2>4. PrintChar(v, Back) = w
      BY <1>1, <1>4, <2>3, PutIs
    <2>5. ASSUME NEW k \in 1..(m - 1), NEW x \in Int, x = (p - 1) - (m - 1) + k - 1
          PROVE  x < 0 \/ x = Corner \/ mem[x] = s[k]
      <3> SUFFICES ASSUME x >= 0, x # Corner PROVE mem[x] = s[k]
        OBVIOUS
      <3>1. k \in 1..m /\ x = p - m + k - 1 /\ x < p - 1 /\ x \in Cells
        BY <1>1, <1>2, <1>3, <2>5
      <3>2. v.mem[x] = s[k]
        BY <1>3, <3>1 DEF Shows
      <3> QED BY <1>2, <2>1, <3>1, <3>2
    <2>6. \A k \in 1..(m - 1) : (p - 1) - (m - 1) + k - 1 \in Int
      OBVIOUS
    <2> QED BY <2>3, <2>4, <2>5, <2>6 DEF Shows
  <1> QED BY <1>5, <1>6

\* The steps of Printed.
IsPrinting(v, s, m) == v = [k \in 0..m |-> IF k = 0 THEN vga ELSE PrintChar(v[k - 1], s[k])]

\* h are the screens while m characters of s are printed.
Prints(h, T, s, m) ==
  /\ h \in [0..m -> T] /\ h[0] = vga
  /\ \A k \in 1..m : h[k] = PrintChar(h[k - 1], s[k])

\* stdout_write prints character by character.
LEMMA PrintedIs ==
  ASSUME NEW T \in {Screens, Loose}, vga \in T, NEW s \in Seq(Glyphs)
  PROVE  \E h : Prints(h, T, s, Len(s)) /\ Printed(s) = h[Len(s)]
  <1>1. PICK m \in Nat : m = Len(s)
    OBVIOUS
  <1>2. \A k \in 1..m : s[k] \in Glyphs
    BY <1>1
  <1>3. PICK F : F = [k \in 1..m |-> [v \in T |-> PrintChar(v, s[k])]]
    OBVIOUS
  <1>4. F \in [1..m -> [T -> T]]
    BY <1>2, <1>3, PrintType, ScreensLoose
  <1>5. PICK h : Iterates(h, T, m, vga, F)
    <2>1. PICK a \in T : a = vga
      OBVIOUS
    <2>2. \E h : Iterates(h, T, m, a, F)
      BY <1>4, Recursion
    <2> QED BY <2>1, <2>2
  <1>6. h \in [0..m -> T] /\ h[0] = vga /\ \A k \in 1..m : h[k] = F[k][h[k - 1]]
    BY <1>5 DEF Iterates
  <1>7. ASSUME NEW k \in 1..m PROVE h[k] = PrintChar(h[k - 1], s[k])
    <2>1. k - 1 \in 0..m
      OBVIOUS
    <2>2. h[k - 1] \in T
      BY <1>6, <2>1
    <2> QED BY <1>3, <1>6, <2>2
  <1>8. IsPrinting(h, s, m)
    <2>1. \A k \in 0..m : h[k] = IF k = 0 THEN vga ELSE PrintChar(h[k - 1], s[k])
      <3>1. \A k \in 0..m : k = 0 \/ k \in 1..m
        OBVIOUS
      <3>2. \A k \in 1..m : k # 0
        OBVIOUS
      <3> QED BY <1>6, <1>7, <3>1, <3>2
    <2>2. h = [k \in 0..m |-> h[k]]
      BY <1>6
    <2> QED BY <2>1, <2>2, Zenon DEF IsPrinting
  <1>9. PICK g : g = CHOOSE v : IsPrinting(v, s, m)
    OBVIOUS
  <1>10. IsPrinting(g, s, m)
    BY <1>8, <1>9
  <1>11. Printed(s) = g[m]
    BY <1>1, <1>9 DEF Printed, IsPrinting
  <1>12. \A k \in 0..m : g[k] = IF k = 0 THEN vga ELSE PrintChar(g[k - 1], s[k])
    BY <1>10 DEF IsPrinting
  <1>13. g[0] = h[0]
    BY <1>6, <1>12
  <1>14. \A k \in 1..m : g[k - 1] = h[k - 1] => g[k] = h[k]
    <2>1. \A k \in 1..m : k \in 0..m /\ k # 0
      OBVIOUS
    <2> QED BY <1>7, <1>12, <2>1
  <1>15. \A k \in 0..m : g[k] = h[k]
    BY <1>13, <1>14, RecursionOnce
  <1>16. Prints(h, T, s, m) /\ Printed(s) = h[m]
    BY <1>6, <1>7, <1>11, <1>15 DEF Prints
  <1> QED BY <1>1, <1>16

\* Whatever is printed, the cursor stays on the screen, or goes no further from it.
LEMMA PrintedType ==
  ASSUME NEW T \in {Screens, Loose}, vga \in T, NEW s \in Seq(Glyphs) PROVE Printed(s) \in T
  <1>1. PICK h : Prints(h, T, s, Len(s)) /\ Printed(s) = h[Len(s)]
    BY PrintedIs
  <1>2. PICK m \in Nat : m = Len(s)
    OBVIOUS
  <1> QED BY <1>1, <1>2 DEF Prints

\* A single character.
LEMMA PrintedOne ==
  ASSUME vga \in Screens, NEW c \in Glyphs PROVE Printed(<<c>>) = PrintChar(vga, c)
  <1>1. PICK s : s = <<c>>
    OBVIOUS
  <1>2. s \in Seq(Glyphs) /\ Len(s) = 1 /\ s[1] = c
    BY <1>1
  <1>3. PICK h : Prints(h, Screens, s, 1) /\ Printed(s) = h[1]
    BY <1>2, PrintedIs
  <1>4. 1 \in 1..1 /\ 1 - 1 = 0
    OBVIOUS
  <1>5. h[1] = PrintChar(h[0], s[1]) /\ h[0] = vga
    BY <1>3, <1>4 DEF Prints
  <1> QED BY <1>1, <1>2, <1>3, <1>5

\* A text t without control characters comes behind what was shown.
LEMMA PrintedShows ==
  ASSUME vga \in Screens, NEW t \in Seq(Plain), NEW a \in Nat, NEW s,
         \A k \in 1..Len(t) : s[a + k] = t[k], Shows(vga, s, a)
  PROVE  Shows(Printed(t), s, a + Len(t))
  <1>1. PICK m \in Nat : m = Len(t)
    OBVIOUS
  <1>2. \A k \in 1..m : t[k] \in Plain /\ s[a + k] = t[k]
    BY <1>1
  <1>3. t \in Seq(Glyphs)
    BY DEF Plain
  <1>4. PICK h : Prints(h, Screens, t, m) /\ Printed(t) = h[m]
    BY <1>1, <1>3, PrintedIs
  <1>5. /\ h \in [0..m -> Screens] /\ h[0] = vga
        /\ \A k \in 1..m : h[k] = PrintChar(h[k - 1], t[k])
    BY <1>4 DEF Prints
  <1> DEFINE Bad == {k \in 0..m : ~Shows(h[k], s, a + k)}
  <1>6. ASSUME Bad # {} PROVE FALSE
    <2>1. Bad \in SUBSET Nat
      OBVIOUS
    <2>2. PICK k \in Bad : \A y \in Bad : k <= y
      <3> HIDE DEF Bad
      <3> QED BY <1>6, <2>1, Least
    <2>3. k \in 0..m /\ ~Shows(h[k], s, a + k)
      OBVIOUS
    <2>4. k # 0
      <3>1. Shows(h[0], s, a + 0)
        BY <1>5
      <3> QED BY <2>3, <3>1
    <2>5. k - 1 \in 0..m /\ k \in 1..m /\ ~(k <= k - 1)
      BY <2>3, <2>4
    <2>6. Shows(h[k - 1], s, a + (k - 1))
      BY <2>2, <2>5
    <2>7. PICK n \in Nat : n = a + (k - 1)
      BY <2>5
    <2>8. n + 1 = a + k
      BY <2>5, <2>7
    <2>9. PICK c \in Plain : c = t[k]
      BY <1>2, <2>5
    <2>10. s[n + 1] = c /\ h[k - 1] \in Screens /\ h[k] = PrintChar(h[k - 1], c)
      BY <1>2, <1>5, <2>5, <2>8, <2>9
    <2>11. Shows(h[k], s, n + 1)
      BY <2>6, <2>7, <2>10, PrintPlain
    <2> QED BY <2>3, <2>8, <2>11
  <1>7. m \in 0..m
    OBVIOUS
  <1>8. Shows(h[m], s, a + m)
    BY <1>6, <1>7
  <1> QED BY <1>1, <1>4, <1>8

-----------------------------------------------------------------------------
(* The line *)

\* What the line editor stores, and the whole line with its prompt.
Letters == Chars \ {Enter, Back}
Line(s) == Cwd \o Sign \o s

\* Type correctness.
Types ==
  /\ vga \in Screens \/ (pc = "test" /\ vga \in Loose)
  /\ input_buffer \in Seq(Letters) /\ Len(input_buffer) <= LineMax
  /\ pc \in {"cwd", "sign", "poll", "key", "run", "test"} /\ key \in Chars
  /\ alone \in BOOLEAN /\ taken \in BOOLEAN

\* The prompt appears in two calls, the line behind it.
Visible ==
  /\ pc \in {"cwd", "sign"} => input_buffer = <<>>
  /\ alone /\ pc = "sign" => Shows(vga, Cwd, Len(Cwd))
  /\ alone /\ pc \in {"poll", "key"} => Shows(vga, Line(input_buffer), Len(Line(input_buffer)))

\* The inductive invariant.
ScreenInv == Types /\ Visible

\* The prompt.
LEMMA PromptIs ==
  /\ Cwd \in Seq(Plain) /\ Sign \in Seq(Plain) /\ Cwd \o Sign \in Seq(Plain)
  /\ Len(Cwd \o Sign) = Len(Cwd) + Len(Sign)
  /\ \A k \in 1..Len(Cwd) : (Cwd \o Sign)[k] = Cwd[k]
  /\ \A k \in 1..Len(Sign) : (Cwd \o Sign)[Len(Cwd) + k] = Sign[k]
  <1>1. Cwd \in Seq(Plain) /\ Sign \in Seq(Plain)
    BY ConsoleAssumption DEF Plain
  <1> QED BY <1>1, ConcatProperties

\* The prompt and the line.
LEMMA LineIs ==
  ASSUME NEW s \in Seq(Letters)
  PROVE  /\ Len(Line(s)) = Len(Cwd \o Sign) + Len(s) /\ Len(Cwd \o Sign) \in Nat
         /\ \A k \in 1..Len(Cwd \o Sign) : Line(s)[k] = (Cwd \o Sign)[k]
         /\ \A k \in 1..Len(s) : Line(s)[Len(Cwd \o Sign) + k] = s[k]
  <1>1. PICK S : S = Plain \cup Letters
    OBVIOUS
  <1>2. PICK b \in Seq(S) : b = Cwd \o Sign
    <2>1. PICK b \in Seq(Plain) : b = Cwd \o Sign
      BY PromptIs
    <2>2. b \in Seq(S)
      BY <1>1
    <2> QED BY <2>1, <2>2
  <1>3. s \in Seq(S)
    BY <1>1
  <1>4. /\ b \o s \in Seq(S) /\ Len(b \o s) = Len(b) + Len(s) /\ Len(b) \in Nat
        /\ \A k \in 1..Len(b) : (b \o s)[k] = b[k]
        /\ \A k \in 1..Len(s) : (b \o s)[Len(b) + k] = s[k]
    BY <1>3, ConcatProperties
  <1> QED BY <1>2, <1>4 DEF Line

\* Two lines that begin alike.
LEMMA LinesAgree ==
  ASSUME NEW s \in Seq(Letters), NEW t \in Seq(Letters), Len(s) <= Len(t), \A k \in 1..Len(s) : s[k] = t[k]
  PROVE  \A k \in 1..Len(Line(s)) : Line(s)[k] = Line(t)[k]
  <1>1. PICK b \in Nat : b = Len(Cwd \o Sign)
    BY LineIs
  <1>2. PICK m \in Nat : m = Len(s)
    OBVIOUS
  <1>3. PICK n \in Nat : n = Len(t) /\ m <= n
    BY <1>2
  <1>4. PICK x : x = Line(s)
    OBVIOUS
  <1>5. PICK y : y = Line(t)
    OBVIOUS
  <1>6. PICK p : p = Cwd \o Sign
    OBVIOUS
  <1>7. Len(x) = b + m /\ (\A k \in 1..b : x[k] = p[k]) /\ \A k \in 1..m : x[b + k] = s[k]
    BY <1>1, <1>2, <1>4, <1>6, LineIs
  <1>8. (\A k \in 1..b : y[k] = p[k]) /\ \A k \in 1..n : y[b + k] = t[k]
    BY <1>1, <1>3, <1>5, <1>6, LineIs
  <1>9. \A k \in 1..m : s[k] = t[k]
    BY <1>2
  <1>10. ASSUME NEW k \in 1..(b + m) PROVE x[k] = y[k]
    <2>1. CASE k <= b
      <3>1. k \in 1..b
        BY <2>1
      <3> QED BY <1>7, <1>8, <3>1
    <2>2. CASE ~(k <= b)
      <3>1. PICK j \in 1..m : j = k - b
        BY <2>2
      <3>2. k = b + j /\ j \in 1..n
        BY <1>3, <3>1
      <3> QED BY <1>7, <1>8, <1>9, <3>2
    <2> QED BY <2>1, <2>2
  <1> QED BY <1>4, <1>5, <1>7, <1>10

\* What is shown of a text is shown of a text that begins alike.
LEMMA ShowsAlike ==
  ASSUME NEW v, NEW m \in Nat, NEW s, NEW t, \A k \in 1..m : s[k] = t[k], Shows(v, s, m)
  PROVE  Shows(v, t, m)
  BY DEF Shows

\* One more character.
LEMMA Longer ==
  ASSUME NEW s \in Seq(Letters), NEW c \in Letters
  PROVE  /\ Append(s, c) \in Seq(Letters) /\ Len(Append(s, c)) = Len(s) + 1
         /\ Len(Line(s)) \in Nat /\ Len(Line(Append(s, c))) = Len(Line(s)) + 1
         /\ \A k \in 1..Len(Line(s)) : Line(s)[k] = Line(Append(s, c))[k]
         /\ Line(Append(s, c))[Len(Line(s)) + 1] = c
  <1>1. PICK t : t = Append(s, c)
    OBVIOUS
  <1>2. PICK m \in Nat : m = Len(s)
    OBVIOUS
  <1>3. t \in Seq(Letters) /\ Len(t) = m + 1 /\ (\A k \in 1..m : t[k] = s[k]) /\ t[m + 1] = c
    BY <1>1, <1>2, AppendProperties
  <1>4. \A k \in 1..Len(Line(s)) : Line(s)[k] = Line(t)[k]
    <2>1. Len(s) <= Len(t) /\ \A k \in 1..Len(s) : s[k] = t[k]
      BY <1>2, <1>3
    <2> QED BY <1>3, <2>1, LinesAgree
  <1>5. PICK b \in Nat : b = Len(Cwd \o Sign)
    BY LineIs
  <1>6. Len(Line(s)) = b + m
    BY <1>2, <1>5, LineIs
  <1>7. Len(Line(t)) = b + (m + 1) /\ \A k \in 1..(m + 1) : Line(t)[b + k] = t[k]
    BY <1>3, <1>5, LineIs
  <1>8. Line(t)[b + (m + 1)] = c
    <2>1. m + 1 \in 1..(m + 1)
      OBVIOUS
    <2> QED BY <1>3, <1>7, <2>1
  <1>9. b + (m + 1) = (b + m) + 1
    OBVIOUS
  <1> QED BY <1>1, <1>2, <1>3, <1>4, <1>6, <1>7, <1>8, <1>9

\* One character less.
LEMMA Shorter ==
  ASSUME NEW s \in Seq(Letters), s # <<>>
  PROVE  /\ Front(s) \in Seq(Letters) /\ Len(Front(s)) = Len(s) - 1
         /\ Len(Line(s)) \in Nat /\ Len(Line(s)) > 0 /\ Len(Line(Front(s))) = Len(Line(s)) - 1
         /\ \A k \in 1..Len(Line(Front(s))) : Line(Front(s))[k] = Line(s)[k]
  <1>1. PICK t : t = Front(s)
    OBVIOUS
  <1>2. PICK m \in Nat : m = Len(s) /\ m > 0
    BY EmptySeq
  <1>3. t = SubSeq(s, 1, m - 1)
    BY <1>1, <1>2 DEF Front
  <1>4. t \in Seq(Letters) /\ Len(t) = m - 1 /\ \A k \in 1..(m - 1) : t[k] = s[k]
    BY <1>2, <1>3
  <1>5. \A k \in 1..Len(Line(t)) : Line(t)[k] = Line(s)[k]
    <2>1. Len(t) <= Len(s) /\ \A k \in 1..Len(t) : t[k] = s[k]
      BY <1>2, <1>4
    <2> QED BY <1>4, <2>1, LinesAgree
  <1>6. PICK b \in Nat : b = Len(Cwd \o Sign)
    BY LineIs
  <1>7. Len(Line(s)) = b + m
    BY <1>2, <1>6, LineIs
  <1>8. Len(Line(t)) = b + (m - 1)
    BY <1>4, <1>6, LineIs
  <1> QED BY <1>1, <1>2, <1>4, <1>5, <1>7, <1>8

-----------------------------------------------------------------------------
(* The steps *)

\* Boot.
LEMMA ScreenInit == Init => ScreenInv
  <1> SUFFICES ASSUME Init PROVE ScreenInv
    OBVIOUS
  <1>1. /\ vga = ClearScreen /\ input_buffer = <<>> /\ pc = "cwd" /\ key = Enter
        /\ alone = TRUE /\ taken = FALSE
    BY DEF Init
  <1>2. vga \in Screens
    <2>1. PICK a \in Nat, b \in Nat : a = b + Width /\ Cells = 0..(a - 1) /\ Width \in Nat /\ Width > 0
      BY Area
    <2>2. 0 \in Cells
      BY <2>1
    <2> QED BY <1>1, <2>2, Controls DEF ClearScreen, Screens
  <1>3. <<>> \in Seq(Letters) /\ Len(<<>>) = 0
    BY EmptySeq
  <1>4. LineMax \in Nat
    BY ConsoleAssumption
  <1>5. Types
    <2>1. input_buffer \in Seq(Letters)
      BY <1>1, <1>3
    <2>2. Len(input_buffer) <= LineMax
      <3>1. Len(input_buffer) = 0
        BY <1>1, <1>3
      <3> QED BY <3>1, <1>4
    <2>3. pc \in {"cwd", "sign", "poll", "key", "run", "test"}
      BY <1>1
    <2>4. key \in Chars
      BY <1>1, Controls
    <2>5. alone \in BOOLEAN /\ taken \in BOOLEAN
      BY <1>1
    <2> QED BY <1>2, <2>1, <2>2, <2>3, <2>4, <2>5 DEF Types
  <1>6. Visible
    BY <1>1 DEF Visible
  <1> QED BY <1>5, <1>6 DEF ScreenInv

\* The shell reads a key.
LEMMA PollKeepsInv == ASSUME ScreenInv, KeyInv, Poll PROVE ScreenInv'
  <1>1. Types /\ Visible
    BY DEF ScreenInv
  <1>2. /\ pc = "poll" /\ Pending > 0 /\ key' = Waiting(1) /\ pc' = "key"
        /\ UNCHANGED <<vga, input_buffer, alone, taken>>
    BY DEF Poll
  <1>3. key' \in Chars
    <2>1. Pending \in Nat
      BY QueueIsSeq DEF KeyInv
    <2>2. 1 \in 1..Pending
      BY <1>2, <2>1
    <2> QED BY <1>2, <2>2 DEF KeyInv, Queued, Chars
  <1>4. Types'
    BY <1>1, <1>2, <1>3 DEF Types
  <1>5. Visible'
    BY <1>1, <1>2 DEF Visible
  <1> QED BY <1>4, <1>5 DEF ScreenInv

\* The line is ended.
LEMMA EnterKeepsInv == ASSUME ScreenInv, HandleEnter PROVE ScreenInv'
  <1>1. Types /\ Visible
    BY DEF ScreenInv
  <1>2. pc = "key" /\ vga' = Printed(<<Enter>>) /\ pc' = "run" /\ UNCHANGED <<keyboardVars, input_buffer, key, alone, taken>>
    BY DEF HandleEnter
  <1>3. vga' \in Screens
    <2>1. vga \in Screens /\ vga \in Loose
      BY <1>1, <1>2, ScreensLoose DEF Types
    <2> QED BY <1>2, <2>1, Controls, PrintedOne, PrintType
  <1>4. Types'
    BY <1>1, <1>2, <1>3 DEF Types
  <1>5. Visible'
    BY <1>2 DEF Visible
  <1> QED BY <1>4, <1>5 DEF ScreenInv

\* A backspace takes the last character from the buffer and from the screen.
LEMMA BackspaceKeepsInv == ASSUME ScreenInv, HandleBackspace PROVE ScreenInv'
  <1>1. Types /\ Visible
    BY DEF ScreenInv
  <1>2. pc = "key" /\ pc' = "poll" /\ UNCHANGED <<keyboardVars, key, alone, taken>>
    BY DEF HandleBackspace
  <1>3. CASE input_buffer = <<>>
    <2>1. UNCHANGED <<input_buffer, vga>>
      BY <1>3 DEF HandleBackspace
    <2>2. Types'
      BY <1>1, <1>2, <2>1 DEF Types
    <2>3. Visible'
      BY <1>1, <1>2, <2>1 DEF Visible
    <2> QED BY <2>2, <2>3 DEF ScreenInv
  <1>4. CASE input_buffer # <<>>
    <2>1. input_buffer' = Front(input_buffer) /\ vga' = Printed(<<Back>>)
      BY <1>4 DEF HandleBackspace
    <2>2. vga' = PrintChar(vga, Back) /\ vga' \in Screens
      <3>1. vga \in Screens /\ vga \in Loose
        BY <1>1, <1>2, ScreensLoose DEF Types
      <3> QED BY <2>1, <3>1, Controls, PrintedOne, PrintType
    <2>3. PICK s \in Seq(Letters) : s = input_buffer
      BY <1>1 DEF Types
    <2>4. PICK t : t = Front(s)
      OBVIOUS
    <2>5. /\ t \in Seq(Letters) /\ Len(t) = Len(s) - 1
          /\ Len(Line(s)) \in Nat /\ Len(Line(s)) > 0 /\ Len(Line(t)) = Len(Line(s)) - 1
          /\ \A k \in 1..Len(Line(t)) : Line(t)[k] = Line(s)[k]
      BY <1>4, <2>3, <2>4, Shorter
    <2>6. Types'
      <3>1. Len(t) <= LineMax
        <4>1. Len(s) \in Nat /\ Len(s) <= LineMax /\ LineMax \in Nat
          BY <1>1, <2>3, ConsoleAssumption DEF Types
        <4> QED BY <2>5, <4>1
      <3> QED BY <1>1, <1>2, <2>1, <2>2, <2>3, <2>4, <2>5, <3>1 DEF Types
    <2>7. ASSUME alone PROVE Shows(vga', Line(t), Len(Line(t)))
      <3>1. PICK x : x = Line(s)
        OBVIOUS
      <3>2. PICK y : y = Line(t)
        OBVIOUS
      <3>3. PICK m \in Nat : m = Len(x) /\ m > 0 /\ m - 1 = Len(y)
        BY <2>5, <3>1, <3>2
      <3>4. Shows(vga, x, m)
        <4>1. Visible /\ pc = "key"
          BY <1>1, <1>2
        <4> QED BY <2>3, <2>7, <3>1, <3>3, <4>1 DEF Visible
      <3>5. Shows(vga', x, m - 1)
        <4>1. vga \in Screens
          BY <1>1, <1>2 DEF Types
        <4> QED BY <2>2, <3>3, <3>4, <4>1, PrintBack
      <3>6. m - 1 \in Nat /\ \A k \in 1..(m - 1) : x[k] = y[k]
        BY <2>5, <3>1, <3>2, <3>3
      <3>7. Shows(vga', y, m - 1)
        BY <3>5, <3>6, ShowsAlike
      <3> QED BY <3>2, <3>3, <3>7
    <2>8. Visible'
      BY <1>2, <2>1, <2>3, <2>4, <2>7 DEF Visible
    <2> QED BY <2>6, <2>8 DEF ScreenInv
  <1> QED BY <1>3, <1>4

\* A character goes to the end of the buffer and of the line on the screen, or nowhere.
LEMMA CharKeepsInv == ASSUME ScreenInv, HandleChar PROVE ScreenInv'
  <1>1. Types /\ Visible
    BY DEF ScreenInv
  <1>2. pc = "key" /\ key \notin {Enter, Back} /\ pc' = "poll" /\ UNCHANGED <<keyboardVars, key, alone, taken>>
    BY DEF HandleChar
  <1>3. PICK m \in Nat : m = Len(input_buffer)
    BY <1>1 DEF Types
  <1>4. LineMax \in Nat
    BY ConsoleAssumption
  <1>5. CASE ~(m < LineMax)
    <2>1. UNCHANGED <<input_buffer, vga>>
      BY <1>3, <1>5 DEF HandleChar
    <2>2. Types'
      BY <1>1, <1>2, <2>1 DEF Types
    <2>3. Visible'
      BY <1>1, <1>2, <2>1 DEF Visible
    <2> QED BY <2>2, <2>3 DEF ScreenInv
  <1>6. CASE m < LineMax
    <2>1. input_buffer' = Append(input_buffer, key) /\ vga' = Printed(<<key>>)
      BY <1>3, <1>6 DEF HandleChar
    <2>2. PICK c \in Letters : c = key
      BY <1>1, <1>2 DEF Types, Letters
    <2>3. c \in Plain /\ c \in Glyphs
      BY <2>2, Controls DEF Letters, Plain
    <2>4. vga' = PrintChar(vga, c) /\ vga' \in Screens
      <3>1. vga \in Screens /\ vga \in Loose
        BY <1>1, <1>2, ScreensLoose DEF Types
      <3> QED BY <2>1, <2>2, <2>3, <3>1, PrintedOne, PrintType
    <2>5. PICK s \in Seq(Letters) : s = input_buffer
      BY <1>1 DEF Types
    <2>6. PICK t : t = Append(s, c)
      OBVIOUS
    <2>7. /\ t \in Seq(Letters) /\ Len(t) = Len(s) + 1
          /\ Len(Line(s)) \in Nat /\ Len(Line(t)) = Len(Line(s)) + 1
          /\ (\A k \in 1..Len(Line(s)) : Line(s)[k] = Line(t)[k]) /\ Line(t)[Len(Line(s)) + 1] = c
      BY <2>6, Longer
    <2>8. Types'
      <3>1. Len(t) <= LineMax
        BY <1>3, <1>4, <1>6, <2>5, <2>7
      <3> QED BY <1>1, <1>2, <2>1, <2>2, <2>4, <2>5, <2>6, <2>7, <3>1 DEF Types
    <2>9. ASSUME alone PROVE Shows(vga', Line(t), Len(Line(t)))
      <3>1. PICK x : x = Line(s)
        OBVIOUS
      <3>2. PICK y : y = Line(t)
        OBVIOUS
      <3>3. PICK n \in Nat : n = Len(x) /\ n + 1 = Len(y)
        <4>1. Len(x) \in Nat /\ Len(y) = Len(x) + 1
          <5>1. Len(Line(s)) \in Nat /\ Len(Line(t)) = Len(Line(s)) + 1
            BY <2>7
          <5> QED BY <3>1, <3>2, <5>1
        <4>2. PICK n : n = Len(x)
          BY Zenon
        <4> QED BY <4>1, <4>2
      <3>4. Shows(vga, x, n)
        <4>1. Visible /\ pc = "key"
          BY <1>1, <1>2
        <4> QED BY <2>5, <2>9, <3>1, <3>3, <4>1 DEF Visible
      <3>5. y[n + 1] = c /\ \A k \in 1..n : x[k] = y[k]
        BY <2>7, <3>1, <3>2, <3>3
      <3>6. Shows(vga, y, n)
        BY <3>4, <3>5, ShowsAlike
      <3>7. Shows(vga', y, n + 1)
        <4>1. vga \in Screens
          BY <1>1, <1>2 DEF Types
        <4> QED BY <2>3, <2>4, <3>5, <3>6, <4>1, PrintPlain
      <3> QED BY <3>2, <3>3, <3>7
    <2>10. Visible'
      BY <1>2, <2>1, <2>2, <2>5, <2>6, <2>9 DEF Visible
    <2> QED BY <2>8, <2>10 DEF ScreenInv
  <1> QED BY <1>5, <1>6

\* A command prints what it will.
LEMMA CommandKeepsInv == ASSUME ScreenInv, NEW out \in Outputs, CommandPrints(out) PROVE ScreenInv'
  <1>1. Types /\ Visible /\ out \in Seq(Glyphs)
    BY ConsoleAssumption DEF ScreenInv
  <1>2. pc = "run" /\ vga' = Printed(out) /\ UNCHANGED <<keyboardVars, input_buffer, pc, key, alone, taken>>
    BY DEF CommandPrints
  <1>3. vga' \in Screens
    BY <1>1, <1>2, PrintedType DEF Types
  <1>4. Types'
    BY <1>1, <1>2, <1>3 DEF Types
  <1>5. Visible'
    BY <1>2 DEF Visible
  <1> QED BY <1>4, <1>5 DEF ScreenInv

\* heap or ps prints a character; the cursor may have left the screen.
LEMMA DumpPutsKeepsInv == ASSUME ScreenInv, NEW c \in Dumped, DumpPuts(c) PROVE ScreenInv'
  <1>1. Types /\ Visible /\ c \in Glyphs \ {Back, Clear}
    BY ConsoleAssumption DEF ScreenInv
  <1>2. pc = "run" /\ vga' = Put(vga, c) /\ pc' = "test" /\ UNCHANGED <<keyboardVars, input_buffer, key, alone, taken>>
    BY DEF DumpPuts
  <1>3. vga \in Screens
    BY <1>1, <1>2 DEF Types
  <1>4. vga' \in Loose
    BY <1>1, <1>2, <1>3, PutLoose
  <1>5. Types'
    BY <1>1, <1>2, <1>4 DEF Types
  <1>6. Visible'
    BY <1>2 DEF Visible
  <1> QED BY <1>5, <1>6 DEF ScreenInv

\* And tests it, whatever was printed in between.
LEMMA DumpTestsKeepsInv == ASSUME ScreenInv, DumpTests PROVE ScreenInv'
  <1>1. Types /\ Visible
    BY DEF ScreenInv
  <1>2. vga' = Scrolled(vga) /\ pc' = "run" /\ UNCHANGED <<keyboardVars, input_buffer, key, alone, taken>>
    BY DEF DumpTests
  <1>3. vga \in Loose
    BY <1>1, ScreensLoose DEF Types
  <1>4. vga.mem \in [Cells -> Glyphs] /\ vga.pos \in Nat /\ vga = [mem |-> vga.mem, pos |-> vga.pos]
    <2>1. PICK a \in Nat, b \in Nat : a = Width * Height
      BY Area
    <2> QED BY <1>3, <2>1 DEF Loose
  <1>5. vga' \in Screens
    BY <1>2, <1>4, ScrolledType
  <1>6. Types'
    BY <1>1, <1>2, <1>5 DEF Types
  <1>7. Visible'
    BY <1>2 DEF Visible
  <1> QED BY <1>6, <1>7 DEF ScreenInv

\* The next line begins empty.
LEMMA ReturnKeepsInv == ASSUME ScreenInv, CommandReturns PROVE ScreenInv'
  <1>1. Types /\ Visible
    BY DEF ScreenInv
  <1>2. pc = "run" /\ input_buffer' = <<>> /\ pc' = "cwd" /\ UNCHANGED <<keyboardVars, vga, key, alone, taken>>
    BY DEF CommandReturns
  <1>3. <<>> \in Seq(Letters) /\ Len(<<>>) = 0 /\ LineMax \in Nat
    BY EmptySeq, ConsoleAssumption
  <1>4. Types'
    BY <1>1, <1>2, <1>3 DEF Types
  <1>5. Visible'
    BY <1>2 DEF Visible
  <1> QED BY <1>4, <1>5 DEF ScreenInv

\* The first part of the prompt.
LEMMA CwdKeepsInv == ASSUME ScreenInv, PromptCwd PROVE ScreenInv'
  <1>1. Types /\ Visible
    BY DEF ScreenInv
  <1>2. pc = "cwd" /\ vga' = Printed(Cwd) /\ pc' = "sign" /\ alone' = TRUE /\ UNCHANGED <<keyboardVars, input_buffer, key, taken>>
    BY DEF PromptCwd
  <1>3. Cwd \in Seq(Plain) /\ Cwd \in Seq(Glyphs)
    BY PromptIs DEF Plain
  <1>4. vga' \in Screens
    BY <1>1, <1>2, <1>3, PrintedType DEF Types
  <1>5. Shows(vga', Cwd, Len(Cwd))
    <2>1. Shows(vga, Cwd, 0)
      BY DEF Shows
    <2>2. PICK m \in Nat : m = Len(Cwd)
      BY <1>3
    <2>3. \A k \in 1..Len(Cwd) : Cwd[0 + k] = Cwd[k]
      BY <2>2
    <2>4. Shows(Printed(Cwd), Cwd, 0 + Len(Cwd))
      <3>1. vga \in Screens
        BY <1>1, <1>2 DEF Types
      <3> QED BY <1>3, <2>1, <2>3, <3>1, PrintedShows
    <2>5. 0 + Len(Cwd) = Len(Cwd)
      BY <2>2
    <2> QED BY <1>2, <2>4, <2>5
  <1>6. Types'
    BY <1>1, <1>2, <1>4 DEF Types
  <1>7. Visible'
    BY <1>1, <1>2, <1>5 DEF Visible
  <1> QED BY <1>6, <1>7 DEF ScreenInv

\* The second part of the prompt, if no program has printed in between.
LEMMA SignKeepsInv == ASSUME ScreenInv, PromptSign PROVE ScreenInv'
  <1>1. Types /\ Visible
    BY DEF ScreenInv
  <1>2. pc = "sign" /\ vga' = Printed(Sign) /\ pc' = "poll" /\ UNCHANGED <<keyboardVars, input_buffer, key, alone, taken>>
    BY DEF PromptSign
  <1>3. Sign \in Seq(Plain) /\ Sign \in Seq(Glyphs) /\ Cwd \in Seq(Plain)
    BY PromptIs DEF Plain
  <1>4. vga' \in Screens
    BY <1>1, <1>2, <1>3, PrintedType DEF Types
  <1>5. input_buffer = <<>>
    BY <1>1, <1>2 DEF Visible
  <1>6. PICK x : x = Cwd \o Sign
    OBVIOUS
  <1>7. PICK a \in Nat : a = Len(Cwd)
    BY <1>3
  <1>8. ASSUME alone PROVE Shows(vga', x, Len(x))
    <2>1. Len(x) = a + Len(Sign)
      BY <1>6, <1>7, PromptIs
    <2>2. Shows(vga, Cwd, a)
      <3>1. Visible /\ pc = "sign"
        BY <1>1, <1>2
      <3> QED BY <1>7, <1>8, <3>1 DEF Visible
    <2>3. \A k \in 1..a : Cwd[k] = x[k]
      BY <1>6, <1>7, PromptIs
    <2>4. Shows(vga, x, a)
      BY <2>2, <2>3, ShowsAlike
    <2>5. \A k \in 1..Len(Sign) : x[a + k] = Sign[k]
      BY <1>6, <1>7, PromptIs
    <2>6. Shows(Printed(Sign), x, a + Len(Sign))
      <3>1. vga \in Screens
        BY <1>1, <1>2 DEF Types
      <3> QED BY <1>3, <2>4, <2>5, <3>1, PrintedShows
    <2> QED BY <1>2, <2>1, <2>6
  <1>9. Line(<<>>) = x
    <2>1. x \in Seq(Plain)
      BY <1>6, PromptIs
    <2>2. x \o <<>> = x
      BY <2>1, ConcatEmptySeq
    <2> QED BY <1>6, <2>2 DEF Line
  <1>10. Types'
    BY <1>1, <1>2, <1>4 DEF Types
  <1>11. Visible'
    <2>1. pc' = "poll" /\ input_buffer' = <<>> /\ alone' = alone
      BY <1>2, <1>5
    <2> QED BY <1>8, <1>9, <2>1 DEF Visible
  <1> QED BY <1>10, <1>11 DEF ScreenInv

\* A key goes to the ring.
LEMMA KeyKeepsInv == ASSUME ScreenInv, NEW s \in Scancodes, KeyPress(s) PROVE ScreenInv'
  <1>1. Types /\ Visible
    BY DEF ScreenInv
  <1>2. UNCHANGED <<vga, input_buffer, pc, key, alone, taken>>
    BY DEF KeyPress, shellVars
  <1>3. Types'
    BY <1>1, <1>2 DEF Types
  <1>4. Visible'
    BY <1>1, <1>2 DEF Visible
  <1> QED BY <1>3, <1>4 DEF ScreenInv

\* A program prints into the line: nothing is said of it until the next prompt.
LEMMA ProgramWritesKeepsInv == ASSUME ScreenInv, NEW out \in Outputs, ProgramWrites(out) PROVE ScreenInv'
  <1>1. Types /\ Visible /\ out \in Seq(Glyphs)
    BY ConsoleAssumption DEF ScreenInv
  <1>2. vga' = Printed(out) /\ alone' = FALSE /\ UNCHANGED <<keyboardVars, input_buffer, pc, key, taken>>
    BY DEF ProgramWrites
  <1>3. vga' \in Screens \/ (pc' = "test" /\ vga' \in Loose)
    <2>1. CASE vga \in Screens
      BY <1>1, <1>2, <2>1, PrintedType
    <2>2. CASE pc = "test" /\ vga \in Loose
      BY <1>1, <1>2, <2>2, PrintedType
    <2> QED BY <1>1, <2>1, <2>2 DEF Types
  <1>4. Types'
    BY <1>1, <1>2, <1>3 DEF Types
  <1>5. Visible'
    BY <1>1, <1>2 DEF Visible
  <1> QED BY <1>4, <1>5 DEF ScreenInv

\* A program reads keys.
LEMMA ProgramReadsKeepsInv == ASSUME ScreenInv, NEW count \in Counts, ProgramReads(count) PROVE ScreenInv'
  <1>1. Types /\ Visible
    BY DEF ScreenInv
  <1>2. /\ taken' = (taken \/ \E i \in DOMAIN read' : read'[i] = Enter)
        /\ UNCHANGED <<vga, input_buffer, pc, key, alone>>
    BY DEF ProgramReads
  <1>3. taken' \in BOOLEAN
    BY <1>2
  <1>4. Types'
    BY <1>1, <1>2, <1>3 DEF Types
  <1>5. Visible'
    BY <1>1, <1>2 DEF Visible
  <1> QED BY <1>4, <1>5 DEF ScreenInv

\* The spinner changes its corner only.
LEMMA SpinKeepsInv == ASSUME ScreenInv, NEW c \in Wheel, Spin(c) PROVE ScreenInv'
  <1>1. Types /\ Visible
    BY DEF ScreenInv
  <1>2. vga' = [vga EXCEPT !.mem[Corner] = c] /\ UNCHANGED <<keyboardVars, input_buffer, pc, key, alone, taken>>
    BY DEF Spin
  <1>3. /\ vga.mem \in [Cells -> Glyphs] /\ vga = [mem |-> vga.mem, pos |-> vga.pos] /\ c \in Glyphs
        /\ vga.pos \in Cells \/ (pc = "test" /\ vga.pos \in 0..(Width * Height))
    BY <1>1, Controls DEF Types, Screens, Loose
  <1>4. PICK mem : mem = [vga.mem EXCEPT ![Corner] = c]
    OBVIOUS
  <1>5. vga' = [mem |-> mem, pos |-> vga.pos]
    BY <1>2, <1>3, <1>4
  <1>6. mem \in [Cells -> Glyphs] /\ \A i \in Cells : i # Corner => mem[i] = vga.mem[i]
    BY <1>3, <1>4
  <1>7. vga' \in Screens \/ (pc' = "test" /\ vga' \in Loose)
    BY <1>2, <1>3, <1>5, <1>6 DEF Screens, Loose
  <1>8. ASSUME pc # "test", NEW s, NEW m \in Nat, Shows(vga, s, m) PROVE Shows(vga', s, m)
    <2>1. PICK a \in Nat : Cells = 0..(a - 1)
      BY Area
    <2>2. vga'.pos = vga.pos /\ vga'.mem = mem
      BY <1>5
    <2>3. ASSUME NEW k \in 1..m, NEW cell, cell = vga.pos - m + k - 1
          PROVE  cell < 0 \/ cell = Corner \/ mem[cell] = s[k]
      <3>1. cell < 0 \/ cell = Corner \/ vga.mem[cell] = s[k]
        BY <1>8, <2>3 DEF Shows
      <3>2. cell < 0 \/ cell \in Cells
        BY <1>3, <1>8, <2>1, <2>3
      <3> QED BY <1>6, <3>1, <3>2
    <2> QED BY <2>2, <2>3 DEF Shows
  <1>9. Types'
    BY <1>1, <1>2, <1>7 DEF Types
  <1>10. Visible'
    <2>1. Len(Cwd) \in Nat
      BY PromptIs, LenProperties
    <2>2. Len(Line(input_buffer)) \in Nat
      <3>1. /\ Len(Line(input_buffer)) = Len(Cwd \o Sign) + Len(input_buffer)
            /\ Len(Cwd \o Sign) \in Nat
        BY <1>1, LineIs DEF Types
      <3>2. Len(input_buffer) \in Nat
        BY <1>1, LenProperties DEF Types
      <3> QED BY <3>1, <3>2
    <2> QED BY <1>1, <1>2, <1>8, <2>1, <2>2 DEF Visible
  <1> QED BY <1>9, <1>10 DEF ScreenInv

\* Every step keeps the invariant.
LEMMA ScreenNext == ASSUME ScreenInv, KeyInv, [Next]_vars PROVE ScreenInv'
  <1>1. CASE UNCHANGED vars
    <2>1. UNCHANGED <<vga, input_buffer, pc, key, alone, taken>>
      BY <1>1 DEF vars, shellVars
    <2>2. Types'
      BY <2>1 DEF ScreenInv, Types
    <2>3. Visible'
      BY <2>1 DEF ScreenInv, Visible
    <2> QED BY <2>2, <2>3 DEF ScreenInv
  <1>2. ASSUME Shell PROVE ScreenInv'
    BY <1>2, PollKeepsInv, EnterKeepsInv, BackspaceKeepsInv, CharKeepsInv, CwdKeepsInv, SignKeepsInv,
       ReturnKeepsInv, DumpTestsKeepsInv DEF Shell
  <1>3. ASSUME NEW out \in Outputs, CommandPrints(out) \/ ProgramWrites(out) PROVE ScreenInv'
    BY <1>3, CommandKeepsInv, ProgramWritesKeepsInv
  <1>4. ASSUME NEW s \in Scancodes, KeyPress(s) PROVE ScreenInv'
    BY <1>4, KeyKeepsInv
  <1>5. ASSUME NEW count \in Counts, ProgramReads(count) PROVE ScreenInv'
    BY <1>5, ProgramReadsKeepsInv
  <1>6. ASSUME NEW c \in Wheel, Spin(c) PROVE ScreenInv'
    BY <1>6, SpinKeepsInv
  <1>7. ASSUME NEW c \in Dumped, DumpPuts(c) PROVE ScreenInv'
    BY <1>7, DumpPutsKeepsInv
  <1> QED BY <1>1, <1>2, <1>3, <1>4, <1>5, <1>6, <1>7 DEF Next

\* The line a user sees is the line that Enter runs, on a screen of any size, with a prompt
\* and a line of any length, as long as no program prints into it.
THEOREM ScreenAlwaysShowsLine == Spec => []ScreenShowsLine
  <1>1. Init => ScreenInv /\ KeyInv
    BY ScreenInit, KeyInit DEF Init
  <1>2. ScreenInv /\ KeyInv /\ [Next]_vars => ScreenInv' /\ KeyInv'
    BY ScreenNext, NextUsesRing, KeyStep
  <1>3. ScreenInv => ScreenShowsLine
    <2> SUFFICES ASSUME ScreenInv PROVE ScreenShowsLine
      OBVIOUS
    <2>1. Types /\ Visible
      BY DEF ScreenInv
    <2>2. TypeOK
      <3>1. vga.pos \in Cells \/ (pc = "test" /\ vga.pos = Width * Height)
        <4>1. vga \in Screens => vga.pos \in Cells
          BY DEF Screens
        <4> QED BY <2>1, <4>1, ScreensLoose DEF Types
      <3>2. DOMAIN vga.mem = Cells
        BY <2>1 DEF Types, Screens, Loose
      <3> QED BY <2>1, <3>1, <3>2 DEF Types, TypeOK, Letters
    <2>3. alone /\ pc \in {"poll", "key"} => Shows(vga, Line(input_buffer), Len(Line(input_buffer)))
      BY <2>1 DEF Visible
    <2> QED BY <2>2, <2>3 DEF ScreenShowsLine, Shows, Line
  <1> QED BY <1>1, <1>2, <1>3, PTL DEF Spec
=============================================================================

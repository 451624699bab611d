----------------------------- MODULE ATAProofs -----------------------------
(***************************************************************************)
(* Proofs about ATA, for every size of sectors, every number of sectors    *)
(* and clients and both kinds of drive, when no transfer is interrupted by *)
(* another one.                                                            *)
(***************************************************************************)
EXTENDS ATA, FiniteSetTheorems, TLAPS

DevType ==
  [st : {"ready", "read", "out", "write", "in", "store", "flush"},
   lba : Lbas \cup {0}, pos : Words, buf : Sectors]

CallType ==
  [pc : {"idle", "wait", "regs", "drq", "data", "flush", "sync", "return"},
   op : {"read", "write"}, lba : Lbas \cup {0}, buf : Sectors, i : Nat]

Types ==
  /\ drive \in {"quick", "slow"}
  /\ reg \in [0..(Parts - 1) -> 0..(Base - 1)] /\ dev \in DevType
  /\ dev.st \notin {"ready", "flush"} => dev.lba \in Lbas
  /\ DOMAIN cache \subseteq Lbas /\ cache \in [DOMAIN cache -> Sectors]
  /\ platter \in [Lbas -> Sectors] /\ promised \in [Lbas -> Sectors]
  /\ call \in [Clients -> CallType]

\* The sector of write o has left the driver.
Late(o) == o.op = "write" /\ o.pc \in {"flush", "sync", "return"}

\* What the drive does while call o is where it is.
Follows(o) ==
  /\ o.pc \in {"idle", "wait"} => dev.st \in {"ready", "store", "flush"}
  /\ o.pc = "regs" => /\ dev.st = "ready" /\ o.i <= Parts
                      /\ \A k \in 0..(Parts - 1) : k < o.i => reg[k] = Byte(o.lba, k)
  /\ o.pc = "drq" =>
       /\ dev.st \in IF o.op = "read" THEN {"read", "out"} ELSE {"write", "in"}
       /\ dev.lba = o.lba /\ dev.pos = 0 /\ o.i = 0
       /\ dev.st = "out" => dev.buf = promised[o.lba]
  /\ o.pc = "data" =>
       /\ dev.st = IF o.op = "read" THEN "out" ELSE "in"
       /\ dev.lba = o.lba /\ dev.pos = o.i
       /\ o.op = "read" => dev.buf = promised[o.lba]
       /\ \A k \in Words : k < o.i => o.buf[k] = dev.buf[k]
  /\ o.pc = "flush" => o.op = "write" /\ dev.st \in {"ready", "store"}
  /\ o.pc = "sync" => o.op = "write" /\ dev.st \in {"ready", "store", "flush"}
  /\ o.pc = "return" =>
       IF o.op = "read" THEN dev.st = "ready" /\ o.buf = promised[o.lba]
       ELSE dev.st \in {"ready", "store", "flush"}

\* From its command to the flush the registers hold the sector of call o.
Named(o) == o.pc \in {"drq", "data", "flush"} => \A k \in 0..(Parts - 1) : reg[k] = Byte(o.lba, k)

\* The drive holds what was promised, and the sector of call o once it has that.
Holds(o) ==
  \A l \in Lbas : Future(l) = IF Late(o) /\ l = o.lba THEN o.buf ELSE promised[l]

\* On a quick drive that shows BSY in time only call o's sector is not on the platter, and
\* only until the flush is done.
Durable(o) ==
  drive = "quick" /\ LateBusy = FALSE =>
    /\ dev.st # "store"
    /\ cache # Nothing => /\ o.op = "write" /\ DOMAIN cache = {o.lba}
                          /\ o.pc = "flush" \/ (o.pc = "sync" /\ dev.st = "flush")
    /\ Late(o) => platter[o.lba] \in {promised[o.lba], o.buf}

CallOK(o) ==
  (o.pc # "idle" => o.lba \in Lbas) /\ Follows(o) /\ Named(o) /\ Holds(o) /\ Durable(o)

Alone(c) == \A d \in Clients : d # c => call[d].pc = "idle"

\* The inductive invariant: there is at most one call, and drive and platter are where it
\* has brought them.
ATAInv == Types /\ (\E c \in Clients : Alone(c)) /\ \A c \in Clients : Alone(c) => CallOK(call[c])
-----------------------------------------------------------------------------
(* Numbers *)

\* The constants of the driver.
LEMMA Constants ==
  /\ Base \in Nat /\ Base > 1 /\ Parts \in Nat /\ Parts > 0 /\ NWords \in Nat /\ NWords > 0
  /\ Words \subseteq Nat /\ 0 \in Words /\ Zeroes \in Sectors /\ Lbas \subseteq Nat
  /\ \A w \in Words : w < NWords
  <1>1. /\ Base \in Nat \ {0, 1} /\ Parts \in Nat \ {0} /\ NWords \in Nat \ {0} /\ 0 \in Values
        /\ Weight \in [0..Parts -> Nat \ {0}] /\ Lbas \subseteq 0..(Weight[Parts] - 1)
    BY ATAAssumption
  <1>2. Zeroes \in Sectors
    BY <1>1 DEF Zeroes, Sectors
  <1> QED BY <1>1, <1>2 DEF Words

\* What the registers count.
LEMMA Weights ==
  /\ \A k \in 0..Parts : Weight[k] \in Nat /\ Weight[k] > 0
  /\ Weight[0] = 1 /\ \A k \in 0..(Parts - 1) : Weight[k + 1] = Base * Weight[k]
  /\ Lbas \subseteq 0..(Weight[Parts] - 1)
  BY ATAAssumption

\* A nonempty set of natural numbers has a least element.
LEMMA Least ==
  ASSUME NEW S \in SUBSET Nat, S # {}
  PROVE  \E x \in S : \A y \in S : x <= y
  <1>1. PICK s \in S : TRUE
    OBVIOUS
  <1> DEFINE T == {y \in S : y <= s}
             Below(x) == {y \in T : y <= x}
             F == {Below(x) : x \in T}
  <1>2. IsFiniteSet(T)
    <2>1. T \in SUBSET Nat /\ s \in Nat /\ \A t \in T : t <= s
      OBVIOUS
    <2> QED BY <2>1, FS_BoundedSetOfNaturals
  <1>3. F \subseteq FiniteSubsetsOf(T)
    BY <1>2, FS_FiniteSubsetsOfFinite
  <1>4. F # {}
    <2>1. s \in T
      OBVIOUS
    <2>2. Below(s) \in F
      BY <2>1
    <2> HIDE DEF F
    <2> QED BY <2>2
  <1>5. IsWellFoundedOn(StrictSubsetOrdering(T), FiniteSubsetsOf(T))
    BY FS_StrictSubsetOrderingWellFounded
  <1>6. PICK U \in F : \A V \in F : ~(<<V, U>> \in StrictSubsetOrdering(T))
    BY <1>3, <1>4, <1>5, WFMin
  <1>7. PICK x \in T : U = Below(x)
    OBVIOUS
  <1>8. ASSUME NEW y \in T, y < x PROVE FALSE
    <2>1. \A z \in Below(y) : z \in U
      BY <1>7, <1>8
    <2>2. x \in U /\ x \notin Below(y)
      BY <1>7, <1>8
    <2>3. <<Below(y), U>> \in (SUBSET T) \X (SUBSET T)
      BY <1>7
    <2>4. Below(y) \in F
      BY <1>8
    <2> HIDE DEF Below, F
    <2>5. Below(y) \subseteq U /\ Below(y) # U
      BY <2>1, <2>2
    <2>6. <<Below(y), U>> \in StrictSubsetOrdering(T)
      BY <2>3, <2>5 DEF StrictSubsetOrdering
    <2> QED BY <1>6, <2>4, <2>6
  <1>9. x \in S /\ \A y \in S : x <= y
    BY <1>8
  <1> QED BY <1>9

\* Quotient and remainder.
LEMMA DivMod ==
  ASSUME NEW x \in Nat, NEW n \in Nat, n > 0
  PROVE  /\ x \div n \in Nat /\ x % n \in Nat /\ x % n < n
         /\ x = ((x \div n) * n) + (x % n)
  OBVIOUS

\* A number between two neighbouring multiples has one quotient.
LEMMA QuotientIs ==
  ASSUME NEW x \in Nat, NEW n \in Nat, n > 0, NEW q \in Nat, q * n <= x, x < (q + 1) * n
  PROVE  x \div n = q
  <1>1. PICK p \in Nat : p = x \div n
    BY DivMod
  <1>2. PICK r \in Nat : r = x % n
    BY DivMod
  <1>3. x = (p * n) + r /\ r < n
    BY <1>1, <1>2, DivMod
  <1>4. p * n <= x /\ x < (p + 1) * n
    BY <1>3
  <1>5. p * n < (q + 1) * n /\ q * n < (p + 1) * n
    <2>1. p * n \in Int /\ q * n \in Int /\ (q + 1) * n \in Int /\ (p + 1) * n \in Int
      OBVIOUS
    <2> QED BY <1>4, <2>1
  <1>6. \A a, b \in Nat : a * n < b * n => a < b
    OBVIOUS
  <1>7. p < q + 1 /\ q < p + 1
    BY <1>5, <1>6
  <1> QED BY <1>1, <1>7

\* A byte is what is left of the higher part of a number when the next higher part is
\* taken away.
LEMMA ByteOf ==
  ASSUME NEW x \in Nat, NEW w \in Nat, w > 0, NEW b \in Nat, b > 0
  PROVE  x \div w = (x \div (b * w)) * b + ((x \div w) % b)
  <1>1. PICK q \in Nat : q = x \div w
    BY DivMod
  <1>2. PICK r \in Nat : r = q \div b
    BY DivMod
  <1>3. q * w <= x /\ x < (q + 1) * w
    <2>1. PICK m \in Nat : m = x % w
      BY DivMod
    <2>2. x = (q * w) + m /\ m < w
      BY <1>1, <2>1, DivMod
    <2> QED BY <2>2
  <1>4. q = (r * b) + (q % b) /\ q % b \in Nat /\ q % b < b
    BY <1>2, DivMod
  <1>5. r * b <= q /\ q + 1 <= (r + 1) * b
    <2>1. PICK m \in Nat : m = q % b
      BY <1>4
    <2>2. q = (r * b) + m /\ m < b
      BY <1>4, <2>1
    <2> QED BY <2>2
  <1>6. (r * b) * w <= q * w /\ (q + 1) * w <= ((r + 1) * b) * w
    <2>1. \A i, j \in Nat : i <= j => i * w <= j * w
      OBVIOUS
    <2>2. r * b \in Nat /\ (r + 1) * b \in Nat
      OBVIOUS
    <2> QED BY <1>5, <2>1, <2>2
  <1>7. (r * b) * w = r * (b * w) /\ ((r + 1) * b) * w = (r + 1) * (b * w) /\ b * w \in Nat /\ b * w > 0
    OBVIOUS
  <1>8. r * (b * w) <= x /\ x < (r + 1) * (b * w)
    <2>1. /\ q * w \in Int /\ (q + 1) * w \in Int /\ r * (b * w) \in Int /\ (r + 1) * (b * w) \in Int
      OBVIOUS
    <2>2. r * (b * w) <= q * w /\ (q + 1) * w <= (r + 1) * (b * w)
      BY <1>6, <1>7
    <2>3. \A i, j, k \in Int : i <= j /\ j <= k => i <= k
      OBVIOUS
    <2>4. \A i, j, k \in Int : i < j /\ j <= k => i < k
      OBVIOUS
    <2> HIDE DEF Nat
    <2> QED BY <1>3, <2>1, <2>2, <2>3, <2>4
  <1>9. x \div (b * w) = r
    BY <1>7, <1>8, QuotientIs
  <1> QED BY <1>1, <1>4, <1>9

\* The bytes of a number below the weight of all registers determine it.
LEMMA BytesDetermine ==
  ASSUME NEW l \in 0..(Weight[Parts] - 1), NEW m \in 0..(Weight[Parts] - 1),
         \A k \in 0..(Parts - 1) : Byte(l, k) = Byte(m, k)
  PROVE  l = m
  <1> USE Constants
  <1>1. l \in Nat /\ m \in Nat /\ l < Weight[Parts] /\ m < Weight[Parts] /\ Parts \in 0..Parts
    BY Weights
  <1> DEFINE S == {k \in 0..Parts : l \div Weight[k] = m \div Weight[k]}
  <1>2. Parts \in S
    <2>1. \A x, n \in Nat : x < n => x \div n = 0
      OBVIOUS
    <2>2. l \div Weight[Parts] = 0 /\ m \div Weight[Parts] = 0
      BY <1>1, <2>1, Weights
    <2> QED BY <1>1, <2>2
  <1>3. PICK k \in S : \A y \in S : k <= y
    <2>1. S \in SUBSET Nat /\ S # {}
      BY <1>2
    <2> HIDE DEF S
    <2> QED BY <2>1, Least
  <1>4. CASE k = 0
    <2>1. l \div Weight[0] = m \div Weight[0] /\ Weight[0] = 1
      BY <1>4, Weights
    <2>2. \A x \in Nat : x \div 1 = x
      OBVIOUS
    <2> QED BY <1>1, <2>1, <2>2
  <1>5. CASE k # 0
    <2>1. PICK h \in 0..(Parts - 1) : k = h + 1
      <3>1. k - 1 \in 0..(Parts - 1) /\ k = (k - 1) + 1
        BY <1>5
      <3> QED BY <3>1
    <2>2. PICK w : w = Weight[h]
      OBVIOUS
    <2>3. w \in Nat /\ w > 0 /\ Weight[k] = Base * w
      BY <2>1, <2>2, Weights
    <2>4. /\ l \div w = (l \div (Base * w)) * Base + ((l \div w) % Base)
          /\ m \div w = (m \div (Base * w)) * Base + ((m \div w) % Base)
      <3>1. Base \in Nat /\ Base > 0
        OBVIOUS
      <3>2. \A x \in Nat : x \div w = (x \div (Base * w)) * Base + ((x \div w) % Base)
        <4> HIDE Constants
        <4> QED BY <2>3, <3>1, ByteOf
      <3> QED BY <1>1, <3>2
    <2>5. l \div (Base * w) = m \div (Base * w)
      BY <2>3
    <2>6. (l \div w) % Base = (m \div w) % Base
      BY <2>2 DEF Byte
    <2>7. l \div w = m \div w
      BY <2>4, <2>5, <2>6
    <2>8. h \in S
      BY <2>1, <2>2, <2>7
    <2> HIDE DEF S
    <2> QED BY <1>3, <2>1, <2>8
  <1> QED BY <1>4, <1>5

\* Once every register holds its byte of l, the drive takes l for its command.
LEMMA LbaIs ==
  ASSUME NEW l \in Lbas, \A k \in 0..(Parts - 1) : reg[k] = Byte(l, k)
  PROVE  LBA = l
  <1>1. l \in 0..(Weight[Parts] - 1)
    BY Weights
  <1>2. \E m \in 0..(Weight[Parts] - 1) : \A k \in 0..(Parts - 1) : Byte(m, k) = reg[k]
    BY <1>1
  <1>3. LBA \in 0..(Weight[Parts] - 1) /\ \A k \in 0..(Parts - 1) : Byte(LBA, k) = reg[k]
    BY <1>2 DEF LBA
  <1> QED BY <1>1, <1>3, BytesDetermine

\* A byte fits its register.
LEMMA ByteType == ASSUME NEW l \in Nat, NEW k \in 0..(Parts - 1) PROVE Byte(l, k) \in 0..(Base - 1)
  <1>1. Weight[k] \in Nat /\ Weight[k] > 0
    BY Weights, Constants
  <1>2. l \div Weight[k] \in Nat
    BY <1>1, DivMod
  <1>3. \A x \in Nat : x % Base \in 0..(Base - 1)
    BY Constants, DivMod
  <1> QED BY <1>2, <1>3 DEF Byte

-----------------------------------------------------------------------------
(* The drive *)

\* An empty cache.
LEMMA NothingIs == DOMAIN Nothing = {} /\ Nothing \in [DOMAIN Nothing -> Sectors]
  BY DEF Nothing

\* What a read finds is a sector.
LEMMA StoredType == Types => Stored \in [Lbas -> Sectors]
  BY DEF Types, Stored

\* The drive before its first command.
LEMMA ReadyIs ==
  /\ Ready \in DevType /\ Ready.st = "ready"
  /\ NoCall \in CallType /\ NoCall.pc = "idle" /\ NoCall.op = "read"
  <1>1. Ready \in DevType /\ Ready.st = "ready"
    BY Constants DEF Ready, DevType
  <1>2. NoCall \in CallType /\ NoCall.pc = "idle" /\ NoCall.op = "read"
    BY Constants DEF NoCall, CallType
  <1> QED BY <1>1, <1>2

\* Without a call, and with a drive at rest and an empty cache, all is well.
LEMMA AtRest ==
  ASSUME Types, dev = Ready, cache = Nothing, promised = platter, call = [c \in Clients |-> NoCall]
  PROVE  ATAInv
  <1>1. \A c \in Clients : Alone(c)
    BY ReadyIs DEF Alone
  <1>2. PICK c \in Clients : TRUE
    BY ATAAssumption
  <1>3. \A l \in Lbas : Future(l) = platter[l]
    BY ReadyIs, NothingIs DEF Future, Stored
  <1>4. ASSUME NEW o, o = NoCall PROVE CallOK(o)
    <2>1. o.pc = "idle" /\ o.op = "read" /\ ~Late(o) /\ dev.st = "ready"
      BY <1>4, ReadyIs DEF Late
    <2>2. Follows(o)
      BY <2>1 DEF Follows
    <2>3. Holds(o)
      BY <1>3, <2>1 DEF Holds
    <2>4. Durable(o)
      BY <2>1 DEF Durable
    <2> QED BY <2>1, <2>2, <2>3, <2>4 DEF CallOK, Named
  <1> QED BY <1>1, <1>2, <1>4 DEF ATAInv

\* Where the machine starts.
LEMMA ATAInit == Init => ATAInv
  <1> SUFFICES ASSUME Init PROVE ATAInv
    OBVIOUS
  <1>1. reg \in [0..(Parts - 1) -> 0..(Base - 1)]
    <2>1. 0 \in 0..(Base - 1)
      BY Constants
    <2> QED BY <2>1 DEF Init
  <1>2. platter \in [Lbas -> Sectors] /\ promised = platter
    BY Constants DEF Init
  <1>3. DOMAIN cache \subseteq Lbas /\ cache \in [DOMAIN cache -> Sectors]
    BY NothingIs DEF Init
  <1>4. call \in [Clients -> CallType] /\ dev \in DevType
    BY ReadyIs DEF Init
  <1>5. drive \in {"quick", "slow"}
    BY ATAAssumption DEF Init
  <1>6. Types
    BY <1>1, <1>2, <1>3, <1>4, <1>5, ReadyIs DEF Types, Init
  <1> QED BY <1>6, AtRest DEF Init

\* Power loss leaves the platter, which is then all that is promised.
LEMMA PowerLossKeepsInv == ASSUME ATAInv, PowerLoss PROVE ATAInv'
  <1>1. Types
    BY DEF ATAInv
  <1>2. reg' \in [0..(Parts - 1) -> 0..(Base - 1)]
    <2>1. 0 \in 0..(Base - 1)
      BY Constants
    <2> QED BY <1>1, <2>1 DEF PowerLoss, Types
  <1>3. DOMAIN cache' \subseteq Lbas /\ cache' \in [DOMAIN cache' -> Sectors]
    BY NothingIs DEF PowerLoss
  <1>4. call' \in [Clients -> CallType] /\ dev' \in DevType
    BY ReadyIs DEF PowerLoss
  <1>5. Types'
    BY <1>1, <1>2, <1>3, <1>4, ReadyIs DEF Types, PowerLoss
  <1>6. /\ dev' = Ready /\ cache' = Nothing /\ promised' = platter' /\ call' = [c \in Clients |-> NoCall]
    BY DEF PowerLoss
  <1> HIDE DEF Ready, Nothing, NoCall
  <1>7. \A c \in Clients : Alone(c)'
    BY <1>6, ReadyIs DEF Alone
  <1>8. PICK c \in Clients : TRUE
    BY ATAAssumption
  <1>9. \A l \in Lbas : Future(l)' = platter'[l]
    BY <1>6, ReadyIs, NothingIs DEF Future, Stored
  <1>10. ASSUME NEW o, o = NoCall PROVE CallOK(o)'
    <2>1. o.pc = "idle" /\ o.op = "read" /\ ~Late(o) /\ dev'.st = "ready"
      BY <1>6, <1>10, ReadyIs DEF Late
    <2>2. Follows(o)'
      BY <2>1 DEF Follows
    <2>3. Holds(o)'
      BY <1>6, <1>9, <2>1 DEF Holds, Late
    <2>4. Durable(o)'
      BY <1>6, <2>1 DEF Durable, Late
    <2> QED BY <2>1, <2>2, <2>3, <2>4 DEF CallOK, Named
  <1>11. \A d \in Clients : CallOK(call[d])'
    BY <1>6, <1>10
  <1> QED BY <1>5, <1>7, <1>8, <1>11 DEF ATAInv

\* What the drive does by itself: a step that leaves the calls alone.
LEMMA DriveStep ==
  ASSUME ATAInv, Types', call' = call, \A o \in CallType : CallOK(o) => CallOK(o)'
  PROVE  ATAInv'
  <1>1. \A c \in Clients : Alone(c)' <=> Alone(c)
    BY DEF Alone
  <1>2. \A c \in Clients : call[c] \in CallType
    BY DEF ATAInv, Types
  <1>3. ASSUME NEW c \in Clients, Alone(c) PROVE CallOK(call[c])'
    <2>1. PICK o \in CallType : o = call[c]
      BY <1>2
    <2>2. CallOK(o)'
      BY <1>3, <2>1 DEF ATAInv
    <2> QED BY <2>1, <2>2
  <1> QED BY <1>1, <1>3 DEF ATAInv

\* Emptying the cache onto the platter is not seen by reads.
LEMMA StoredKept ==
  ASSUME Types, platter' = Stored, cache' = Nothing
  PROVE  /\ \A l \in Lbas : Stored'[l] = Stored[l] /\ platter'[l] = Stored[l]
         /\ platter' \in [Lbas -> Sectors] /\ DOMAIN cache' = {} /\ cache' \in [DOMAIN cache' -> Sectors]
  <1>1. platter' \in [Lbas -> Sectors]
    BY StoredType
  <1>2. DOMAIN cache' = {} /\ cache' \in [DOMAIN cache' -> Sectors]
    BY NothingIs
  <1>3. \A l \in Lbas : Stored'[l] = platter'[l]
    BY <1>2 DEF Stored
  <1> QED BY <1>1, <1>2, <1>3

\* A sector that comes to the cache is seen by reads.
LEMMA StoredSet ==
  ASSUME Types, NEW m \in Lbas, NEW buf \in Sectors, platter' = platter, cache' = Cached(m, buf)
  PROVE  /\ \A l \in Lbas : Stored'[l] = IF l = m THEN buf ELSE Stored[l]
         /\ DOMAIN cache' = DOMAIN cache \cup {m} /\ cache' \in [DOMAIN cache' -> Sectors]
  <1>1. /\ DOMAIN cache' = DOMAIN cache \cup {m} /\ cache'[m] = buf
        /\ \A k \in DOMAIN cache : k # m => cache'[k] = cache[k]
    BY DEF Cached
  <1>2. cache' \in [DOMAIN cache' -> Sectors]
    BY DEF Cached, Types
  <1>3. \A l \in Lbas : Stored'[l] = IF l \in DOMAIN cache' THEN cache'[l] ELSE platter[l]
    BY DEF Stored
  <1>4. \A l \in Lbas : Stored[l] = IF l \in DOMAIN cache THEN cache[l] ELSE platter[l]
    BY DEF Stored
  <1> QED BY <1>1, <1>2, <1>3, <1>4

\* The drive empties its cache by itself.
LEMMA DestageKeepsInv == ASSUME ATAInv, Destage PROVE ATAInv'
  <1>1. /\ Types /\ platter' = Stored /\ cache' = Nothing /\ UNCHANGED <<drive, reg, dev, call, promised>>
    BY DEF ATAInv, Destage
  <1>2. /\ \A l \in Lbas : Stored'[l] = Stored[l] /\ platter'[l] = Stored[l]
        /\ platter' \in [Lbas -> Sectors] /\ DOMAIN cache' = {} /\ cache' \in [DOMAIN cache' -> Sectors]
    BY <1>1, StoredKept
  <1>3. Types'
    BY <1>1, <1>2 DEF Types
  <1>4. \A l \in Lbas : Future(l)' = Future(l)
    BY <1>1, <1>2 DEF Future
  <1>5. ASSUME NEW o \in CallType, CallOK(o) PROVE CallOK(o)'
    <2>1. Follows(o)'
      BY <1>1, <1>5 DEF CallOK, Follows, Byte
    <2>2. Holds(o)'
      BY <1>1, <1>4, <1>5 DEF CallOK, Holds, Late
    <2>3. Durable(o)'
      <3> SUFFICES ASSUME drive = "quick", LateBusy = FALSE, Late(o)
                   PROVE  dev.st # "store" /\ platter'[o.lba] = o.buf
        BY <1>1, <1>5 DEF CallOK, Durable, Late
      <3>1. o.lba \in Lbas /\ dev.st # "store"
        BY <1>5 DEF CallOK, Durable, Late
      <3>2. Future(o.lba) = o.buf
        BY <1>5, <3>1 DEF CallOK, Holds
      <3> QED BY <1>2, <3>1, <3>2 DEF Future
    <2> QED BY <1>1, <1>5, <2>1, <2>2, <2>3 DEF CallOK, Named, Byte
  <1> QED BY <1>1, <1>3, <1>5, DriveStep

\* The drive finishes a command.
LEMMA DriveDoneKeepsInv == ASSUME ATAInv, DriveDone PROVE ATAInv'
  <1>1. /\ Types /\ UNCHANGED <<drive, reg, call, promised>>
        /\ dev.st \in {"read", "write", "store", "flush"}
    BY DEF ATAInv, DriveDone, BSY
  <1>2. CASE dev.st = "read"
    <2>1. platter' = platter /\ cache' = cache /\ dev' = [dev EXCEPT !.st = "out", !.buf = Stored[dev.lba]]
      BY <1>2 DEF DriveDone
    <2>2. dev.lba \in Lbas /\ Stored[dev.lba] \in Sectors /\ dev \in DevType
      BY <1>1, <1>2, StoredType DEF Types
    <2>3. /\ dev'.st = "out" /\ dev'.lba = dev.lba /\ dev'.pos = dev.pos /\ dev'.buf = Stored[dev.lba]
          /\ dev' \in DevType
      BY <2>1, <2>2 DEF DevType
    <2>4. Types'
      BY <1>1, <2>1, <2>2, <2>3 DEF Types
    <2>5. \A l \in Lbas : Future(l)' = Future(l)
      BY <1>2, <2>1, <2>3 DEF Future, Stored
    <2>6. ASSUME NEW o \in CallType, CallOK(o) PROVE CallOK(o)'
      <3>1. o.pc = "drq" /\ o.op = "read" /\ o.lba = dev.lba /\ dev.pos = 0 /\ o.i = 0 /\ ~Late(o)
        BY <1>2, <2>6 DEF CallOK, Follows, CallType, Late
      <3>2. dev'.buf = promised[o.lba]
        BY <1>2, <2>2, <2>3, <2>6, <3>1 DEF CallOK, Holds, Future
      <3>3. Follows(o)'
        BY <1>1, <2>3, <3>1, <3>2 DEF Follows
      <3>4. Holds(o)'
        BY <1>1, <2>5, <2>6 DEF CallOK, Holds, Late
      <3>5. Durable(o)'
        BY <1>1, <2>1, <2>3, <2>6, <3>1 DEF CallOK, Durable, Late
      <3> QED BY <1>1, <2>6, <3>3, <3>4, <3>5 DEF CallOK, Named, Byte
    <2> QED BY <1>1, <2>4, <2>6, DriveStep
  <1>3. CASE dev.st = "write"
    <2>1. platter' = platter /\ cache' = cache /\ dev' = [dev EXCEPT !.st = "in"]
      BY <1>3 DEF DriveDone
    <2>2. dev \in DevType /\ dev.lba \in Lbas
      BY <1>1, <1>3 DEF Types
    <2>3. /\ dev'.st = "in" /\ dev'.lba = dev.lba /\ dev'.pos = dev.pos /\ dev' \in DevType
      BY <2>1, <2>2 DEF DevType
    <2>4. Types'
      BY <1>1, <2>1, <2>2, <2>3 DEF Types
    <2>5. \A l \in Lbas : Future(l)' = Future(l)
      BY <1>3, <2>1, <2>3 DEF Future, Stored
    <2>6. ASSUME NEW o \in CallType, CallOK(o) PROVE CallOK(o)'
      <3>1. o.pc = "drq" /\ o.op = "write" /\ o.lba = dev.lba /\ dev.pos = 0 /\ o.i = 0
        BY <1>3, <2>6 DEF CallOK, Follows, CallType
      <3>3. Follows(o)'
        BY <1>1, <2>3, <3>1 DEF Follows
      <3>4. Holds(o)'
        BY <1>1, <2>5, <2>6 DEF CallOK, Holds, Late
      <3>5. Durable(o)'
        BY <1>1, <2>1, <2>3, <2>6, <3>1 DEF CallOK, Durable, Late
      <3> QED BY <1>1, <2>6, <3>3, <3>4, <3>5 DEF CallOK, Named, Byte
    <2> QED BY <1>1, <2>4, <2>6, DriveStep
  <1>4. CASE dev.st = "store"
    <2>1. platter' = platter /\ cache' = Cached(dev.lba, dev.buf) /\ dev' = Ready
      BY <1>4 DEF DriveDone
    <2>2. dev.buf \in Sectors /\ dev.lba \in Lbas
      BY <1>1, <1>4 DEF Types, DevType
    <2>3. /\ \A l \in Lbas : Stored'[l] = IF l = dev.lba THEN dev.buf ELSE Stored[l]
          /\ DOMAIN cache' = DOMAIN cache \cup {dev.lba} /\ cache' \in [DOMAIN cache' -> Sectors]
      BY <1>1, <2>1, <2>2, StoredSet
    <2>4. dev' \in DevType /\ dev'.st = "ready"
      BY <2>1, ReadyIs
    <2>5. Types'
      BY <1>1, <2>1, <2>2, <2>3, <2>4 DEF Types
    <2>6. \A l \in Lbas : Future(l)' = Future(l)
      BY <1>4, <2>3, <2>4 DEF Future
    <2>7. ASSUME NEW o \in CallType, CallOK(o) PROVE CallOK(o)'
      <3>1. /\ o.pc \in {"idle", "wait", "flush", "sync", "return"} /\ (o.pc \in {"flush", "sync", "return"} => o.op = "write")
        BY <1>4, <2>7 DEF CallOK, Follows, CallType
      <3>2. Follows(o)'
        BY <2>4, <3>1 DEF Follows
      <3>3. Holds(o)'
        BY <1>1, <2>6, <2>7 DEF CallOK, Holds, Late
      <3>4. Durable(o)'
        BY <1>1, <1>4, <2>7 DEF CallOK, Durable
      <3> QED BY <1>1, <2>7, <3>2, <3>3, <3>4 DEF CallOK, Named, Byte
    <2> QED BY <1>1, <2>5, <2>7, DriveStep
  <1>5. CASE dev.st = "flush"
    <2>1. platter' = Stored /\ cache' = Nothing /\ dev' = Ready
      BY <1>5 DEF DriveDone
    <2>2. /\ \A l \in Lbas : Stored'[l] = Stored[l] /\ platter'[l] = Stored[l]
          /\ platter' \in [Lbas -> Sectors] /\ DOMAIN cache' = {} /\ cache' \in [DOMAIN cache' -> Sectors]
      BY <1>1, <2>1, StoredKept
    <2>3. dev' \in DevType /\ dev'.st = "ready"
      BY <2>1, ReadyIs
    <2>4. Types'
      BY <1>1, <2>1, <2>2, <2>3 DEF Types
    <2>5. \A l \in Lbas : Future(l)' = Future(l)
      BY <1>5, <2>2, <2>3 DEF Future
    <2>6. ASSUME NEW o \in CallType, CallOK(o) PROVE CallOK(o)'
      <3>1. /\ o.pc \in {"idle", "wait", "sync", "return"} /\ (o.pc \in {"sync", "return"} => o.op = "write")
        BY <1>5, <2>6 DEF CallOK, Follows, CallType
      <3>2. Follows(o)'
        BY <2>3, <3>1 DEF Follows
      <3>3. Holds(o)'
        BY <1>1, <2>5, <2>6 DEF CallOK, Holds, Late
      <3>4. Durable(o)'
        <4> SUFFICES ASSUME Late(o) PROVE platter'[o.lba] = o.buf
          BY <2>1, <2>3 DEF Durable, Late
        <4>1. o.lba \in Lbas
          BY <2>6 DEF CallOK, Late
        <4>2. Future(o.lba) = o.buf
          BY <2>6, <4>1 DEF CallOK, Holds
        <4> QED BY <1>5, <2>2, <4>1, <4>2 DEF Future
      <3> QED BY <1>1, <2>6, <3>2, <3>3, <3>4 DEF CallOK, Named, Byte
    <2> QED BY <1>1, <2>4, <2>6, DriveStep
  <1> QED BY <1>1, <1>2, <1>3, <1>4, <1>5

-----------------------------------------------------------------------------
(* The driver *)

\* What there is to show of a step of the only call.
LEMMA ClientStep ==
  ASSUME ATAInv, Types', NEW c \in Clients, Alone(c), NEW q \in CallType,
         call' = [call EXCEPT ![c] = q], CallOK(q)'
  PROVE  ATAInv'
  <1>1. call'[c] = q /\ \A d \in Clients : d # c => call'[d] = call[d] /\ call[d].pc = "idle"
    BY DEF ATAInv, Types, Alone
  <1>2. Alone(c)'
    BY <1>1 DEF Alone
  <1>3. ASSUME NEW e \in Clients, Alone(e)' PROVE CallOK(call[e])'
    <2>1. CASE e = c
      BY <1>1, <2>1
    <2>2. CASE e # c
      <3>1. PICK o : o = call'[e]
        OBVIOUS
      <3>2. q.pc = "idle" /\ o.pc = "idle" /\ ~Late(o) /\ ~Late(q)
        BY <1>1, <1>3, <2>2, <3>1 DEF Alone, Late
      <3>3. Follows(o)'
        BY <3>2 DEF CallOK, Follows
      <3>4. Holds(o)'
        BY <3>2 DEF CallOK, Holds, Late
      <3>5. Durable(o)'
        BY <3>2 DEF CallOK, Durable, Late
      <3>6. CallOK(o)'
        BY <3>2, <3>3, <3>4, <3>5 DEF CallOK, Named
      <3> QED BY <3>1, <3>6
    <2> QED BY <2>1, <2>2
  <1> QED BY <1>2, <1>3 DEF ATAInv

\* A call that has the processor is the only one.
LEMMA InCall ==
  ASSUME Interruptible = {}, ATAInv, NEW c \in Clients, NEW pc, At(c, pc)
  PROVE  Types /\ Alone(c) /\ CallOK(call[c]) /\ call[c].pc = pc /\ call[c] \in CallType
  <1>1. Alone(c) /\ call[c].pc = pc
    BY DEF At, Alone
  <1> QED BY <1>1 DEF ATAInv, Types

\* Client c's call goes on as q, and drive and promises are left alone.
Goes(c, q) ==
  /\ UNCHANGED <<drive, dev, cache, platter, promised>> /\ call' = [call EXCEPT ![c] = q]
  /\ reg' \in [0..(Parts - 1) -> 0..(Base - 1)]
  /\ ~Late(call[c]) /\ ~Late(q) /\ call[c].pc \notin {"flush", "sync"} /\ (q.pc # "idle" => q.lba \in Lbas)

\* For such a step only the drive's state and the call's place have to fit.
LEMMA Moves ==
  ASSUME Interruptible = {}, ATAInv, NEW c \in Clients, NEW pc, At(c, pc),
         NEW q \in CallType, Goes(c, q), Follows(q)', Named(q)'
  PROVE  ATAInv'
  <1> USE DEF Goes
  <1>1. PICK o : o = call[c]
    OBVIOUS
  <1>2. Types /\ Alone(c) /\ CallOK(o) /\ o.pc = pc
    BY <1>1, InCall
  <1>3. Types'
    <2>1. call' \in [Clients -> CallType]
      BY <1>2 DEF Types
    <2> QED BY <1>2, <2>1 DEF Types
  <1>4. \A l \in Lbas : Future(l)' = Future(l)
    BY DEF Future, Stored
  <1>5. Holds(q)'
    BY <1>1, <1>2, <1>4 DEF CallOK, Holds, Late
  <1>6. Durable(q)'
    BY <1>1, <1>2 DEF CallOK, Durable, Late
  <1>7. CallOK(q)'
    BY <1>5, <1>6 DEF CallOK
  <1> QED BY <1>2, <1>3, <1>7, ClientStep

\* A call begins.
LEMMA BeginKeepsInv ==
  ASSUME Interruptible = {}, ATAInv, NEW c \in Clients, NEW l \in Lbas, NEW b \in Sectors,
         NEW k \in {"read", "write"}, Begin(c, k, l, b)
  PROVE  ATAInv'
  <1>1. PICK q : q = [NoCall EXCEPT !.pc = "wait", !.op = k, !.lba = l, !.buf = b]
    OBVIOUS
  <1>2. q \in CallType /\ q.pc = "wait" /\ q.lba = l
    BY <1>1, ReadyIs DEF CallType
  <1>3. At(c, "idle") /\ UNCHANGED <<drive, reg, dev, cache, platter, promised>> /\ call' = [call EXCEPT ![c] = q]
    BY <1>1 DEF Begin
  <1>4. Types /\ CallOK(call[c]) /\ call[c].pc = "idle"
    BY <1>3, InCall
  <1>5. Follows(q)' /\ ~Late(q) /\ ~Late(call[c])
    BY <1>2, <1>3, <1>4 DEF CallOK, Follows, Late
  <1>6. reg' \in [0..(Parts - 1) -> 0..(Base - 1)]
    BY <1>3, <1>4 DEF Types
  <1>7. Goes(c, q)
    BY <1>2, <1>3, <1>4, <1>5, <1>6 DEF Goes
  <1>8. Named(q)'
    BY <1>2 DEF Named
  <1> QED BY <1>2, <1>3, <1>5, <1>7, <1>8, Moves

\* The drive is no longer busy.
LEMMA WaitReadyKeepsInv == ASSUME Interruptible = {}, ATAInv, NEW c \in Clients, WaitReady(c) PROVE ATAInv'
  <1>1. PICK o : o = call[c]
    OBVIOUS
  <1>2. PICK q : q = [o EXCEPT !.pc = "regs", !.i = 0]
    OBVIOUS
  <1>3. /\ At(c, "wait") /\ ~BSY /\ UNCHANGED <<drive, reg, dev, cache, platter, promised>>
        /\ call' = [call EXCEPT ![c].pc = "regs", ![c].i = 0]
    BY DEF WaitReady, Goto
  <1>4. Types /\ CallOK(o) /\ o.pc = "wait" /\ o \in CallType
    BY <1>1, <1>3, InCall
  <1>5. q \in CallType /\ q.pc = "regs" /\ q.i = 0 /\ q.lba = o.lba
    BY <1>2, <1>4 DEF CallType
  <1>6. call' = [call EXCEPT ![c] = q]
    BY <1>1, <1>2, <1>3, <1>4 DEF Types, CallType
  <1>7. dev.st = "ready" /\ o.lba \in Lbas
    BY <1>3, <1>4 DEF CallOK, Follows, BSY
  <1>8. Follows(q)' /\ ~Late(q) /\ ~Late(o)
    BY <1>3, <1>4, <1>5, <1>7, Constants DEF Follows, Late
  <1>9. reg' \in [0..(Parts - 1) -> 0..(Base - 1)]
    BY <1>3, <1>4 DEF Types
  <1>10. Goes(c, q)
    BY <1>1, <1>3, <1>4, <1>5, <1>6, <1>7, <1>8, <1>9 DEF Goes
  <1>11. Named(q)'
    BY <1>5 DEF Named
  <1> QED BY <1>3, <1>5, <1>8, <1>10, <1>11, Moves

\* A byte of the LBA goes to its register.
LEMMA OutByteKeepsInv == ASSUME Interruptible = {}, ATAInv, NEW c \in Clients, OutByte(c) PROVE ATAInv'
  <1>1. PICK o : o = call[c]
    OBVIOUS
  <1>2. PICK q : q = [o EXCEPT !.i = o.i + 1]
    OBVIOUS
  <1>3. /\ At(c, "regs") /\ o.i < Parts /\ UNCHANGED <<drive, dev, cache, platter, promised>>
        /\ reg' = [reg EXCEPT ![o.i] = Byte(o.lba, o.i)] /\ call' = [call EXCEPT ![c].i = o.i + 1]
    BY <1>1 DEF OutByte
  <1>4. Types /\ CallOK(o) /\ o.pc = "regs" /\ o \in CallType
    BY <1>1, <1>3, InCall
  <1>5. q \in CallType /\ q.pc = "regs" /\ q.i = o.i + 1 /\ q.lba = o.lba
    BY <1>2, <1>4 DEF CallType
  <1>6. call' = [call EXCEPT ![c] = q]
    BY <1>1, <1>2, <1>3, <1>4 DEF Types, CallType
  <1>7. dev.st = "ready" /\ o.lba \in Lbas /\ o.i \in Nat /\ o.i \in 0..(Parts - 1)
    BY <1>3, <1>4, Constants DEF CallOK, Follows, CallType
  <1>8. reg' \in [0..(Parts - 1) -> 0..(Base - 1)]
    BY <1>3, <1>4, <1>7, ByteType, Constants DEF Types
  <1>9. Follows(q)'
    <2>1. ASSUME NEW k \in 0..(Parts - 1), k < o.i + 1 PROVE reg'[k] = Byte(o.lba, k)
      <3>1. CASE k = o.i
        BY <1>3, <1>4, <1>7, <3>1 DEF Types
      <3>2. CASE k # o.i
        <4>1. k < o.i
          BY <1>7, <2>1, <3>2
        <4> QED BY <1>3, <1>4, <1>7, <3>2, <4>1 DEF Types, CallOK, Follows
      <3> QED BY <3>1, <3>2
    <2>2. o.i + 1 <= Parts
      BY <1>3, <1>7, Constants
    <2> QED BY <1>3, <1>5, <1>7, <2>1, <2>2 DEF Follows, Byte
  <1>10. ~Late(q) /\ ~Late(o)
    BY <1>4, <1>5 DEF Late
  <1>11. Goes(c, q)
    BY <1>1, <1>3, <1>4, <1>5, <1>6, <1>7, <1>8, <1>10 DEF Goes
  <1>12. Named(q)'
    BY <1>5 DEF Named
  <1> QED BY <1>3, <1>5, <1>9, <1>11, <1>12, Moves

\* The command: the drive is ready, so it takes it, for the sector the registers name.
LEMMA OutCommandKeepsInv == ASSUME Interruptible = {}, ATAInv, NEW c \in Clients, OutCommand(c) PROVE ATAInv'
  <1>1. PICK o : o = call[c]
    OBVIOUS
  <1>2. PICK q : q = [o EXCEPT !.pc = "drq", !.i = 0]
    OBVIOUS
  <1>3. /\ At(c, "regs") /\ o.i = Parts /\ UNCHANGED <<drive, reg, cache, platter, promised>>
        /\ dev' = IF BSY \/ DRQ THEN dev ELSE [Ready EXCEPT !.st = o.op, !.lba = LBA]
        /\ call' = [call EXCEPT ![c].pc = "drq", ![c].i = 0]
    BY <1>1 DEF OutCommand, Goto, Command
  <1>4. Types /\ CallOK(o) /\ o.pc = "regs" /\ o \in CallType /\ Alone(c)
    BY <1>1, <1>3, InCall
  <1>5. q \in CallType /\ q.pc = "drq" /\ q.i = 0 /\ q.lba = o.lba /\ q.op = o.op /\ q.buf = o.buf
    BY <1>2, <1>4 DEF CallType
  <1>6. call' = [call EXCEPT ![c] = q]
    BY <1>1, <1>2, <1>3, <1>4 DEF Types, CallType
  <1>7. dev.st = "ready" /\ o.lba \in Lbas /\ o.op \in {"read", "write"}
    BY <1>4 DEF CallOK, Follows, CallType
  <1>8. \A k \in 0..(Parts - 1) : reg[k] = Byte(o.lba, k)
    BY <1>3, <1>4, Constants DEF CallOK, Follows
  <1>9. LBA = o.lba
    BY <1>7, <1>8, LbaIs
  <1>10. dev' = [Ready EXCEPT !.st = o.op, !.lba = o.lba]
    BY <1>3, <1>7, <1>9 DEF BSY, DRQ
  <1>11. dev' \in DevType /\ dev'.st = o.op /\ dev'.lba = o.lba /\ dev'.pos = 0
    <2>1. Ready \in DevType /\ Ready.pos = 0
      BY ReadyIs DEF Ready
    <2> QED BY <1>7, <1>10, <2>1 DEF DevType
  <1>12. Types'
    <2>1. call' \in [Clients -> CallType]
      BY <1>4, <1>5, <1>6 DEF Types
    <2> QED BY <1>3, <1>4, <1>7, <1>11, <2>1 DEF Types
  <1>13. ~Late(o) /\ ~Late(q)
    BY <1>4, <1>5 DEF Late
  <1>14. \A l \in Lbas : Future(l)' = Future(l)
    BY <1>3, <1>7, <1>11 DEF Future, Stored
  <1>15. Holds(q)'
    BY <1>3, <1>4, <1>13, <1>14 DEF CallOK, Holds, Late
  <1>16. Durable(q)'
    BY <1>3, <1>4, <1>7, <1>11, <1>13 DEF CallOK, Durable, Late
  <1>17. Follows(q)'
    BY <1>5, <1>7, <1>11 DEF Follows
  <1>18. Named(q)'
    BY <1>3, <1>5, <1>8 DEF Named, Byte
  <1>19. CallOK(q)'
    BY <1>5, <1>7, <1>15, <1>16, <1>17, <1>18 DEF CallOK
  <1> QED BY <1>4, <1>5, <1>6, <1>12, <1>19, ClientStep

\* The drive asks for data.
LEMMA WaitDrqKeepsInv == ASSUME Interruptible = {}, ATAInv, NEW c \in Clients, WaitDrq(c) PROVE ATAInv'
  <1>1. PICK o : o = call[c]
    OBVIOUS
  <1>2. PICK q : q = [o EXCEPT !.pc = "data", !.i = 0]
    OBVIOUS
  <1>3. /\ At(c, "drq") /\ DRQ /\ UNCHANGED <<drive, reg, dev, cache, platter, promised>>
        /\ call' = [call EXCEPT ![c].pc = "data", ![c].i = 0]
    BY DEF WaitDrq, Goto
  <1>4. Types /\ CallOK(o) /\ o.pc = "drq" /\ o \in CallType
    BY <1>1, <1>3, InCall
  <1>5. q \in CallType /\ q.pc = "data" /\ q.i = 0 /\ q.lba = o.lba /\ q.op = o.op
    BY <1>2, <1>4 DEF CallType
  <1>6. call' = [call EXCEPT ![c] = q]
    BY <1>1, <1>2, <1>3, <1>4 DEF Types, CallType
  <1>7. /\ dev.st = IF o.op = "read" THEN "out" ELSE "in"
        /\ dev.lba = o.lba /\ dev.pos = 0 /\ o.lba \in Lbas /\ (o.op = "read" => dev.buf = promised[o.lba])
    BY <1>3, <1>4 DEF CallOK, Follows, DRQ
  <1>8. Follows(q)'
    <2>1. \A k \in Words : ~(k < 0)
      BY Constants
    <2> QED BY <1>3, <1>5, <1>7, <2>1 DEF Follows
  <1>9. reg' \in [0..(Parts - 1) -> 0..(Base - 1)] /\ ~Late(q) /\ ~Late(o)
    BY <1>3, <1>4, <1>5 DEF Types, Late
  <1>10. Goes(c, q)
    BY <1>1, <1>3, <1>4, <1>5, <1>6, <1>7, <1>9 DEF Goes
  <1>11. Named(q)'
    BY <1>3, <1>4, <1>5 DEF CallOK, Named, Byte
  <1> QED BY <1>3, <1>5, <1>8, <1>10, <1>11, Moves

\* The loop index after a word.
LEMMA NextWord ==
  ASSUME NEW i \in Words
  PROVE  /\ i # NWords - 1 => (i + 1) % NWords = i + 1 /\ i + 1 \in Words
         /\ (i + 1) % NWords \in Nat
         /\ i = NWords - 1 => \A k \in Words : k < i \/ k = i
  <1>1. i \in Nat /\ NWords \in Nat /\ NWords > 0 /\ i <= NWords - 1
    BY Constants DEF Words
  <1>2. \A x, n \in Nat : x < n => x % n = x
    OBVIOUS
  <1>3. i # NWords - 1 => (i + 1) % NWords = i + 1 /\ i + 1 \in Words
    BY <1>1, <1>2 DEF Words
  <1>4. (i + 1) % NWords \in Nat
    BY <1>1, DivMod
  <1>5. \A k \in Words : k \in Nat /\ k <= NWords - 1
    BY <1>1 DEF Words
  <1> QED BY <1>1, <1>3, <1>4, <1>5

\* A word is read.
LEMMA InWordKeepsInv == ASSUME Interruptible = {}, ATAInv, NEW c \in Clients, InWord(c) PROVE ATAInv'
  <1>1. PICK o : o = call[c]
    OBVIOUS
  <1>2. At(c, "data") /\ o.op = "read" /\ UNCHANGED <<drive, reg, cache, platter, promised>>
    BY <1>1 DEF InWord
  <1>3. Types /\ CallOK(o) /\ o.pc = "data" /\ o \in CallType /\ Alone(c)
    BY <1>1, <1>2, InCall
  <1>4. /\ dev.st = "out" /\ dev.lba = o.lba /\ dev.pos = o.i /\ dev.buf = promised[o.lba] /\ o.lba \in Lbas
        /\ \A k \in Words : k < o.i => o.buf[k] = dev.buf[k]
    BY <1>2, <1>3 DEF CallOK, Follows
  <1>5. o.i \in Words /\ dev \in DevType /\ dev.buf \in Sectors /\ o.buf \in Sectors
    BY <1>3, <1>4 DEF Types, DevType, CallType
  <1>6. PICK b : b = [o.buf EXCEPT ![o.i] = dev.buf[o.i]]
    OBVIOUS
  <1>7. PICK q : q = [o EXCEPT !.buf = b, !.i = (o.i + 1) % NWords,
                               !.pc = IF o.i = NWords - 1 THEN "return" ELSE o.pc]
    OBVIOUS
  <1>8. call' = [call EXCEPT ![c] = q]
    <2>1. call' = [call EXCEPT ![c].buf[o.i] = dev.buf[o.i], ![c].i = (o.i + 1) % NWords,
                               ![c].pc = IF o.i = NWords - 1 THEN "return" ELSE @]
      BY <1>1, <1>4 DEF InWord
    <2> QED BY <1>1, <1>3, <1>6, <1>7, <2>1 DEF Types, CallType
  <1>9. b \in Sectors /\ b[o.i] = dev.buf[o.i] /\ \A k \in Words : k # o.i => b[k] = o.buf[k]
    BY <1>5, <1>6 DEF Sectors
  <1>10. /\ q \in CallType /\ q.buf = b /\ q.i = (o.i + 1) % NWords /\ q.lba = o.lba /\ q.op = o.op
         /\ q.pc = IF o.i = NWords - 1 THEN "return" ELSE "data"
    <2>1. (o.i + 1) % NWords \in Nat
      BY <1>5, NextWord
    <2> QED BY <1>3, <1>7, <1>9, <2>1 DEF CallType
  <1>11. \A k \in Words : k < o.i \/ k = o.i => b[k] = dev.buf[k]
    BY <1>4, <1>5, <1>9, Constants
  <1>12. ~Late(o) /\ ~Late(q)
    BY <1>2, <1>3, <1>10 DEF Late
  <1>13. CASE o.i = NWords - 1
    <2>1. dev' = Ready
      BY <1>4, <1>13 DEF InWord
    <2>2. dev' \in DevType /\ dev'.st = "ready"
      BY <2>1, ReadyIs
    <2>3. b = promised[o.lba]
      <3>1. \A k \in Words : b[k] = dev.buf[k]
        BY <1>5, <1>11, <1>13, NextWord
      <3>2. b = dev.buf
        BY <1>5, <1>9, <3>1 DEF Sectors
      <3> QED BY <1>4, <3>2
    <2>4. Types'
      <3>1. call' \in [Clients -> CallType]
        BY <1>3, <1>8, <1>10 DEF Types
      <3> QED BY <1>2, <1>3, <2>2, <3>1 DEF Types
    <2>5. \A l \in Lbas : Future(l)' = Future(l)
      BY <1>2, <1>4, <2>2 DEF Future, Stored
    <2>6. Holds(q)'
      BY <1>2, <1>3, <1>12, <2>5 DEF CallOK, Holds, Late
    <2>7. Durable(q)'
      BY <1>2, <1>3, <1>12, <2>2 DEF CallOK, Durable, Late
    <2>8. Follows(q)'
      BY <1>2, <1>10, <1>13, <2>2, <2>3 DEF Follows
    <2>9. CallOK(q)'
      BY <1>4, <1>10, <1>13, <2>6, <2>7, <2>8 DEF CallOK, Named
    <2> QED BY <1>3, <1>8, <1>10, <2>4, <2>9, ClientStep
  <1>14. CASE o.i # NWords - 1
    <2>1. dev' = [dev EXCEPT !.pos = o.i + 1]
      BY <1>4, <1>5, <1>14 DEF InWord, DevType
    <2>2. (o.i + 1) % NWords = o.i + 1 /\ o.i + 1 \in Words
      BY <1>5, <1>14, NextWord
    <2>3. /\ dev' \in DevType /\ dev'.st = "out" /\ dev'.lba = dev.lba /\ dev'.pos = o.i + 1
          /\ dev'.buf = dev.buf
      BY <1>4, <1>5, <2>1, <2>2 DEF DevType
    <2>4. Types'
      <3>1. call' \in [Clients -> CallType]
        BY <1>3, <1>8, <1>10 DEF Types
      <3> QED BY <1>2, <1>3, <1>4, <2>3, <3>1 DEF Types
    <2>5. \A l \in Lbas : Future(l)' = Future(l)
      BY <1>2, <1>4, <2>3 DEF Future, Stored
    <2>6. Holds(q)'
      BY <1>2, <1>3, <1>12, <2>5 DEF CallOK, Holds, Late
    <2>7. Durable(q)'
      BY <1>2, <1>3, <1>12, <2>3 DEF CallOK, Durable, Late
    <2>8. \A k \in Words : k < o.i + 1 => b[k] = dev.buf[k]
      <3>1. \A k \in Words : k < o.i + 1 => k < o.i \/ k = o.i
        <4>1. o.i \in Nat /\ \A k \in Words : k \in Nat
          BY <1>5, Constants
        <4> QED BY <4>1
      <3> QED BY <1>11, <3>1
    <2>9. Follows(q)'
      BY <1>2, <1>4, <1>10, <1>14, <2>2, <2>3, <2>8 DEF Follows
    <2>10. CallOK(q)'
      BY <1>2, <1>3, <1>4, <1>10, <2>6, <2>7, <2>9 DEF CallOK, Named, Byte
    <2> QED BY <1>3, <1>8, <1>10, <2>4, <2>10, ClientStep
  <1> QED BY <1>13, <1>14

\* A word is written; with the last one the sector is the drive's.
LEMMA OutWordKeepsInv == ASSUME Interruptible = {}, ATAInv, NEW c \in Clients, OutWord(c) PROVE ATAInv'
  <1>1. PICK o : o = call[c]
    OBVIOUS
  <1>2. At(c, "data") /\ o.op = "write" /\ UNCHANGED <<drive, reg, platter, promised>>
    BY <1>1 DEF OutWord
  <1>3. Types /\ CallOK(o) /\ o.pc = "data" /\ o \in CallType /\ Alone(c)
    BY <1>1, <1>2, InCall
  <1>4. /\ dev.st = "in" /\ dev.lba = o.lba /\ dev.pos = o.i /\ o.lba \in Lbas
        /\ \A k \in Words : k < o.i => o.buf[k] = dev.buf[k]
    BY <1>2, <1>3 DEF CallOK, Follows
  <1>5. o.i \in Words /\ dev \in DevType /\ dev.buf \in Sectors /\ o.buf \in Sectors
    BY <1>3, <1>4 DEF Types, DevType, CallType
  <1>6. PICK b : b = [dev.buf EXCEPT ![o.i] = o.buf[o.i]]
    OBVIOUS
  <1>7. PICK q : q = [o EXCEPT !.i = (o.i + 1) % NWords, !.pc = IF o.i = NWords - 1 THEN "flush" ELSE o.pc]
    OBVIOUS
  <1>8. call' = [call EXCEPT ![c] = q]
    <2>1. call' = [call EXCEPT ![c].i = (o.i + 1) % NWords,
                               ![c].pc = IF o.i = NWords - 1 THEN "flush" ELSE @]
      BY <1>1 DEF OutWord, AfterData
    <2> QED BY <1>1, <1>3, <1>7, <2>1 DEF Types, CallType
  <1>9. b \in Sectors /\ b[o.i] = o.buf[o.i] /\ \A k \in Words : k # o.i => b[k] = dev.buf[k]
    BY <1>5, <1>6 DEF Sectors
  <1>10. /\ q \in CallType /\ q.buf = o.buf /\ q.i = (o.i + 1) % NWords /\ q.lba = o.lba /\ q.op = o.op
         /\ q.pc = IF o.i = NWords - 1 THEN "flush" ELSE "data"
    <2>1. (o.i + 1) % NWords \in Nat
      BY <1>5, NextWord
    <2> QED BY <1>3, <1>7, <2>1 DEF CallType
  <1>11. \A k \in Words : k < o.i \/ k = o.i => o.buf[k] = b[k]
    BY <1>4, <1>5, <1>9, Constants
  <1>12. PICK g : g = [dev EXCEPT !.buf[dev.pos] = o.buf[o.i], !.pos = dev.pos + 1]
    OBVIOUS
  <1>13. g.st = "in" /\ g.lba = o.lba /\ g.buf = b /\ g.pos = o.i + 1
    BY <1>4, <1>5, <1>6, <1>12 DEF DevType
  <1>14. /\ dev' = IF o.i # NWords - 1 THEN g
                   ELSE IF drive = "slow" THEN [g EXCEPT !.st = "store", !.pos = 0] ELSE Ready
         /\ cache' = IF o.i = NWords - 1 /\ drive = "quick" THEN Cached(o.lba, b) ELSE cache
    <2>1. [dev EXCEPT !.buf[dev.pos] = o.buf[o.i], !.pos = @ + 1] = g
      BY <1>12
    <2>2. dev' = IF dev.pos # NWords - 1 THEN g
                 ELSE IF drive = "slow" THEN [g EXCEPT !.st = "store", !.pos = 0] ELSE Ready
      BY <1>1, <1>4, <2>1 DEF OutWord
    <2>3. cache' = IF dev.pos = NWords - 1 /\ drive = "quick" THEN Cached(dev.lba, g.buf) ELSE cache
      <3>1. cache' = IF dev.st = "in" /\ dev.pos = NWords - 1 /\ drive = "quick"
                     THEN Cached(dev.lba, [dev EXCEPT !.buf[dev.pos] = call[c].buf[call[c].i], !.pos = @ + 1].buf)
                     ELSE cache
        BY Zenon DEF OutWord
      <3>2. g = [dev EXCEPT !.buf[dev.pos] = call[c].buf[call[c].i], !.pos = @ + 1]
        BY <1>1, <2>1
      <3> HIDE DEF Cached
      <3>3. [dev EXCEPT !.buf[dev.pos] = call[c].buf[call[c].i], !.pos = @ + 1].buf = g.buf
        BY <3>2
      <3>4. PICK h : h = [dev EXCEPT !.buf[dev.pos] = call[c].buf[call[c].i], !.pos = @ + 1].buf
        OBVIOUS
      <3>5. cache' = IF dev.st = "in" /\ dev.pos = NWords - 1 /\ drive = "quick" THEN Cached(dev.lba, h) ELSE cache
        BY <3>1, <3>4
      <3>6. h = g.buf
        BY <3>3, <3>4
      <3> QED BY <1>4, <3>5, <3>6
    <2> QED BY <1>4, <1>13, <2>2, <2>3
  <1>15. ~Late(o) /\ call' \in [Clients -> CallType]
    BY <1>3, <1>8, <1>10 DEF Late, Types
  <1>16. CASE o.i # NWords - 1
    <2>1. (o.i + 1) % NWords = o.i + 1 /\ o.i + 1 \in Words
      BY <1>5, <1>16, NextWord
    <2>2. dev' = g /\ cache' = cache /\ g \in DevType
      BY <1>5, <1>9, <1>12, <1>13, <1>14, <1>16, <2>1 DEF DevType
    <2>3. Types'
      BY <1>2, <1>3, <1>4, <1>13, <1>15, <2>2 DEF Types
    <2>4. \A l \in Lbas : Future(l)' = Future(l)
      BY <1>2, <1>4, <1>13, <2>2 DEF Future, Stored
    <2>5. ~Late(q)
      BY <1>10, <1>16 DEF Late
    <2>6. Holds(q)'
      BY <1>2, <1>3, <1>15, <2>4, <2>5 DEF CallOK, Holds, Late
    <2>7. Durable(q)'
      BY <1>2, <1>3, <1>13, <1>15, <2>2, <2>5 DEF CallOK, Durable, Late
    <2>8. \A k \in Words : k < o.i + 1 => o.buf[k] = b[k]
      <3>1. \A k \in Words : k < o.i + 1 => k < o.i \/ k = o.i
        <4>1. o.i \in Nat /\ \A k \in Words : k \in Nat
          BY <1>5, Constants
        <4> QED BY <4>1
      <3> QED BY <1>11, <3>1
    <2>9. Follows(q)'
      BY <1>2, <1>10, <1>13, <1>16, <2>1, <2>2, <2>8 DEF Follows
    <2>10. CallOK(q)'
      BY <1>2, <1>3, <1>4, <1>10, <2>6, <2>7, <2>9 DEF CallOK, Named, Byte
    <2> QED BY <1>3, <1>8, <1>10, <2>3, <2>10, ClientStep
  <1>17. ASSUME o.i = NWords - 1 PROVE b = o.buf /\ q.pc = "flush" /\ Late(q)
    <2>1. \A k \in Words : b[k] = o.buf[k]
      BY <1>5, <1>11, <1>17, NextWord
    <2>2. b = o.buf
      BY <1>5, <1>9, <2>1 DEF Sectors
    <2> QED BY <1>2, <1>10, <1>17, <2>2 DEF Late
  <1>18. \A l \in Lbas : Stored[l] = promised[l]
    BY <1>3, <1>4, <1>15 DEF CallOK, Holds, Future
  <1>19. CASE o.i = NWords - 1 /\ drive = "slow"
    <2>1. dev' = [g EXCEPT !.st = "store", !.pos = 0] /\ cache' = cache
      BY <1>14, <1>19
    <2>2. g = [dev EXCEPT !.buf = b, !.pos = dev.pos + 1]
      BY <1>4, <1>5, <1>6, <1>12 DEF DevType
    <2>3. dev' = [st |-> "store", lba |-> o.lba, pos |-> 0, buf |-> b]
      BY <1>4, <1>5, <2>1, <2>2 DEF DevType
    <2>4. dev' \in DevType /\ dev'.st = "store" /\ dev'.lba = o.lba /\ dev'.buf = b
      BY <1>4, <1>9, <2>3, Constants DEF DevType
    <2>5. Types'
      BY <1>2, <1>3, <1>4, <1>15, <2>1, <2>4 DEF Types
    <2>6. \A l \in Lbas : Stored'[l] = Stored[l]
      BY <1>2, <2>1 DEF Stored
    <2>7. \A l \in Lbas : Future(l)' = IF l = o.lba THEN b ELSE promised[l]
      BY <1>18, <2>4, <2>6 DEF Future
    <2>8. Holds(q)'
      BY <1>2, <1>10, <1>17, <1>19, <2>7 DEF Holds, Late
    <2>9. Durable(q)'
      BY <1>2, <1>19 DEF Durable
    <2>10. Follows(q)'
      BY <1>2, <1>10, <1>17, <1>19, <2>4 DEF Follows
    <2>11. CallOK(q)'
      BY <1>2, <1>3, <1>4, <1>10, <2>8, <2>9, <2>10 DEF CallOK, Named, Byte
    <2> QED BY <1>3, <1>8, <1>10, <2>5, <2>11, ClientStep
  <1>20. CASE o.i = NWords - 1 /\ drive = "quick"
    <2>1. dev' = Ready /\ cache' = Cached(o.lba, b)
      BY <1>14, <1>20
    <2>2. dev' \in DevType /\ dev'.st = "ready"
      BY <2>1, ReadyIs
    <2>3. /\ \A l \in Lbas : Stored'[l] = IF l = o.lba THEN b ELSE Stored[l]
          /\ DOMAIN cache' = DOMAIN cache \cup {o.lba} /\ cache' \in [DOMAIN cache' -> Sectors]
      BY <1>2, <1>3, <1>4, <1>9, <2>1, StoredSet
    <2>4. Types'
      BY <1>2, <1>3, <1>4, <1>15, <2>2, <2>3 DEF Types
    <2>5. \A l \in Lbas : Future(l)' = IF l = o.lba THEN b ELSE promised[l]
      BY <1>18, <2>2, <2>3 DEF Future
    <2>6. Holds(q)'
      BY <1>2, <1>10, <1>17, <1>20, <2>5 DEF Holds, Late
    <2>7. Durable(q)'
      <3> SUFFICES ASSUME LateBusy = FALSE PROVE Durable(q)'
        BY DEF Durable
      <3>1. cache = Nothing
        BY <1>3, <1>20 DEF CallOK, Durable
      <3>2. DOMAIN cache' = {o.lba}
        BY <2>3, <3>1, NothingIs
      <3>3. platter[o.lba] = promised[o.lba]
        <4>1. o.lba \notin DOMAIN cache
          BY <3>1, NothingIs
        <4> QED BY <1>4, <1>18, <4>1 DEF Stored
      <3> QED BY <1>2, <1>10, <1>17, <1>20, <2>2, <3>2, <3>3 DEF Durable
    <2>8. Follows(q)'
      BY <1>2, <1>10, <1>17, <1>20, <2>2 DEF Follows
    <2>9. CallOK(q)'
      BY <1>2, <1>3, <1>4, <1>10, <2>6, <2>7, <2>8 DEF CallOK, Named, Byte
    <2> QED BY <1>3, <1>8, <1>10, <2>4, <2>9, ClientStep
  <1>21. drive \in {"quick", "slow"}
    BY <1>3 DEF Types
  <1> QED BY <1>16, <1>19, <1>20, <1>21

\* The flush command.  The drive may still be busy with the last word, and then it ignores it.
LEMMA OutFlushKeepsInv == ASSUME Interruptible = {}, ATAInv, NEW c \in Clients, OutFlush(c) PROVE ATAInv'
  <1>1. PICK o : o = call[c]
    OBVIOUS
  <1>2. PICK q : q = [o EXCEPT !.pc = "sync", !.i = 0]
    OBVIOUS
  <1>3. /\ At(c, "flush") /\ UNCHANGED <<drive, reg, cache, platter, promised>>
        /\ dev' = IF BSY \/ DRQ THEN dev ELSE [Ready EXCEPT !.st = "flush", !.lba = LBA]
        /\ call' = [call EXCEPT ![c].pc = "sync", ![c].i = 0]
    BY DEF OutFlush, Goto, Command
  <1>4. Types /\ CallOK(o) /\ o.pc = "flush" /\ o \in CallType /\ Alone(c)
    BY <1>1, <1>3, InCall
  <1>5. q \in CallType /\ q.pc = "sync" /\ q.i = 0 /\ q.lba = o.lba /\ q.op = o.op /\ q.buf = o.buf
    BY <1>2, <1>4 DEF CallType
  <1>6. call' = [call EXCEPT ![c] = q]
    BY <1>1, <1>2, <1>3, <1>4 DEF Types, CallType
  <1>7. dev.st \in {"ready", "store"} /\ o.lba \in Lbas /\ o.op = "write"
    BY <1>4 DEF CallOK, Follows
  <1>8. Late(o) /\ Late(q)
    BY <1>4, <1>5, <1>7 DEF Late
  <1>9. LBA = o.lba
    <2>1. \A k \in 0..(Parts - 1) : reg[k] = Byte(o.lba, k)
      BY <1>4 DEF CallOK, Named
    <2> QED BY <1>7, <2>1, LbaIs
  <1>10. /\ dev' \in DevType /\ (dev'.st \notin {"ready", "flush"} => dev'.lba \in Lbas)
         /\ IF dev.st = "store" THEN dev' = dev ELSE dev'.st = "flush"
    <2>1. CASE dev.st = "store"
      <3>1. dev' = dev
        BY <1>3, <2>1 DEF BSY
      <3> QED BY <1>4, <2>1, <3>1 DEF Types
    <2>2. CASE dev.st = "ready"
      <3>1. dev' = [Ready EXCEPT !.st = "flush", !.lba = o.lba]
        BY <1>3, <1>9, <2>2 DEF BSY, DRQ
      <3>2. Ready \in DevType
        BY ReadyIs
      <3>3. dev' \in DevType /\ dev'.st = "flush"
        BY <1>7, <3>1, <3>2 DEF DevType
      <3> QED BY <2>2, <3>3
    <2> QED BY <1>7, <2>1, <2>2
  <1>11. Types'
    <2>1. call' \in [Clients -> CallType]
      BY <1>4, <1>5, <1>6 DEF Types
    <2> QED BY <1>3, <1>4, <1>10, <2>1 DEF Types
  <1>12. \A l \in Lbas : Future(l)' = Future(l)
    BY <1>3, <1>7, <1>10 DEF Future, Stored
  <1>13. Holds(q)'
    BY <1>3, <1>4, <1>5, <1>8, <1>12 DEF CallOK, Holds, Late
  <1>14. Durable(q)'
    BY <1>3, <1>4, <1>5, <1>7, <1>8, <1>10 DEF CallOK, Durable, Late
  <1>15. Follows(q)'
    BY <1>5, <1>7, <1>10 DEF Follows
  <1>16. CallOK(q)'
    BY <1>5, <1>7, <1>13, <1>14, <1>15 DEF CallOK, Named
  <1> QED BY <1>4, <1>5, <1>6, <1>11, <1>16, ClientStep

\* The drive is no longer busy, or does not show it yet.
LEMMA WaitFlushedKeepsInv == ASSUME Interruptible = {}, ATAInv, NEW c \in Clients, WaitFlushed(c) PROVE ATAInv'
  <1>1. PICK o : o = call[c]
    OBVIOUS
  <1>2. PICK q : q = [o EXCEPT !.pc = "return", !.i = 0]
    OBVIOUS
  <1>3. /\ At(c, "sync") /\ (~BSY \/ LateBusy) /\ UNCHANGED <<drive, reg, dev, cache, platter, promised>>
        /\ call' = [call EXCEPT ![c].pc = "return", ![c].i = 0]
    BY DEF WaitFlushed, Goto
  <1>4. Types /\ CallOK(o) /\ o.pc = "sync" /\ o \in CallType /\ Alone(c)
    BY <1>1, <1>3, InCall
  <1>5. q \in CallType /\ q.pc = "return" /\ q.i = 0 /\ q.lba = o.lba /\ q.op = o.op /\ q.buf = o.buf
    BY <1>2, <1>4 DEF CallType
  <1>6. call' = [call EXCEPT ![c] = q]
    BY <1>1, <1>2, <1>3, <1>4 DEF Types, CallType
  <1>7. dev.st \in {"ready", "store", "flush"} /\ o.lba \in Lbas /\ o.op = "write"
    BY <1>4 DEF CallOK, Follows
  <1>8. Late(o) /\ Late(q)
    BY <1>4, <1>5, <1>7 DEF Late
  <1>9. Types'
    <2>1. call' \in [Clients -> CallType]
      BY <1>4, <1>5, <1>6 DEF Types
    <2> QED BY <1>3, <1>4, <2>1 DEF Types
  <1>10. \A l \in Lbas : Future(l)' = Future(l)
    BY <1>3 DEF Future, Stored
  <1>11. Holds(q)'
    BY <1>3, <1>4, <1>5, <1>8, <1>10 DEF CallOK, Holds, Late
  <1>12. Durable(q)'
    <2> SUFFICES ASSUME drive = "quick", LateBusy = FALSE PROVE Durable(q)'
      BY <1>3 DEF Durable
    <2>1. dev.st = "ready"
      BY <1>3, <1>7 DEF BSY
    <2>2. cache = Nothing
      BY <1>4, <2>1 DEF CallOK, Durable
    <2> QED BY <1>3, <1>4, <1>5, <1>8, <2>1, <2>2 DEF CallOK, Durable, Late
  <1>13. Follows(q)'
    BY <1>3, <1>5, <1>7 DEF Follows
  <1>14. CallOK(q)'
    BY <1>5, <1>7, <1>11, <1>12, <1>13 DEF CallOK, Named
  <1> QED BY <1>4, <1>5, <1>6, <1>9, <1>14, ClientStep

\* A call returns, and what it has written is promised from then on.
LEMMA ReturnKeepsInv == ASSUME Interruptible = {}, ATAInv, NEW c \in Clients, Return(c) PROVE ATAInv'
  <1>1. PICK o : o = call[c]
    OBVIOUS
  <1>2. PICK q : q = NoCall
    OBVIOUS
  <1>3. /\ At(c, "return") /\ UNCHANGED <<drive, reg, dev, cache, platter>> /\ call' = [call EXCEPT ![c] = q]
        /\ promised' = IF o.op = "write" THEN [promised EXCEPT ![o.lba] = o.buf] ELSE promised
    BY <1>1, <1>2 DEF Return
  <1>4. Types /\ CallOK(o) /\ o.pc = "return" /\ o \in CallType /\ Alone(c)
    BY <1>1, <1>3, InCall
  <1>5. q \in CallType /\ q.pc = "idle" /\ q.op = "read" /\ ~Late(q)
    BY <1>2, ReadyIs DEF Late
  <1>6. /\ dev.st \in {"ready", "store", "flush"} /\ o.lba \in Lbas /\ o.buf \in Sectors
        /\ (Late(o) <=> o.op = "write")
    BY <1>4 DEF CallOK, Follows, CallType, Late
  <1>7. /\ promised' \in [Lbas -> Sectors]
        /\ \A l \in Lbas : promised'[l] = IF o.op = "write" /\ l = o.lba THEN o.buf ELSE promised[l]
    BY <1>3, <1>4, <1>6 DEF Types
  <1>8. Types'
    <2>1. call' \in [Clients -> CallType]
      BY <1>3, <1>4, <1>5 DEF Types
    <2> QED BY <1>3, <1>4, <1>7, <2>1 DEF Types
  <1>9. \A l \in Lbas : Future(l)' = Future(l)
    BY <1>3 DEF Future, Stored
  <1>10. Holds(q)'
    BY <1>4, <1>5, <1>6, <1>7, <1>9 DEF CallOK, Holds, Late
  <1>11. Durable(q)'
    BY <1>3, <1>4, <1>5 DEF CallOK, Durable, Late
  <1>12. Follows(q)'
    BY <1>3, <1>5, <1>6 DEF Follows
  <1>13. CallOK(q)'
    BY <1>5, <1>10, <1>11, <1>12 DEF CallOK, Named
  <1> QED BY <1>3, <1>4, <1>5, <1>8, <1>13, ClientStep

-----------------------------------------------------------------------------
(* The theorems *)

\* A step of nobody.
LEMMA Stutters == ASSUME ATAInv, UNCHANGED vars PROVE ATAInv'
  <1>1. UNCHANGED <<drive, reg, dev, cache, platter, call, promised>>
    BY DEF vars
  <1>2. Types'
    BY <1>1 DEF ATAInv, Types
  <1>3. \A l \in Lbas : Future(l)' = Future(l)
    BY <1>1 DEF Future, Stored
  <1>4. ASSUME NEW o \in CallType, CallOK(o) PROVE CallOK(o)'
    <2>1. Follows(o)'
      BY <1>1, <1>4 DEF CallOK, Follows, Byte
    <2>2. Named(o)'
      BY <1>1, <1>4 DEF CallOK, Named, Byte
    <2>3. Holds(o)'
      BY <1>1, <1>3, <1>4 DEF CallOK, Holds, Late
    <2>4. Durable(o)'
      BY <1>1, <1>4 DEF CallOK, Durable, Late
    <2> QED BY <1>4, <2>1, <2>2, <2>3, <2>4 DEF CallOK
  <1> QED BY <1>1, <1>2, <1>4, DriveStep

\* Every step keeps the invariant.
LEMMA ATANext == ASSUME Interruptible = {}, ATAInv, [Next]_vars PROVE ATAInv'
  <1>1. CASE UNCHANGED vars
    BY <1>1, Stutters
  <1>2. CASE DriveDone
    BY <1>2, DriveDoneKeepsInv
  <1>3. CASE Destage
    BY <1>3, DestageKeepsInv
  <1>4. CASE PowerLoss
    BY <1>4, PowerLossKeepsInv
  <1>5. ASSUME NEW c \in Clients, NEW l \in Lbas, Begin(c, "read", l, Zeroes) PROVE ATAInv'
    BY <1>5, BeginKeepsInv, Constants
  <1>6. ASSUME NEW c \in Clients, NEW l \in Lbas, NEW s \in Sectors, Begin(c, "write", l, s) PROVE ATAInv'
    BY <1>6, BeginKeepsInv
  <1>7. ASSUME NEW c \in Clients, Step(c) PROVE ATAInv'
    BY <1>7, WaitReadyKeepsInv, OutByteKeepsInv, OutCommandKeepsInv, WaitDrqKeepsInv, InWordKeepsInv,
       OutWordKeepsInv, OutFlushKeepsInv, WaitFlushedKeepsInv, ReturnKeepsInv DEF Step
  <1> QED BY <1>1, <1>2, <1>3, <1>4, <1>5, <1>6, <1>7 DEF Next

\* When no transfer is interrupted by another one, the drive and its platter are always where
\* the one call in ata_read_sector or ata_write_sector has brought them.
THEOREM ATASafe == ASSUME Interruptible = {} PROVE Spec => []ATAInv
  <1>1. Init => ATAInv
    BY ATAInit
  <1>2. ATAInv /\ [Next]_vars => ATAInv'
    BY ATANext
  <1> QED BY <1>1, <1>2, PTL DEF Spec

\* A read that is about to return has, word for word, what is promised: the 256 words of
\* ata_read_sector are those of the sector its four LBA bytes name, in order, and neither
\* the drive's cache nor power loss in between can be seen in them.
THEOREM ReadsAlwaysStored == ASSUME Interruptible = {} PROVE Spec => []ReadsStored
  <1>1. ATAInv => ReadsStored
    <2> SUFFICES ASSUME ATAInv PROVE ReadsStored
      OBVIOUS
    <2>1. TypeOK
      BY DEF ATAInv, Types, DevType, CallType, TypeOK
    <2>2. ASSUME NEW c \in Clients, call[c].pc = "return", call[c].op = "read"
          PROVE  call[c].buf = promised[call[c].lba]
      <3>1. PICK d \in Clients : Alone(d)
        BY DEF ATAInv
      <3>2. d = c
        BY <2>2, <3>1 DEF Alone
      <3>3. PICK o : o = call[c]
        OBVIOUS
      <3>4. CallOK(o)
        BY <3>1, <3>2, <3>3 DEF ATAInv
      <3>5. o.buf = promised[o.lba]
        BY <2>2, <3>3, <3>4 DEF CallOK, Follows
      <3> QED BY <3>3, <3>5
    <2> QED BY <2>1, <2>2 DEF ReadsStored
  <1>2. Spec => []ATAInv
    BY ATASafe
  <1> QED BY <1>1, <1>2, PTL

\* No drive loses or misplaces a sector while power lasts, whether it has taken the last
\* word by the flush or not and however late it shows BSY.
THEOREM AlwaysKept == ASSUME Interruptible = {} PROVE Spec => []KeptUntilPowerLoss
  <1>1. ATAInv => KeptUntilPowerLoss
    <2> SUFFICES ASSUME ATAInv, NEW l \in Lbas
                 PROVE  \/ \E c \in Clients : Sent(c) /\ call[c].lba = l /\ Future(l) = call[c].buf
                        \/ Future(l) = promised[l] /\ \A c \in Clients : Sent(c) => call[c].lba # l
      BY DEF KeptUntilPowerLoss
    <2>1. PICK d \in Clients : Alone(d)
      BY DEF ATAInv
    <2>2. PICK o : o = call[d]
      OBVIOUS
    <2>3. Future(l) = IF Late(o) /\ l = o.lba THEN o.buf ELSE promised[l]
      BY <2>1, <2>2 DEF ATAInv, CallOK, Holds
    <2>4. \A c \in Clients : Sent(c) => c = d
      BY <2>1 DEF Alone, Sent
    <2>5. Sent(d) <=> Late(o)
      BY <2>2 DEF Sent, Late
    <2> QED BY <2>2, <2>3, <2>4, <2>5
  <1>2. Spec => []ATAInv
    BY ATASafe
  <1> QED BY <1>1, <1>2, PTL

\* If every drive had taken the last word when the flush command comes and showed BSY in
\* time, the sector ata_write_sector has returned for would be on the platter: the missing
\* wait before the flush (ata.cpp:44) is all that stands against it.
THEOREM DurableIfFlushTaken ==
  ASSUME Interruptible = {}, LateBusy = FALSE, Drives \subseteq {"quick"}
  PROVE  Spec => []WrittenIsDurable
  <1>0. Init => drive = "quick"
    BY DEF Init
  <1>3. drive = "quick" /\ [Next]_vars => (drive = "quick")'
    BY DEF Next, DriveDone, Destage, PowerLoss, Begin, Step, WaitReady, OutByte, OutCommand, WaitDrq,
       InWord, OutWord, OutFlush, WaitFlushed, Return, vars
  <1>1. ATAInv /\ drive = "quick" => WrittenIsDurable
    <2> SUFFICES ASSUME ATAInv, drive = "quick", NEW l \in Lbas
                 PROVE  \/ platter[l] = promised[l]
                        \/ \E c \in Clients : Sent(c) /\ call[c].lba = l /\ platter[l] = call[c].buf
      BY DEF WrittenIsDurable
    <2>1. PICK d \in Clients : Alone(d)
      BY DEF ATAInv
    <2>2. PICK o : o = call[d]
      OBVIOUS
    <2>3. CallOK(o)
      BY <2>1, <2>2 DEF ATAInv
    <2>4. CASE Late(o) /\ l = o.lba
      <3>1. platter[l] = promised[l] \/ platter[l] = o.buf
        BY <2>3, <2>4 DEF CallOK, Durable
      <3> QED BY <2>2, <2>4, <3>1 DEF Late, Sent
    <2>5. CASE ~(Late(o) /\ l = o.lba)
      <3>1. Stored[l] = promised[l]
        BY <2>3, <2>5 DEF CallOK, Holds, Durable, Future
      <3>2. l \notin DOMAIN cache
        <4>1. CASE cache = Nothing
          BY <4>1, NothingIs
        <4>2. CASE cache # Nothing
          <5>1. Late(o) /\ DOMAIN cache = {o.lba}
            BY <2>3, <4>2 DEF CallOK, Durable, Late
          <5> QED BY <2>5, <5>1
        <4> QED BY <4>1, <4>2
      <3> QED BY <3>1, <3>2 DEF Stored
    <2> QED BY <2>4, <2>5
  <1>2. Spec => []ATAInv
    BY ATASafe
  <1> QED BY <1>0, <1>1, <1>2, <1>3, PTL DEF Spec
=============================================================================

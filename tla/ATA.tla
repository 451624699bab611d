-------------------------------- MODULE ATA --------------------------------
(***************************************************************************)
(* ata_read_sector and ata_write_sector, drivers/ata.cpp, port access by   *)
(* port access, and the drive behind the ports as far as they use it.      *)
(*                                                                         *)
(* The drive is busy (BSY) after a command, then asks for data (DRQ) or is *)
(* ready.  It ignores a command while it is busy or asks for data.  What   *)
(* is written goes to its cache first; power loss empties that.  A "slow"  *)
(* drive is still busy with the last word when the flush command comes, a  *)
(* "quick" one is not.  It never ends a command with ERR.  A system call   *)
(* does its transfer with IF = 0; an Interruptible client, the shell, can  *)
(* lose the processor in between.                                          *)
(***************************************************************************)
EXTENDS Integers

CONSTANTS
  Base, Parts,    \* an LBA is Parts registers of Base values (4 of 256)
  Weight,         \* what register k counts in it: the shifts of the code, 2^(8k)
  NWords,         \* words of a sector (256)
  Lbas, Values,   \* sectors and words
  Clients, Interruptible,
  Drives,         \* {"quick"}, {"slow"} or both
  LateBusy        \* whether BSY may show too late for the next status read

ASSUME ATAAssumption ==
  /\ Base \in Nat \ {0, 1} /\ Parts \in Nat \ {0} /\ NWords \in Nat \ {0}
  /\ Weight \in [0..Parts -> Nat \ {0}] /\ Weight[0] = 1
  /\ \A k \in 0..(Parts - 1) : Weight[k + 1] = Base * Weight[k]
  /\ Lbas \subseteq 0..(Weight[Parts] - 1) /\ 0 \in Values
  /\ Clients # {} /\ Interruptible \subseteq Clients /\ Drives \subseteq {"quick", "slow"} /\ LateBusy \in BOOLEAN

Words == 0..(NWords - 1)
Sectors == [Words -> Values]
Zeroes == [w \in Words |-> 0]
Nothing == [l \in {} |-> Zeroes]

VARIABLES
  drive,     \* which kind it is
  reg,       \* the LBA registers, 0x1F3 to 0x1F6
  dev,       \* what the drive does: state, sector, next word, its buffer
  cache,     \* sectors written and not yet on the platter
  platter,
  call,      \* the call each client is in: place, kind, lba, buffer, loop index
  promised   \* history: the contents the calls that returned have stored

vars == <<drive, reg, dev, cache, platter, call, promised>>

NoCall == [pc |-> "idle", op |-> "read", lba |-> 0, buf |-> Zeroes, i |-> 0]
Ready == [st |-> "ready", lba |-> 0, pos |-> 0, buf |-> Zeroes]

Init ==
  /\ drive \in Drives
  /\ reg = [k \in 0..(Parts - 1) |-> 0]
  /\ dev = Ready
  /\ cache = Nothing
  /\ platter = [l \in Lbas |-> Zeroes]
  /\ call = [c \in Clients |-> NoCall]
  /\ promised = platter

-----------------------------------------------------------------------------
(* The drive *)

BSY == dev.st \in {"read", "write", "store", "flush"}
DRQ == dev.st \in {"out", "in"}

\* The k-th byte of an LBA, and the LBA whose bytes are in the registers.
Byte(l, k) == (l \div Weight[k]) % Base
LBA == CHOOSE l \in 0..(Weight[Parts] - 1) : \A k \in 0..(Parts - 1) : Byte(l, k) = reg[k]

\* What a read finds, and the cache once sector l has been written.
Stored == [l \in Lbas |-> IF l \in DOMAIN cache THEN cache[l] ELSE platter[l]]
Cached(l, buf) == [k \in DOMAIN cache \cup {l} |-> IF k = l THEN buf ELSE cache[k]]

\* A write to the command register.
Command(cmd) == dev' = IF BSY \/ DRQ THEN dev ELSE [Ready EXCEPT !.st = cmd, !.lba = LBA]

\* The drive has done what it was busy with, without an error.
DriveDone ==
  /\ BSY
  /\ dev' = CASE dev.st = "read" -> [dev EXCEPT !.st = "out", !.buf = Stored[dev.lba]]
              [] dev.st = "write" -> [dev EXCEPT !.st = "in"]
              [] OTHER -> Ready
  /\ platter' = IF dev.st = "flush" THEN Stored ELSE platter
  /\ cache' = CASE dev.st = "flush" -> Nothing
                [] dev.st = "store" -> Cached(dev.lba, dev.buf)
                [] OTHER -> cache
  /\ UNCHANGED <<drive, reg, call, promised>>

\* It may empty its cache by itself.
Destage ==
  /\ cache # Nothing
  /\ platter' = Stored /\ cache' = Nothing
  /\ UNCHANGED <<drive, reg, dev, call, promised>>

PowerLoss ==
  /\ cache' = Nothing /\ dev' = Ready
  /\ call' = [c \in Clients |-> NoCall] /\ promised' = platter
  /\ reg' = [k \in DOMAIN reg |-> 0]
  /\ UNCHANGED <<drive, platter>>

-----------------------------------------------------------------------------
(* ata_read_sector and ata_write_sector *)

At(c, pc) ==
  /\ call[c].pc = pc
  /\ \A d \in Clients \ (Interruptible \cup {c}) : call[d].pc = "idle"

Goto(c, pc) == call' = [call EXCEPT ![c].pc = pc, ![c].i = 0]

Begin(c, op, l, data) ==
  /\ At(c, "idle")
  /\ call' = [call EXCEPT ![c] = [NoCall EXCEPT !.pc = "wait", !.op = op, !.lba = l, !.buf = data]]
  /\ UNCHANGED <<drive, reg, dev, cache, platter, promised>>

\* ata_wait_ready.
WaitReady(c) ==
  /\ At(c, "wait") /\ ~BSY
  /\ Goto(c, "regs")
  /\ UNCHANGED <<drive, reg, dev, cache, platter, promised>>

\* Mutant of OutByte: the bytes go to the registers in the wrong order.
OutByteReversed(c) ==
  LET i == call[c].i
  IN /\ At(c, "regs") /\ i < Parts
     /\ reg' = [reg EXCEPT ![i] = Byte(call[c].lba, Parts - 1 - i)]
     /\ call' = [call EXCEPT ![c].i = i + 1]
     /\ UNCHANGED <<drive, dev, cache, platter, promised>>

\* One byte of the LBA, then the command.  The top register is a digit like the others
\* here: its four bits of address, and 0xE0 for the device, only bound the sectors.
OutByte(c) ==
  LET i == call[c].i
  IN /\ At(c, "regs") /\ i < Parts
     /\ reg' = [reg EXCEPT ![i] = Byte(call[c].lba, i)]
     /\ call' = [call EXCEPT ![c].i = i + 1]
     /\ UNCHANGED <<drive, dev, cache, platter, promised>>

OutCommand(c) ==
  /\ At(c, "regs") /\ call[c].i = Parts
  /\ Command(call[c].op)
  /\ Goto(c, "drq")
  /\ UNCHANGED <<drive, reg, cache, platter, promised>>

\* Mutant of WaitDrq: the status is not read.
WaitDrqNot(c) ==
  /\ At(c, "drq")
  /\ Goto(c, "data")
  /\ UNCHANGED <<drive, reg, dev, cache, platter, promised>>

\* The two loops on the status register: until BSY is 0, then until DRQ is 1.
WaitDrq(c) ==
  /\ At(c, "drq") /\ DRQ
  /\ Goto(c, "data")
  /\ UNCHANGED <<drive, reg, dev, cache, platter, promised>>

\* inw(0x1F0): the next word while the drive offers one, otherwise anything.
InWord(c) ==
  LET i == call[c].i
      last == dev.pos = NWords - 1
  IN /\ At(c, "data") /\ call[c].op = "read"
     /\ \E v \in IF dev.st = "out" THEN {dev.buf[dev.pos]} ELSE Values :
          call' = [call EXCEPT ![c].buf[i] = v, ![c].i = (i + 1) % NWords,
                               ![c].pc = IF i = NWords - 1 THEN "return" ELSE @]
     /\ dev' = IF dev.st # "out" THEN dev ELSE IF last THEN Ready ELSE [dev EXCEPT !.pos = @ + 1]
     /\ UNCHANGED <<drive, reg, cache, platter, promised>>

\* Where ata_write_sector goes after its last word.
AfterData == "flush"

\* outw(0x1F0).  With the last word the sector goes to the cache, at once or busily.
OutWord(c) ==
  LET i == call[c].i
      got == [dev EXCEPT !.buf[dev.pos] = call[c].buf[i], !.pos = @ + 1]
      last == dev.pos = NWords - 1
  IN /\ At(c, "data") /\ call[c].op = "write"
     /\ call' = [call EXCEPT ![c].i = (i + 1) % NWords,
                             ![c].pc = IF i = NWords - 1 THEN AfterData ELSE @]
     /\ dev' = IF dev.st # "in" THEN dev ELSE IF ~last THEN got
               ELSE IF drive = "slow" THEN [got EXCEPT !.st = "store", !.pos = 0] ELSE Ready
     /\ cache' = IF dev.st = "in" /\ last /\ drive = "quick"
                 THEN Cached(dev.lba, got.buf) ELSE cache
     /\ UNCHANGED <<drive, reg, platter, promised>>

OutFlush(c) ==
  /\ At(c, "flush")
  /\ Command("flush")
  /\ Goto(c, "sync")
  /\ UNCHANGED <<drive, reg, cache, platter, promised>>

\* Mutant of WaitFlushed: it waits for DRQ, as after the other commands.
WaitFlushedDrq(c) ==
  /\ At(c, "sync") /\ DRQ
  /\ Goto(c, "return")
  /\ UNCHANGED <<drive, reg, dev, cache, platter, promised>>

\* ata_wait_ready again.
WaitFlushed(c) ==
  /\ At(c, "sync") /\ (~BSY \/ LateBusy)
  /\ Goto(c, "return")
  /\ UNCHANGED <<drive, reg, dev, cache, platter, promised>>

Return(c) ==
  /\ At(c, "return")
  /\ promised' = IF call[c].op = "write" THEN [promised EXCEPT ![call[c].lba] = call[c].buf]
                 ELSE promised
  /\ call' = [call EXCEPT ![c] = NoCall]
  /\ UNCHANGED <<drive, reg, dev, cache, platter>>

Step(c) ==
  \/ WaitReady(c) \/ OutByte(c) \/ OutCommand(c) \/ WaitDrq(c) \/ InWord(c) \/ OutWord(c)
  \/ OutFlush(c) \/ WaitFlushed(c) \/ Return(c)

Next ==
  \/ DriveDone \/ Destage \/ PowerLoss
  \/ \E c \in Clients :
       \/ \E l \in Lbas : Begin(c, "read", l, Zeroes) \/ \E s \in Sectors : Begin(c, "write", l, s)
       \/ Step(c)

\* The drive finishes what it does, and a client in the driver gets the processor.
Spec == Init /\ [][Next]_vars /\ WF_vars(DriveDone) /\ \A c \in Clients : WF_vars(Step(c))

-----------------------------------------------------------------------------
(* Properties *)

TypeOK ==
  /\ reg \in [0..(Parts - 1) -> 0..(Base - 1)]
  /\ dev.st \in {"ready", "read", "out", "write", "in", "store", "flush"}
  /\ dev.lba \in Lbas \cup {0} /\ dev.pos \in Words /\ dev.buf \in Sectors
  /\ DOMAIN cache \subseteq Lbas /\ platter \in [Lbas -> Sectors] /\ promised \in [Lbas -> Sectors]
  /\ \A c \in Clients : call[c].buf \in Sectors

\* A read returns, word for word, what the last write of that sector that returned has
\* stored, whatever the cache has kept or lost in between.
ReadsStored ==
  /\ TypeOK
  /\ \A c \in Clients : call[c].pc = "return" /\ call[c].op = "read" =>
    call[c].buf = promised[call[c].lba]

\* What sector l will hold once the drive has stored what it is busy with, and a write
\* whose sector has left the driver.
Future(l) == IF dev.st = "store" /\ l = dev.lba THEN dev.buf ELSE Stored[l]
Sent(c) == call[c].op = "write" /\ call[c].pc \in {"flush", "sync", "return"}

\* While power lasts no drive, quick or slow, loses or misplaces a sector: it holds every
\* sector as the last write of it that returned left it, or as the one under way sent it.
KeptUntilPowerLoss ==
  \A l \in Lbas :
    \/ \E c \in Clients : Sent(c) /\ call[c].lba = l /\ Future(l) = call[c].buf
    \/ Future(l) = promised[l] /\ \A c \in Clients : Sent(c) => call[c].lba # l

\* The flush forces the sector onto the platter at once (ata.cpp:43), so power loss leaves
\* what ata_write_sector has returned for; during the write the platter has the old or the
\* new contents.
WrittenIsDurable ==
  \A l \in Lbas :
    \/ platter[l] = promised[l]
    \/ \E c \in Clients : Sent(c) /\ call[c].lba = l /\ platter[l] = call[c].buf

\* No loop on the status register waits for ever.
CallsReturn == \A c \in Clients : (call[c].pc # "idle") ~> (call[c].pc = "idle")
=============================================================================

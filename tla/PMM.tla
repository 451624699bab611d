-------------------------------- MODULE PMM --------------------------------
(***************************************************************************)
(* The physical page allocator, mm/pmm.cpp: the bitmap that init_pmm       *)
(* builds from the Multiboot memory map, pmm_alloc_page, pmm_free_page and *)
(* the counter behind the meminfo statistics.  memory_bitmap is the set    *)
(* `used' of page numbers whose bit is 1.                                  *)
(*                                                                         *)
(* pmm_alloc_page searches and marks in two steps.  A client entered       *)
(* through an interrupt or syscall gate does both with IF = 0; the shell   *)
(* calls it (through kmalloc and exec) with IF = 1.                        *)
(***************************************************************************)
EXTENDS Naturals, Sequences, FiniteSets

CONSTANTS
  PageSize,       \* PAGE_SIZE, in address units
  WordBits,       \* pages per bitmap word (32)
  MaxPages,       \* MAX_PAGES; 2^32 addresses are MaxPages * PageSize
  LowEnd,         \* 0x100000
  KernelEnd,      \* &kernel_end
  Fallback,       \* memory size without Multiboot information
  Boots,          \* what the boot loader may report
  Clients,        \* callers of the allocator
  Interruptible   \* the clients another client can interrupt in the middle

AddrMod == MaxPages * PageSize
Pages == 0..(MaxPages - 1)

\* A report: mem is MULTIBOOT_INFO_MEMORY with upper = mem_upper, map the E820
\* entries (empty without MULTIBOOT_INFO_MEM_MAP), with 64-bit base and len.
ASSUME PMMAssumption ==
  /\ PageSize \in Nat \ {0} /\ WordBits \in Nat \ {0} /\ MaxPages \in Nat \ {0}
  /\ LowEnd \in Nat /\ KernelEnd \in Nat /\ LowEnd < KernelEnd /\ Fallback \in Nat
  /\ LowEnd + PageSize <= AddrMod
  /\ Interruptible \subseteq Clients
  /\ \A b \in Boots :
       /\ b.mem \in BOOLEAN /\ b.upper \in Nat
       /\ b.map \in Seq([base : Nat, len : Nat, avail : BOOLEAN])

VARIABLES
  boot,                \* the report this machine started with
  step,                \* init_pmm: next map entry; 0 once it has returned
  total_memory_pages,
  used,                \* memory_bitmap
  used_memory_pages,
  found,               \* pmm_alloc_page's free_page, between search and marking
  null,                \* clients whose last call returned 0
  grants,              \* history: pages each client holds
  raced                \* history: a search began between another's search and marking

bitmapVars == <<used, used_memory_pages>>
vars == <<boot, step, total_memory_pages, bitmapVars, found, null, grants, raced>>

Managed == 0..(total_memory_pages - 1)

\* bitmap_unset and bitmap_set on every page of S.
UnsetAll(S) ==
  LET hit == S \cap used \cap Managed
  IN /\ used' = used \ hit
     /\ used_memory_pages' = used_memory_pages - Cardinality(hit)

\* Mutant of SetAll: the bit is not tested before counting.
SetAllBlind(S) ==
  LET hit == S \cap Managed
  IN /\ used' = used \cup hit
     /\ used_memory_pages' = used_memory_pages + Cardinality(hit)

SetAll(S) ==
  LET hit == (S \cap Managed) \ used
  IN /\ used' = used \cup hit
     /\ used_memory_pages' = used_memory_pages + Cardinality(hit)

-----------------------------------------------------------------------------
(* init_pmm *)

\* memory_size_kb, in address units.
MemorySize(b) == IF b.mem THEN LowEnd + b.upper ELSE Fallback

\* Mutant of TotalPages: the whole address space is managed.
TotalPagesAll(b) == MaxPages

TotalPages(b) ==
  LET n == (MemorySize(b) % AddrMod) \div PageSize
  IN IF n > MaxPages THEN MaxPages ELSE n

Init ==
  /\ boot \in Boots
  /\ step = 1
  /\ total_memory_pages = TotalPages(boot)
  /\ used = Pages
  /\ used_memory_pages = total_memory_pages
  /\ found = [c \in Clients |-> {}]
  /\ null = {}
  /\ grants = [c \in Clients |-> {}]
  /\ raced = FALSE

\* The pages of pmm_mark_region_free: only those wholly inside the region.
InnerPages(base, length) ==
  { p \in Pages : /\ ((base + PageSize - 1) % AddrMod) \div PageSize <= p
                  /\ p < ((base + length) % AddrMod) \div PageSize }

\* The pages of pmm_mark_region_used.
OuterPages(base, length) ==
  LET start == base \div PageSize
      num == ((length + PageSize - 1) % AddrMod) \div PageSize
  IN { p \in Pages : start <= p /\ p < start + num }

\* One entry of the map; the code reads addr_low and len_low.
BootEntry ==
  /\ step \in 1..Len(boot.map)
  /\ LET e == boot.map[step]
     IN IF e.avail THEN UnsetAll(InnerPages(e.base % AddrMod, e.len % AddrMod))
                   ELSE UNCHANGED bitmapVars
  /\ step' = step + 1
  /\ UNCHANGED <<boot, total_memory_pages, found, null, grants, raced>>

BootNoMap ==
  /\ boot.map = <<>> /\ step = 1
  /\ UnsetAll(InnerPages(LowEnd, (MemorySize(boot) - LowEnd) % AddrMod))
  /\ step' = step + 1
  /\ UNCHANGED <<boot, total_memory_pages, found, null, grants, raced>>

LowPages == OuterPages(0, LowEnd)
KernelPages == OuterPages(LowEnd, KernelEnd - LowEnd)
Reserved == LowPages \cup KernelPages

\* Mutant of BootLock: the kernel image stays free.
BootLockLowOnly ==
  /\ step > Len(boot.map) /\ (boot.map = <<>> => step = 2)
  /\ SetAll(LowPages)
  /\ step' = 0
  /\ UNCHANGED <<boot, total_memory_pages, found, null, grants, raced>>

BootLock ==
  /\ step > Len(boot.map) /\ (boot.map = <<>> => step = 2)
  /\ SetAll(Reserved)
  /\ step' = 0
  /\ UNCHANGED <<boot, total_memory_pages, found, null, grants, raced>>

-----------------------------------------------------------------------------
(* pmm_alloc_page and pmm_free_page *)

\* No other client is in the middle of an allocation it cannot be stopped in.
MayRun(c) == \A d \in Clients \ (Interruptible \cup {c}) : found[d] = {}
MayEnter(c) == step = 0 /\ found[c] = {} /\ MayRun(c)

\* Client c searches, inside another's allocation or not.
Enters(c) == raced' = (raced \/ \E d \in Clients \ {c} : found[d] # {})

\* Mutant of Scanned: the last whole word is skipped.
ScannedShort == { p \in Managed : p \div WordBits + 1 < total_memory_pages \div WordBits }

\* The pages find_first_free_page looks at: whole bitmap words.
Scanned == { p \in Managed : p \div WordBits < total_memory_pages \div WordBits }

\* Mutant of AllocFind: the search ignores the bitmap.
AllocFindAny(c) ==
  /\ MayEnter(c)
  /\ \E p \in Scanned : found' = [found EXCEPT ![c] = {p}]
  /\ null' = null \ {c} /\ Enters(c)
  /\ UNCHANGED <<boot, step, total_memory_pages, bitmapVars, grants>>

AllocFind(c) ==
  /\ MayEnter(c)
  /\ \E p \in Scanned \ used :
       /\ \A q \in Scanned \ used : p <= q
       /\ found' = [found EXCEPT ![c] = {p}]
  /\ null' = null \ {c} /\ Enters(c)
  /\ UNCHANGED <<boot, step, total_memory_pages, bitmapVars, grants>>

AllocFail(c) ==
  /\ MayEnter(c)
  /\ Scanned \subseteq used
  /\ null' = null \cup {c}
  /\ UNCHANGED <<boot, step, total_memory_pages, bitmapVars, found, grants, raced>>

AllocMark(c) ==
  /\ found[c] # {} /\ MayRun(c)
  /\ SetAll(found[c])
  /\ grants' = [grants EXCEPT ![c] = @ \cup found[c]]
  /\ found' = [found EXCEPT ![c] = {}]
  /\ UNCHANGED <<boot, step, total_memory_pages, null, raced>>

\* A client gives back a page it holds.
FreePage(c, p) ==
  /\ MayEnter(c)
  /\ p \in grants[c]
  /\ UnsetAll({p})
  /\ grants' = [grants EXCEPT ![c] = @ \ {p}]
  /\ UNCHANGED <<boot, step, total_memory_pages, found, null, raced>>

Next ==
  \/ BootEntry \/ BootNoMap \/ BootLock
  \/ \E c \in Clients : \/ AllocFind(c) \/ AllocFail(c) \/ AllocMark(c)
                        \/ \E p \in grants[c] : FreePage(c, p)

Spec == Init /\ [][Next]_vars

-----------------------------------------------------------------------------
(* Properties. *)

TypeOK ==
  /\ boot \in Boots /\ step \in Nat
  /\ total_memory_pages \in 0..MaxPages
  /\ used \in SUBSET Pages /\ used_memory_pages \in Nat
  /\ found \in [Clients -> SUBSET Pages]
  /\ null \in SUBSET Clients
  /\ grants \in [Clients -> SUBSET Pages]
  /\ raced \in BOOLEAN

\* The statistics are right at every moment, through overlapping and aliased
\* map entries and through every allocation: the counter is the number of
\* managed pages whose bit is set, so pmm_get_free_pages never wraps.
CountExact == used_memory_pages = Cardinality(used \cap Managed)

\* pmm_alloc_page never gives a page away that a client still holds, nor one that the
\* bitmap says is free to others, whoever interrupts whom, until a search begins between
\* another's search and its marking (pmm.cpp:128 to 133): both then get the same page.
NoSharing ==
  ~raced => \A c \in Clients :
    /\ grants[c] \subseteq used
    /\ \A d \in Clients \ {c} : grants[c] \cap grants[d] = {}

\* No page of the first megabyte (so never page 0, whose address is the
\* failure value) and none of the kernel image is ever handed out.
ReservedKept == \A c \in Clients : grants[c] \cap Reserved = {}

\* Wholly inside an available region of the report, as 64-bit addresses.
IsRam(p) ==
  \/ boot.map = <<>>
  \/ \A a \in (p * PageSize)..(p * PageSize + PageSize - 1) :
       \E i \in 1..Len(boot.map) :
         LET e == boot.map[i] IN e.avail /\ e.base <= a /\ a < e.base + e.len

\* Although init_pmm drops the high halves of E820 entries, so that regions
\* above 4 GB land on low addresses, only RAM is handed out.
OnlyRam == \A c \in Clients : \A p \in grants[c] : IsRam(p)

\* The inductive invariant behind them, for interrupted clients too.
AllocInv ==
  /\ TypeOK /\ CountExact /\ NoSharing /\ ReservedKept
  /\ step # 0 => \A c \in Clients : found[c] = {} /\ grants[c] = {}
  /\ step = 0 => Reserved \cap Managed \subseteq used
  /\ \A c \in Clients : found[c] \subseteq Managed \ Reserved
  /\ ~raced => \A c \in Clients :
       /\ found[c] \cap used = {}
       /\ found[c] # {} => \A d \in Clients \ {c} : found[d] = {}

\* find_first_free_page looks at whole words only, but what it misses is less than one:
\* a call returns 0 only when fewer than WordBits pages are free.
NullMeansFull ==
  [][\A c \in Clients : c \in null' \ null => Cardinality(Managed \ used) < WordBits]_vars
=============================================================================

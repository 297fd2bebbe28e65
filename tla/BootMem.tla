------------------------------- MODULE BootMem -------------------------------
(***************************************************************************)
(* mem_init of kern/pmap.c as far as this commit gets: the size of memory  *)
(* is read from the clock chip's memory, boot_alloc makes the first data   *)
(* structures behind the kernel, page_init the free list, and the kernel   *)
(* then tests its own allocator and page tables, until the panic in        *)
(* mmio_map_region.  All of it runs on entry_pgdir, which maps the first   *)
(* EntryMapped bytes of memory only.                                       *)
(*                                                                         *)
(* Pages are their numbers, physical addresses numbers of bytes.           *)
(***************************************************************************)
EXTENDS PageTables, Routine

CONSTANTS PGSIZE,
          KB,             \* bytes in the unit the clock chip reports (1024)
          Chunk,          \* units in a unit of NVRAM_EXT16LO (64)
          Above16M,       \* units below the memory NVRAM_EXT16LO counts
          IOPHYSMEM, EXTPHYSMEM,
          EntryMapped,    \* NPTENTRIES * PGSIZE
          PageInfoSize,   \* sizeof(struct PageInfo)
          EnvsSize,       \* sizeof(struct Env) * NENV
          Machine         \* what the clock chip says (base, ext, ext16), and
                          \* the kernel's end and MPENTRY_PADDR (mpentry)

(* The memory map of inc/memlayout.h: there is base memory for a few pages *)
(* below the I/O hole.  A page's count goes beyond 2, user memory has more *)
(* than one page table, and a directory entry is not NULL.                 *)
ASSUME BootMemAssumption ==
  /\ KB \in Nat \ {0} /\ PGSIZE \in Nat \ {0} /\ PGSIZE % KB = 0
  /\ {Chunk, Above16M, PageInfoSize, EnvsSize} \subseteq Nat
  /\ {IOPHYSMEM, EXTPHYSMEM, EntryMapped} \subseteq Nat
  /\ IOPHYSMEM % PGSIZE = 0 /\ EXTPHYSMEM % PGSIZE = 0
  /\ 4 * PGSIZE <= IOPHYSMEM
  /\ IOPHYSMEM < EXTPHYSMEM /\ EXTPHYSMEM < EntryMapped
  /\ Page = 0 .. Cardinality(Page) - 1
  /\ RefMod > 2 /\ U > 1
  /\ \A p \in Page, b \in Perm \cup {"W", "none"} :
       NULL # [pp |-> p, perm |-> b]
  /\ Machine \subseteq [base : Nat, ext : Nat, ext16 : Nat, end : Nat,
                        mpentry : Nat]

BootPage(pa) == pa \div PGSIZE

(* entry_pgdir, through entry_pgtable: page p is seen at KERNBASE + p. *)
EntryMaps(p) == p * PGSIZE < EntryMapped

------------------------------------------------------------------------------
(* i386_detect_memory, in units of KB. *)
TotalMem(mc) ==
  CASE mc.ext16 # 0 -> Above16M + mc.ext16 * Chunk
    [] mc.ext16 = 0 /\ mc.ext # 0 -> EXTPHYSMEM \div KB + mc.ext
    [] OTHER -> mc.base

NPages(mc) == TotalMem(mc) \div (PGSIZE \div KB)
NPagesBase(mc) == mc.base \div (PGSIZE \div KB)

(* What a call boot_alloc(n) makes of nextfree; the result is its old      *)
(* value, which is the end of the kernel rounded up at the first call.     *)
boot_alloc(nextfree, n) == RoundUp(nextfree + n, PGSIZE)

(* Mutant: the end of the kernel's bss, without what boot_alloc gave out. *)
PageUsedByImage(mc, nextfree, i) ==
  \/ i = 0
  \/ i >= NPagesBase(mc) /\ BootPage(IOPHYSMEM) <= i
       /\ i < BootPage(RoundUp(mc.end, PGSIZE))

(* page_init: the branches that give page i a pp_ref of 1. *)
PageUsed(mc, nextfree, i) ==
  \/ i = 0
  \/ /\ i >= NPagesBase(mc)
     /\ \/ BootPage(IOPHYSMEM) <= i /\ i < BootPage(EXTPHYSMEM)
        \/ BootPage(EXTPHYSMEM) <= i /\ i < BootPage(nextfree)

(* The kernel's variables before page_init. *)
Bss == [pp_ref |-> [p \in Page |-> 0], page_free_list |-> <<>>,
        frame |-> [p \in Page |-> Zero], panic |-> "none"]

(* The pages are looked at from 0 up and linked in at the list's head. *)
FreePages(mc, nextfree) ==
  LET linked[n \in 0 .. NPages(mc)] ==
        IF n = 0 THEN <<>>
        ELSE IF PageUsed(mc, nextfree, n - 1) THEN linked[n - 1]
        ELSE <<n - 1>> \o linked[n - 1]
  IN  linked[NPages(mc)]

page_init(mc, nextfree) ==
  [Bss EXCEPT !.pp_ref = [p \in Page |->
                            IF p < NPages(mc) /\ PageUsed(mc, nextfree, p)
                            THEN 1 ELSE 0],
              !.page_free_list = FreePages(mc, nextfree)]

------------------------------------------------------------------------------
(* memset of a page to anything but zeros: all the bytes the tests write   *)
(* have PTE_P set.                                                         *)
Junk == [j \in Ptx |-> [pp |-> 0, perm |-> "UW"]]

(* Mutant: the list is left in the order page_init made. *)
KeepOrder(m) == m.page_free_list

(* check_page_free_list(1): the pages entry_pgdir maps come first.  The    *)
(* two lists are built from the first page of the free list on.            *)
LowFirst(m) ==
  LET list == m.page_free_list
      split[k \in 0 .. Len(list)] ==
        IF k = 0 THEN [low |-> <<>>, high |-> <<>>]
        ELSE LET s == split[k - 1]
             IN  IF EntryMaps(list[k])
                 THEN [low |-> Append(s.low, list[k]), high |-> s.high]
                 ELSE [low |-> s.low, high |-> Append(s.high, list[k])]
      ends == split[Len(list)]
  IN  ends.low \o ends.high

check_page_free_list(m, mc, nextfree) ==
  LET free == OnFreeList(m)
      low == {p \in free : EntryMaps(p)}
      below == {p \in free : p < BootPage(EXTPHYSMEM)}
  IN  [m |-> [m EXCEPT !.page_free_list = LowFirst(m),
                       !.frame = [p \in Page |->
                                    IF p \in low THEN Junk ELSE @[p]]],
       touched |-> low,
       asserts |->
         /\ free # {}
         /\ \A p \in free :
              /\ p \notin {0, BootPage(IOPHYSMEM), BootPage(EXTPHYSMEM) - 1,
                           BootPage(EXTPHYSMEM), BootPage(mc.mpentry)}
              /\ p < BootPage(EXTPHYSMEM) \/ p >= BootPage(nextfree)
         /\ below # {} /\ free \ below # {}]

(* The three pages a test takes, the list it puts aside meanwhile. *)
Taken(m) == [pp |-> SubSeq(m.page_free_list, 1, 3),
             fl |-> SubSeq(m.page_free_list, 4, Len(m.page_free_list)),
             m |-> [m EXCEPT !.page_free_list = <<>>]]

(* The list is put back and pp0, pp1 and pp2 are freed. *)
GivenBack(m, t) ==
  page_free(page_free(page_free([m EXCEPT !.page_free_list = t.fl],
                                t.pp[1]), t.pp[2]), t.pp[3])

check_page_alloc(m) ==
  LET t == Taken(m)
      freed == GivenBack(t.m, [t EXCEPT !.fl = <<>>])
      q == freed.page_free_list       \* pp0, pp1 and pp2 from now on
      filled == page_free([freed EXCEPT !.page_free_list = <<>>,
                                        !.frame[q[1]] = Junk], q[1])
      zeroed == page_alloc(filled, TRUE)
      end == GivenBack(zeroed, [t EXCEPT !.pp = q])
  IN  [m |-> end,
       touched |-> {q[1]},
       asserts |->
         /\ Len(t.pp) = 3
         /\ \A i, k \in 1 .. 3 : i # k => t.pp[i] # t.pp[k] /\ q[i] # q[k]
         /\ Len(q) = 3
         /\ Allocated(filled) = q[1] /\ zeroed.frame[q[1]] = Zero
         /\ ~CanAlloc(zeroed)
         /\ end.panic = "none"
         /\ Len(end.page_free_list) = Len(m.page_free_list)]

------------------------------------------------------------------------------
(* check_page.  The addresses it uses are 0 and PGSIZE, slots <<0, 0>> and *)
(* <<0, 1>>, and PTSIZE and PTSIZE + PGSIZE, slots <<1, 0>> and <<1, 1>>.  *)
VaToPa(m, d, j) ==                                    \* check_va2pa
  IF page_lookup(m, d, 0, j) = NULL THEN NULL
  ELSE page_lookup(m, d, 0, j).pp

PteHas(m, d, j, perms) == page_lookup(m, d, 0, j).perm \in perms

(* pp0 taken back from being a page table, and freed. *)
TakeBack(m, d, i, p) ==
  page_free([m EXCEPT !.frame[d][i] = NULL, !.pp_ref[p] = 0], p)

(* The parts of check_page, on directory d and the three pages taken, pp:  *)
(* pp0 becomes a page table, pp1 and pp2 are mapped ...                     *)
CheckMap(m, d, pp) ==
  LET noTable == page_insert(m, d, pp[2], 0, 0, "W")
      first == page_insert(page_free(noTable, pp[1]), d, pp[2], 0, 0, "W")
      second == page_insert(first, d, pp[3], 0, 1, "W")
  IN  [m |-> second,
       asserts |->
         /\ page_lookup(m, d, 0, 0) = NULL
         /\ ~CanWalk(m, d, 0)
         /\ Table(first, d, 0) = pp[1] /\ VaToPa(first, d, 0) = pp[2]
         /\ first.pp_ref[pp[2]] = 1 /\ first.pp_ref[pp[1]] = 1
         /\ VaToPa(second, d, 1) = pp[3] /\ second.pp_ref[pp[3]] = 1
         /\ ~CanAlloc(second)]

(* ... pp2 is mapped again where it was, and with other permissions ... *)
CheckAgain(m, d, pp) ==
  LET again == page_insert(m, d, pp[3], 0, 1, "W")
      more == page_insert(again, d, pp[3], 0, 1, "UW")
      fewer == page_insert(more, d, pp[3], 0, 1, "W")
  IN  [m |-> fewer,
       asserts |->
         /\ \A x \in {again, more} :
              VaToPa(x, d, 1) = pp[3] /\ x.pp_ref[pp[3]] = 1
         /\ ~CanAlloc(again)
         /\ PteHas(more, d, 1, {"U", "UW"})
         /\ more.frame[d][0].perm \in {"U", "UW"}
         /\ PteHas(fewer, d, 1, {"W"})
         /\ ~CanWalk(fewer, d, 1)]

(* ... pp1 takes its place, and is unmapped ... *)
CheckReplace(m, d, pp) ==
  LET replaced == page_insert(m, d, pp[2], 0, 1, "W")
      got2 == page_alloc(replaced, FALSE)
      one == page_remove(got2, d, 0, 0)
      same == page_insert(one, d, pp[2], 0, 1, "none")
      gone == page_remove(same, d, 0, 1)
      got1 == page_alloc(gone, FALSE)
  IN  [m |-> got1,
       asserts |->
         /\ PteHas(replaced, d, 1, {"W", "none"})
         /\ VaToPa(replaced, d, 0) = pp[2] /\ VaToPa(replaced, d, 1) = pp[2]
         /\ replaced.pp_ref[pp[2]] = 2 /\ replaced.pp_ref[pp[3]] = 0
         /\ CanAlloc(replaced) /\ Allocated(replaced) = pp[3]
         /\ VaToPa(one, d, 0) = NULL /\ VaToPa(one, d, 1) = pp[2]
         /\ one.pp_ref[pp[2]] = 1 /\ one.pp_ref[pp[3]] = 0
         /\ same.pp_ref[pp[2]] # 0 /\ ~Linked(same, pp[2])
         /\ VaToPa(gone, d, 0) = NULL /\ VaToPa(gone, d, 1) = NULL
         /\ gone.pp_ref[pp[2]] = 0 /\ gone.pp_ref[pp[3]] = 0
         /\ CanAlloc(gone) /\ Allocated(gone) = pp[2]
         /\ ~CanAlloc(got1)]

(* ... and pp0 is taken back, and is a clean page table each time. *)
CheckTable(m, d, pp) ==
  LET walked == pgdir_walk(TakeBack(m, d, 0, pp[1]), d, 1)
      dirty == TakeBack([walked EXCEPT !.frame[pp[1]] = Junk], d, 1, pp[1])
      cleared == pgdir_walk(dirty, d, 0)
  IN  [m |-> [cleared EXCEPT !.frame[d][0] = NULL, !.pp_ref[pp[1]] = 0],
       asserts |->
         /\ Table(m, d, 0) = pp[1] /\ m.pp_ref[pp[1]] = 1
         /\ Table(walked, d, 1) = pp[1]
         /\ cleared.frame[pp[1]] = Zero]

check_page(m, d) ==
  LET t == Taken(m)
      mapped == CheckMap(t.m, d, t.pp)
      again == CheckAgain(mapped.m, d, t.pp)
      replaced == CheckReplace(again.m, d, t.pp)
      table == CheckTable(replaced.m, d, t.pp)
      end == GivenBack(table.m, t)
  IN  [m |-> end,
       touched |-> {t.pp[1], d},
       asserts |->
         /\ Len(t.pp) = 3
         /\ mapped.asserts /\ again.asserts /\ replaced.asserts
         /\ table.asserts
         /\ end.panic = "none"]

------------------------------------------------------------------------------
(* A machine that the kernel is meant for: base memory does not reach into *)
(* the I/O hole, and what boot_alloc gives out, which it does not check,   *)
(* ends before memory does and before what entry_pgdir maps does.          *)
FirstFree(mc) ==
  RoundUp(mc.end, PGSIZE) + RoundUp(PageInfoSize * NPages(mc), PGSIZE)
    + PGSIZE + RoundUp(EnvsSize, PGSIZE)

Supported(mc) ==
  /\ mc.base * KB <= IOPHYSMEM
  /\ EXTPHYSMEM <= mc.end /\ FirstFree(mc) < EntryMapped
  /\ BootPage(FirstFree(mc)) < NPages(mc)
  /\ 0 .. NPages(mc) - 1 \subseteq Page

BootMemInit ==
  /\ job = "mem_init"
  /\ \E mc \in {x \in Machine : Supported(x)} :
       st = [pc |-> "alloc_pages", mc |-> mc,
             nextfree |-> RoundUp(mc.end, PGSIZE), pgdir |-> NULL,
             m |-> Bss, touched |-> {}, asserts |-> TRUE]

PagesOf(a, b) == {p \in Page : a <= p * PGSIZE /\ p * PGSIZE < b}

(* st after boot_alloc(n) and the memset of what it returned. *)
AfterAlloc(s, n, next) ==
  LET nf == boot_alloc(s.nextfree, n)
  IN  [s EXCEPT !.pc = next, !.nextfree = nf,
                !.touched = @ \cup PagesOf(s.nextfree, nf)]

AllocPages ==
  /\ At("mem_init", "alloc_pages")
  /\ Becomes(AfterAlloc(st, PageInfoSize * NPages(st.mc), "alloc_pgdir"))

(* The directory's own entry at UVPT, above UTOP, is left out. *)
AllocPgdir ==
  /\ At("mem_init", "alloc_pgdir")
  /\ Becomes([AfterAlloc(st, PGSIZE, "alloc_envs") EXCEPT
                !.pgdir = BootPage(st.nextfree)])

AllocEnvs ==
  /\ At("mem_init", "alloc_envs")
  /\ Becomes(AfterAlloc(st, EnvsSize, "page_init"))

PageInit ==
  /\ At("mem_init", "page_init")
  /\ Becomes([st EXCEPT !.pc = "check_page_free_list",
                        !.m = page_init(st.mc, st.nextfree)])

(* st after the self-test with the result r: a failed assertion panics. *)
AfterTest(s, r, next) ==
  [s EXCEPT !.pc = IF r.asserts THEN next ELSE "done",
            !.m = IF r.asserts THEN r.m ELSE @,
            !.touched = @ \cup r.touched, !.asserts = r.asserts]

CheckPageFreeList ==
  /\ At("mem_init", "check_page_free_list")
  /\ Becomes(AfterTest(st, check_page_free_list(st.m, st.mc, st.nextfree),
                       "check_page_alloc"))

CheckPageAlloc ==
  /\ At("mem_init", "check_page_alloc")
  /\ Becomes(AfterTest(st, check_page_alloc(st.m), "check_page"))

(* check_page ends in the panic of mmio_map_region. *)
CheckPage ==
  /\ At("mem_init", "check_page")
  /\ Becomes(AfterTest(st, check_page(st.m, st.pgdir), "done"))

BootMemNext ==
  \/ AllocPages \/ AllocPgdir \/ AllocEnvs \/ PageInit
  \/ CheckPageFreeList \/ CheckPageAlloc \/ CheckPage

BootMemSpec == BootMemInit /\ [][BootMemNext]_routineVars

------------------------------------------------------------------------------
(* The pages that must never be handed out: the real-mode page 0, the I/O  *)
(* hole, and everything from EXTPHYSMEM to the end of the kernel and of    *)
(* all that boot_alloc gave out, which page_init works out page by page.   *)
ReservedNeverFree ==
  job = "mem_init" =>
    \A p \in OnFreeList(st.m) :
      /\ p # 0 /\ p < NPages(st.mc)
      /\ ~(IOPHYSMEM <= p * PGSIZE /\ p * PGSIZE < FirstFree(st.mc))

(* mem_init runs on entry_pgdir, so every page it, page_alloc or the       *)
(* self-tests write must be one entry_pgdir maps, although page_init put   *)
(* the highest pages of memory first: check_page_free_list reorders them.  *)
EarlyAccessMapped ==
  job = "mem_init" => \A p \in st.touched : EntryMaps(p)

(* The kernel's self-tests find fault with one thing only, the page at      *)
(* MPENTRY_PADDR where boot_aps is to put code, which page_init leaves on  *)
(* the free list; and otherwise they leave no trace: the same free pages,  *)
(* the same counts, nothing mapped below UTOP.                             *)
SelfTestsExact ==
  job = "mem_init" =>
    LET fresh == page_init(st.mc, st.nextfree)
        mpentryFree == BootPage(st.mc.mpentry) \in OnFreeList(fresh)
    IN  /\ ~st.asserts => mpentryFree
        /\ st.pc \in {"check_page", "done"} =>
             \/ mpentryFree /\ ~st.asserts
             \/ /\ OnFreeList(st.m) = OnFreeList(fresh)
                /\ Len(st.m.page_free_list) = Len(fresh.page_free_list)
                /\ st.m.pp_ref = fresh.pp_ref
                /\ \A i \in Pdx : ~HasTable(st.m, st.pgdir, i)
=============================================================================

-------------------------------- MODULE Pmap --------------------------------
(***************************************************************************)
(* Virtual memory on one CPU: the calls kern/env.c and the checks in       *)
(* kern/pmap.c make on the page allocator and the page tables, together    *)
(* with what the processor does meanwhile: it caches translations in its   *)
(* TLB, and user code stores to the pages it can reach.                    *)
(*                                                                         *)
(* Kernel code runs with interrupts off, so a call is one step; env_free   *)
(* is taken one loop iteration at a time.  An environment is identified    *)
(* with its page directory.                                                *)
(***************************************************************************)
EXTENDS PageTables

CONSTANT MaxMaps   \* bound on the number of places a page is mapped at

ASSUME MaxMapsAssumption == MaxMaps \in Nat

ASSUME FreeingAssumption == NULL \notin Page \X (0 .. U) \X (0 .. N)

VARIABLES mem,      \* pages, page_free_list and the contents of memory
          dirs,     \* the directories of the environments that exist
          held,     \* pages a caller got from page_alloc and did not map yet
          lost,     \* pages region_alloc allocated and forgot
          curenv,   \* curenv's directory, NULL when there is no curenv
          cr3,      \* the directory the MMU walks, NULL for kern_pgdir
          tlb,      \* cached user translations: <<i, j, entry>>
          freeing   \* where env_free stands: <<d, i, j>>, or NULL

vars == <<mem, dirs, held, lost, curenv, cr3, tlb, freeing>>

(* page_init has put every page on the list, in some order. *)
Init ==
  /\ mem \in [pp_ref : {[p \in Page |-> 0]},
              page_free_list :
                {s \in [1 .. Cardinality(Page) -> Page] :
                   \A p \in Page : \E k \in DOMAIN s : s[k] = p},
              frame : {[p \in Page |-> Zero]},
              panic : {"none"}]
  /\ dirs = {} /\ held = {} /\ lost = {}
  /\ curenv = NULL /\ cr3 = NULL /\ tlb = {} /\ freeing = NULL

(* The kernel is free to take its next call. *)
Ready == freeing = NULL /\ mem.panic = "none"

(* Mutant: only the current environment's own edits flush. *)
TlbKeep(d, i, j) ==
  {x \in tlb : ~(curenv = NULL /\ x[1] = i /\ x[2] = j)}

(* tlb_invalidate: what is left of the TLB when directory d's translation  *)
(* of <<i, j>> is edited.                                                  *)
tlb_invalidate(d, i, j) ==
  {x \in tlb : ~((curenv = NULL \/ curenv = d) /\ x[1] = i /\ x[2] = j)}

(* page_remove ends in tlb_invalidate if there was a mapping. *)
TlbAfterRemove(d, i, j) ==
  IF page_lookup(mem, d, i, j) = NULL THEN tlb ELSE tlb_invalidate(d, i, j)

------------------------------------------------------------------------------
PageAlloc ==
  /\ Ready /\ CanAlloc(mem)
  /\ mem' = page_alloc(mem, FALSE)
  /\ held' = held \cup {Allocated(mem)}
  /\ UNCHANGED <<dirs, lost, curenv, cr3, tlb, freeing>>

PageFree(p) ==
  /\ Ready /\ p \in held
  /\ mem' = page_free(mem, p)
  /\ held' = held \ {p}
  /\ UNCHANGED <<dirs, lost, curenv, cr3, tlb, freeing>>

(* Pages that hold user data now: what page_lookup can return. *)
Mapped ==
  {p \in Page : \E d \in dirs, i \in Pdx, j \in Ptx :
     /\ page_lookup(mem, d, i, j) # NULL
     /\ page_lookup(mem, d, i, j).pp = p}

(* A caller maps a page it holds, or maps once more a page that is mapped. *)
PageInsert(d, p, i, j, perm) ==
  /\ Ready /\ d \in dirs
  /\ p \in held \cup Mapped
  /\ Cardinality(Pointers(mem, dirs, p)) < MaxMaps
  /\ mem' = page_insert(mem, d, p, i, j, perm)
  /\ held' = IF CanWalk(mem, d, i) THEN held \ {p} ELSE held
  /\ tlb' = IF CanWalk(mem, d, i) THEN TlbAfterRemove(d, i, j) ELSE tlb
  /\ UNCHANGED <<dirs, lost, curenv, cr3, freeing>>

PageRemove(d, i, j) ==
  /\ Ready /\ d \in dirs
  /\ mem' = page_remove(mem, d, i, j)
  /\ tlb' = TlbAfterRemove(d, i, j)
  /\ UNCHANGED <<dirs, held, lost, curenv, cr3, freeing>>

EnvSetupVm ==
  /\ Ready /\ CanAlloc(mem)
  /\ mem' = env_setup_vm(mem)
  /\ dirs' = dirs \cup {Allocated(mem)}
  /\ UNCHANGED <<held, lost, curenv, cr3, tlb, freeing>>

(* One page of region_alloc: it panics if there is no page, but does not   *)
(* look at what page_insert returns.                                       *)
RegionAlloc(d, i, j) ==
  LET p == Allocated(mem)
      m == page_alloc(mem, FALSE)
  IN  /\ Ready /\ d \in dirs
      /\ \/ /\ ~CanAlloc(mem)
            /\ mem' = [mem EXCEPT !.panic = "region_alloc"]
            /\ UNCHANGED <<lost, tlb>>
         \/ /\ CanAlloc(mem)
            /\ mem' = page_insert(m, d, p, i, j, "UW")
            /\ lost' = IF CanWalk(m, d, i) THEN lost ELSE lost \cup {p}
            /\ tlb' = TlbAfterRemove(d, i, j)
      /\ UNCHANGED <<dirs, held, curenv, cr3, freeing>>

------------------------------------------------------------------------------
(* lcr3 empties the TLB.  env_run switches to an environment; load_icode   *)
(* borrows the address space of one when there is no curenv; sched_halt    *)
(* and load_icode's end go back to kern_pgdir.                             *)
EnvRun(d) ==
  /\ Ready /\ d \in dirs
  /\ curenv' = d /\ cr3' = d /\ tlb' = {}
  /\ UNCHANGED <<mem, dirs, held, lost, freeing>>

LoadIcodeEnter(d) ==
  /\ Ready /\ d \in dirs /\ curenv = NULL
  /\ cr3' = d /\ tlb' = {}
  /\ UNCHANGED <<mem, dirs, held, lost, curenv, freeing>>

ToKernPgdir ==
  /\ Ready /\ cr3 # NULL
  /\ curenv' = NULL /\ cr3' = NULL /\ tlb' = {}
  /\ UNCHANGED <<mem, dirs, held, lost, freeing>>

(* Mutant: env_free of the current environment stays on its directory. *)
EnvFreeStartNoSwitch(d) ==
  /\ Ready /\ d \in dirs /\ (cr3 = d => curenv = d)
  /\ freeing' = <<d, 0, 0>>
  /\ UNCHANGED <<mem, dirs, held, lost, curenv, cr3, tlb>>

(* env_free(e).  load_icode does not call it while it borrows e's space. *)
EnvFreeStart(d) ==
  /\ Ready /\ d \in dirs /\ (cr3 = d => curenv = d)
  /\ freeing' = <<d, 0, 0>>
  /\ cr3' = IF d = curenv THEN NULL ELSE cr3
  /\ tlb' = IF d = curenv THEN {} ELSE tlb
  /\ UNCHANGED <<mem, dirs, held, lost, curenv>>

(* One turn of the inner loop, over the slots of a page table. *)
EnvFreePte(d, i, j) ==
  /\ freeing = <<d, i, j>> /\ mem.panic = "none"
  /\ i < U /\ HasTable(mem, d, i) /\ j < N
  /\ mem' = page_remove(mem, d, i, j)
  /\ tlb' = TlbAfterRemove(d, i, j)
  /\ freeing' = <<d, i, j + 1>>
  /\ UNCHANGED <<dirs, held, lost, curenv, cr3>>

(* Mutant: the inner loop stops one slot early. *)
EnvFreeTableEarly(d, i, j) ==
  /\ freeing = <<d, i, j>> /\ mem.panic = "none"
  /\ i < U
  /\ \/ ~HasTable(mem, d, i) /\ mem' = mem
     \/ HasTable(mem, d, i) /\ j = N - 1 /\ mem' = FreeTable(mem, d, i)
  /\ freeing' = <<d, i + 1, 0>>
  /\ UNCHANGED <<dirs, held, lost, curenv, cr3, tlb>>

(* The end of a turn of the outer loop: the slot is empty, or its table is *)
(* given back now that it is.                                              *)
EnvFreeTable(d, i, j) ==
  /\ freeing = <<d, i, j>> /\ mem.panic = "none"
  /\ i < U
  /\ \/ ~HasTable(mem, d, i) /\ mem' = mem
     \/ HasTable(mem, d, i) /\ j = N /\ mem' = FreeTable(mem, d, i)
  /\ freeing' = <<d, i + 1, 0>>
  /\ UNCHANGED <<dirs, held, lost, curenv, cr3, tlb>>

(* The directory goes; env_destroy then forgets a curenv it destroyed. *)
EnvFreeDir(d) ==
  /\ freeing = <<d, U, 0>> /\ mem.panic = "none"
  /\ mem' = page_decref(mem, d)
  /\ dirs' = dirs \ {d}
  /\ curenv' = IF curenv = d THEN NULL ELSE curenv
  /\ freeing' = NULL
  /\ UNCHANGED <<held, lost, cr3, tlb>>

------------------------------------------------------------------------------
(* The processor caches a translation it walked to. *)
TlbFill(i, j) ==
  /\ cr3 # NULL
  /\ page_lookup(mem, cr3, i, j) # NULL
  /\ tlb' = tlb \cup {<<i, j, page_lookup(mem, cr3, i, j)>>}
  /\ UNCHANGED <<mem, dirs, held, lost, curenv, cr3, freeing>>

(* A store through a cached translation that allows it.  What it leaves is *)
(* one pattern that a later walk could mistake for present entries.        *)
UserStore(x) ==
  /\ Ready /\ x \in tlb /\ x[3].perm = "UW"
  /\ mem' = [mem EXCEPT !.frame[x[3].pp] =
               [j \in Ptx |-> [pp |-> x[3].pp, perm |-> "UW"]]]
  /\ UNCHANGED <<dirs, held, lost, curenv, cr3, tlb, freeing>>

------------------------------------------------------------------------------
Next ==
  \/ PageAlloc
  \/ \E p \in held : PageFree(p)
  \/ \E d \in dirs, p \in Page, i \in Pdx, j \in Ptx, perm \in Perm :
       PageInsert(d, p, i, j, perm)
  \/ \E d \in dirs, i \in Pdx, j \in Ptx :
       PageRemove(d, i, j) \/ RegionAlloc(d, i, j)
  \/ EnvSetupVm
  \/ \E d \in dirs :
       \/ EnvRun(d) \/ LoadIcodeEnter(d) \/ EnvFreeStart(d) \/ EnvFreeDir(d)
  \/ ToKernPgdir
  \/ \E d \in dirs, i \in 0 .. U, j \in 0 .. N :
       EnvFreePte(d, i, j) \/ EnvFreeTable(d, i, j)
  \/ \E i \in Pdx, j \in Ptx : TlbFill(i, j)
  \/ \E x \in tlb : UserStore(x)

Spec == Init /\ [][Next]_vars

------------------------------------------------------------------------------
TypeOK ==
  /\ mem \in Memory
  /\ dirs \subseteq Page /\ held \subseteq Page /\ lost \subseteq Page
  /\ curenv \in dirs \cup {NULL} /\ cr3 \in dirs \cup {NULL}
  /\ tlb \subseteq Pdx \X Ptx \X Entry
  /\ freeing \in (dirs \X (0 .. U) \X (0 .. N)) \cup {NULL}

(* "pp_ref is the count of pointers (usually in page table entries) to     *)
(* this page": exact for every page, after every call, sharing, remapping, *)
(* failure and teardown.                                                   *)
RefCountExact ==
  \A p \in Page : mem.pp_ref[p] = Cardinality(Pointers(mem, dirs, p))

(* Every page is in one place: once on page_free_list, or in the hands of  *)
(* a caller, or pointed to by a page table, or dropped by region_alloc.    *)
FramesAccounted ==
  LET used == {p \in Page : Pointers(mem, dirs, p) # {}}
      free == OnFreeList(mem)
  IN  /\ Cardinality(free) = Len(mem.page_free_list)
      /\ free \cup held \cup lost \cup used = Page
      /\ free \cap (held \cup lost \cup used) = {}
      /\ held \cap (lost \cup used) = {}
      /\ lost \cap used = {}

(* Directories and page tables are private to one slot of one environment: *)
(* no other pointer leads to them, so no user mapping reaches one.         *)
TablesPrivate ==
  \A d \in dirs :
    /\ Pointers(mem, dirs, d) = {<<d>>}
    /\ \A i \in Pdx :
         HasTable(mem, d, i) =>
           Pointers(mem, dirs, Table(mem, d, i)) = {<<d, i>>}

(* What the TLB holds is what the page tables in use say, so that user     *)
(* code never reaches a page that page_remove took away from it.           *)
TlbCoherent ==
  \A x \in tlb : cr3 # NULL /\ page_lookup(mem, cr3, x[1], x[2]) = x[3]

(* No call runs into the checks of page_free: "page_free is not right" is  *)
(* never printed.                                                          *)
PageFreeNeverPanics == mem.panic # "page_free"

(* The user mappings: directory, slots and entry. *)
Mappings(m, ds) ==
  {x \in ds \X Pdx \X Ptx : page_lookup(m, x[1], x[2], x[3]) # NULL}

(* The user mappings that a step makes, removes or changes. *)
MappingsChanged ==
  {x \in Mappings(mem, dirs) \cup Mappings(mem', dirs') :
     \/ x \notin Mappings(mem, dirs) \cap Mappings(mem', dirs')
     \/ page_lookup(mem, x[1], x[2], x[3])
          # page_lookup(mem', x[1], x[2], x[3])}

(* No operation changes more than the one user mapping it was asked to: a  *)
(* new page table brings no entries of its own, a table or directory that  *)
(* env_free gives back had none left.                                      *)
OneMappingAtATime == [][Cardinality(MappingsChanged) <= 1]_vars

(* "Panic if any allocation attempt fails" (region_alloc): no page that    *)
(* region_alloc took from the allocator is dropped on the floor.           *)
RegionAllocCompletes == lost = {}
=============================================================================

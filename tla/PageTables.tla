----------------------------- MODULE PageTables -----------------------------
(***************************************************************************)
(* Physical pages and two-level page tables: the operations of kern/pmap.c *)
(* as functions from one state of memory to the next.                      *)
(*                                                                         *)
(* A memory m is a record:                                                 *)
(*   pp_ref          pages[].pp_ref, a counter of RefMod values            *)
(*   page_free_list  the list page_free_list heads, first page first       *)
(*   frame           what each page holds, read as a page directory or a   *)
(*                   page table: a slot per index, NULL when PTE_P is off  *)
(*   panic           the function whose panic() stopped the kernel, if any *)
(*                                                                         *)
(* The free list is a sequence rather than a chain of pp_link pointers.    *)
(* The two agree as long as no page is on the list twice, which is one of  *)
(* the properties checked.  Only the part of a directory below UTOP is     *)
(* modelled: above it every directory is a copy of kern_pgdir's entries.   *)
(***************************************************************************)
EXTENDS Integers, Sequences, FiniteSets

CONSTANTS Page,     \* the pages the allocator manages
          N,        \* NPTENTRIES, which is also NPDENTRIES
          U,        \* PDX(UTOP): a directory's slots for user memory
          RefMod,   \* pp_ref is a uint16_t: 65536
          NULL

(* PTE_U, or PTE_U | PTE_W. *)
Perm == {"U", "UW"}

ASSUME PageAssumption ==
  /\ IsFiniteSet(Page)
  /\ NULL \notin Page
  /\ \A p \in Page, b \in Perm : NULL # [pp |-> p, perm |-> b]

ASSUME SizeAssumption ==
  /\ N \in Nat \ {0} /\ U \in 1 .. N
  /\ RefMod \in Nat /\ RefMod >= 2

Ptx == 0 .. N - 1
Pdx == 0 .. U - 1

Entry == [pp : Page, perm : Perm]
Slot == Entry \cup {NULL}

Memory ==
  [pp_ref : [Page -> 0 .. RefMod - 1],
   page_free_list : Seq(Page),
   frame : [Page -> [Ptx -> Slot]],
   panic : {"none", "page_free", "region_alloc"}]

(* A page of zero bytes: no slot is present. *)
Zero == [j \in Ptx |-> NULL]

OnFreeList(m) == {m.page_free_list[k] : k \in 1 .. Len(m.page_free_list)}

(* pp->pp_link != NULL: p is on the list, and not its last page. *)
Linked(m, p) ==
  \E k \in 1 .. Len(m.page_free_list) - 1 : m.page_free_list[k] = p

Succ(r) == IF r = RefMod - 1 THEN 0 ELSE r + 1
Pred(r) == IF r = 0 THEN RefMod - 1 ELSE r - 1

------------------------------------------------------------------------------
(* page_alloc: NULL when the list is empty, else its first page. *)
CanAlloc(m) == m.page_free_list # <<>>

Allocated(m) == Head(m.page_free_list)

(* Mutant: ALLOC_ZERO ignored. *)
PageAllocDirty(m, zero) == [m EXCEPT !.page_free_list = Tail(@)]

page_alloc(m, zero) ==
  LET p == Allocated(m)
      n == [m EXCEPT !.page_free_list = Tail(@)]
  IN  IF zero THEN [n EXCEPT !.frame[p] = Zero] ELSE n

page_free(m, p) ==
  IF Linked(m, p) \/ m.pp_ref[p] # 0
  THEN [m EXCEPT !.panic = "page_free"]
  ELSE [m EXCEPT !.page_free_list = <<p>> \o @]

page_incref(m, p) == [m EXCEPT !.pp_ref[p] = Succ(@)]

(* Mutant: page_free before the count is known to be zero. *)
PageDecrefEager(m, p) ==
  LET n == [m EXCEPT !.pp_ref[p] = Pred(@)] IN page_free(n, p)

(* Mutant: the count goes down, the page is never freed. *)
PageDecrefLeak(m, p) == [m EXCEPT !.pp_ref[p] = Pred(@)]

page_decref(m, p) ==
  LET n == [m EXCEPT !.pp_ref[p] = Pred(@)]
  IN  IF n.pp_ref[p] = 0 THEN page_free(n, p) ELSE n

------------------------------------------------------------------------------
(* pgdir_walk(d, <<i, j>>, create), without j: the page table for slot i   *)
(* of directory d, if there is one or one can be made.                     *)
HasTable(m, d, i) == m.frame[d][i] # NULL

Table(m, d, i) == m.frame[d][i].pp

CanWalk(m, d, i) == HasTable(m, d, i) \/ CanAlloc(m)

(* Mutant: the new page table's pp_ref is not incremented. *)
PgdirWalkNoRef(m, d, i) ==
  IF HasTable(m, d, i) THEN m
  ELSE [page_alloc(m, TRUE) EXCEPT
          !.frame[d][i] = [pp |-> Allocated(m), perm |-> "UW"]]

(* pgdir_walk with create = 1, when CanWalk. *)
pgdir_walk(m, d, i) ==
  IF HasTable(m, d, i) THEN m
  ELSE [page_incref(page_alloc(m, TRUE), Allocated(m)) EXCEPT
          !.frame[d][i] = [pp |-> Allocated(m), perm |-> "UW"]]

(* page_lookup: the entry for <<i, j>>, NULL if nothing is mapped there. *)
page_lookup(m, d, i, j) ==
  IF HasTable(m, d, i) THEN m.frame[Table(m, d, i)][j] ELSE NULL

set_pte(m, t, j, slot) == [m EXCEPT !.frame[t][j] = slot]

page_remove(m, d, i, j) ==
  LET pte == page_lookup(m, d, i, j)
  IN  IF pte = NULL THEN m
      ELSE page_decref(set_pte(m, Table(m, d, i), j, NULL), pte.pp)

(* Mutant: the old mapping is removed before the new reference is taken. *)
PageInsertRemoveFirst(m, d, p, i, j, perm) ==
  LET walked == pgdir_walk(m, d, i)
      cleared == page_incref(page_remove(walked, d, i, j), p)
  IN  IF CanWalk(m, d, i)
      THEN set_pte(cleared, Table(cleared, d, i), j,
                   [pp |-> p, perm |-> perm])
      ELSE m

(* Mutant: whatever was mapped at the address is just overwritten. *)
PageInsertNoRemove(m, d, p, i, j, perm) ==
  LET counted == page_incref(pgdir_walk(m, d, i), p)
  IN  IF CanWalk(m, d, i)
      THEN set_pte(counted, Table(counted, d, i), j,
                   [pp |-> p, perm |-> perm])
      ELSE m

(* page_insert: -E_NO_MEM and no change unless CanWalk. *)
page_insert(m, d, p, i, j, perm) ==
  LET counted == page_incref(pgdir_walk(m, d, i), p)
      cleared == page_remove(counted, d, i, j)
  IN  IF CanWalk(m, d, i)
      THEN set_pte(cleared, Table(cleared, d, i), j,
                   [pp |-> p, perm |-> perm])
      ELSE m

(* env_setup_vm, when CanAlloc: the directory is Allocated(m), made a copy *)
(* of kern_pgdir, which maps nothing below UTOP.                           *)
env_setup_vm(m) ==
  [page_incref(page_alloc(m, TRUE), Allocated(m)) EXCEPT
     !.frame[Allocated(m)] = Zero]

(* A page table or a directory given back by env_free. *)
FreeTable(m, d, i) ==
  page_decref([m EXCEPT !.frame[d][i] = NULL], Table(m, d, i))

------------------------------------------------------------------------------
(* The pointers to p that pp_ref is to count, dirs being the directories   *)
(* in use: p is a directory, or the table of a directory's slot, or mapped *)
(* by a table's slot.                                                      *)
Pointers(m, dirs, p) ==
  {<<d>> : d \in dirs \cap {p}}
    \cup {s \in dirs \X Pdx :
            /\ HasTable(m, s[1], s[2])
            /\ Table(m, s[1], s[2]) = p}
    \cup {s \in dirs \X Pdx \X Ptx :
            /\ page_lookup(m, s[1], s[2], s[3]) # NULL
            /\ page_lookup(m, s[1], s[2], s[3]).pp = p}
=============================================================================

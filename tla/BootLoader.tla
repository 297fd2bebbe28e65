----------------------------- MODULE BootLoader -----------------------------
(***************************************************************************)
(* bootmain of boot/main.c: the segments of the kernel's ELF file are read *)
(* from disk in whole sectors (readseg) and the rest of each is cleared.   *)
(* A step is one sector, or the clearing of one segment's rest.  And       *)
(* load_icode of kern/env.c, which does the same with a program's segments *)
(* in the address space of a new environment; there a step is one page of  *)
(* region_alloc, or the copying of one segment.                            *)
(*                                                                         *)
(* Memory is a function from addresses to bytes.  A byte of the file is    *)
(* its offset in it; "zero" a cleared one, "old" one never written, and    *)
(* "unmapped" one the environment has no page for.                         *)
(***************************************************************************)
EXTENDS Routine, Sequences

CONSTANTS SECTSIZE,     \* 512
          MemEnd,       \* the addresses are 0 .. MemEnd - 1
          ElfImage,     \* sequences of program headers, and a magic number:
                        \* [magic, ph : Seq([pa, memsz, filesz, offset])]
          IcodePage,    \* PGSIZE, for load_icode
          IcodeImage    \* programs: the same headers, with a Boolean load
                        \* for p_type = ELF_PROG_LOAD, and pa for p_va

(* readseg reads nothing of an empty segment at the start of a sector,     *)
(* like the empty header at address 0 that linkers put last.               *)
Reads(h) == h.memsz > 0 \/ h.pa % SECTSIZE # 0

(* What a linker makes: file and memory agree within a sector, the         *)
(* segments that matter in increasing order and apart, none longer in the  *)
(* file than in memory.                                                    *)
WellFormed(ph) ==
  /\ \A k \in DOMAIN ph :
       /\ ph[k].filesz <= ph[k].memsz
       /\ ph[k].pa % SECTSIZE = ph[k].offset % SECTSIZE
       /\ ph[k].pa + ph[k].memsz <= MemEnd - SECTSIZE
  /\ \A j, k \in DOMAIN ph :
       j < k /\ ph[j].memsz > 0 /\ Reads(ph[k]) =>
         ph[j].pa + ph[j].memsz <= ph[k].pa

(* No sector of a segment's start holds the end of the one before, unless  *)
(* the file holds the two side by side as memory does.                     *)
Separate(ph) ==
  \A j, k \in DOMAIN ph :
    j < k /\ ph[j].memsz > 0 /\ Reads(ph[k])
      /\ ph[j].pa + ph[j].memsz > RoundDown(ph[k].pa, SECTSIZE) =>
        /\ ph[j].filesz = ph[j].memsz
        /\ ph[k].pa - ph[j].pa = ph[k].offset - ph[j].offset

(* "You can assume that no two segments will touch the same virtual page", *)
(* where region_alloc touches the page of an empty segment too; and the    *)
(* last page is the stack's.                                               *)
Untouching(ph) ==
  /\ \A k \in DOMAIN ph : ph[k].load =>
       /\ ph[k].filesz <= ph[k].memsz
       /\ ph[k].pa + ph[k].memsz <= MemEnd - IcodePage
  /\ \A j, k \in DOMAIN ph : j < k /\ ph[j].load /\ ph[k].load =>
       \/ RoundUp(ph[j].pa + ph[j].memsz, IcodePage)
            <= RoundDown(ph[k].pa, IcodePage)
       \/ RoundUp(ph[k].pa + ph[k].memsz, IcodePage)
            <= RoundDown(ph[j].pa, IcodePage)

Header == [pa : Nat, memsz : Nat, filesz : Nat, offset : Nat]
IcodeHdr == [pa : Nat, memsz : Nat, filesz : Nat, offset : Nat, load : BOOLEAN]

ASSUME BootLoaderAssumption ==
  /\ MemEnd \in Nat
  /\ SECTSIZE \in Nat \ {0} /\ MemEnd % SECTSIZE = 0
  /\ \A e \in ElfImage :
       /\ e.magic \in BOOLEAN /\ e.ph \in Seq(Header)
       /\ WellFormed(e.ph) /\ Separate(e.ph)
  /\ IcodePage \in Nat \ {0} /\ IcodePage <= MemEnd /\ MemEnd % IcodePage = 0
  /\ \A e \in IcodeImage : e.ph \in Seq(IcodeHdr) /\ Untouching(e.ph)

BootLoaderInit ==
  /\ job = "bootmain"
  /\ \E e \in ElfImage :
       st = [pc |-> "header", elf |-> e, k |-> 0, pa |-> 0, end_pa |-> 0,
             sector |-> 0, mem |-> [a \in 0 .. MemEnd - 1 |-> <<"old">>],
             entered |-> FALSE]

------------------------------------------------------------------------------
(* Mutant: offset taken from the address after it was rounded down. *)
ReadsegFrom(s, ph) ==
  [s EXCEPT !.pc = "read", !.end_pa = RoundDown(ph.pa, SECTSIZE) + ph.memsz,
            !.pa = RoundDown(ph.pa, SECTSIZE),
            !.sector = ph.offset \div SECTSIZE]

(* readseg(ph->p_pa, ph->p_memsz, ph->p_offset); sectors of the file. *)
readseg(s, ph) ==
  [s EXCEPT !.pc = "read", !.end_pa = ph.pa + ph.memsz,
            !.pa = RoundDown(ph.pa, SECTSIZE),
            !.sector = ph.offset \div SECTSIZE]

(* On to the next program header, or to the kernel's entry point. *)
NextSegment(s) ==
  IF s.k = Len(s.elf.ph) THEN [s EXCEPT !.pc = "done", !.entered = TRUE]
  ELSE readseg([s EXCEPT !.k = @ + 1], s.elf.ph[s.k + 1])

(* The first page of the file is in scratch space: is it an ELF file?      *)
CheckMagic ==
  /\ At("bootmain", "header")
  /\ Becomes(IF st.elf.magic THEN NextSegment(st)
             ELSE [st EXCEPT !.pc = "done"])

(* readsect: the bytes of a sector of the file, at pa. *)
ReadSector ==
  /\ At("bootmain", "read") /\ st.pa < st.end_pa
  /\ Becomes([st EXCEPT
       !.pa = @ + SECTSIZE, !.sector = @ + 1,
       !.mem = [a \in DOMAIN @ |->
                  IF st.pa <= a /\ a < st.pa + SECTSIZE
                  THEN <<"file", st.sector * SECTSIZE + a - st.pa>>
                  ELSE @[a]]])

(* The bytes of the segment that are not in the file are cleared. *)
ClearRest ==
  /\ At("bootmain", "read") /\ st.pa >= st.end_pa
  /\ LET ph == st.elf.ph[st.k]
     IN  Becomes(NextSegment([st EXCEPT
           !.mem = [a \in DOMAIN @ |->
                      IF ph.pa + ph.filesz <= a /\ a < ph.pa + ph.memsz
                      THEN <<"zero">> ELSE @[a]]]))

BootLoaderNext == CheckMagic \/ ReadSector \/ ClearRest

BootLoaderSpec == BootLoaderInit /\ [][BootLoaderNext]_routineVars

------------------------------------------------------------------------------
IcodeInit ==
  /\ job = "load_icode"
  /\ \E e \in IcodeImage :
       st = [pc |-> "header", elf |-> e, k |-> 1, begin |-> 0, end |-> 0,
             mem |-> [a \in 0 .. MemEnd - 1 |-> <<"unmapped">>],
             entered |-> FALSE]

(* region_alloc(e, va, len): its pages are mapped one after the other. *)
region_alloc(s, va, len, pc) ==
  [s EXCEPT !.pc = pc, !.begin = RoundDown(va, IcodePage),
            !.end = RoundUp(va + len, IcodePage)]

(* The next program header, or after the last one the stack. *)
IcodeHeader ==
  /\ At("load_icode", "header")
  /\ LET ph == st.elf.ph[st.k]
     IN  Becomes(CASE st.k > Len(st.elf.ph) ->
                        region_alloc(st, MemEnd - IcodePage, IcodePage, "stack")
                   [] st.k <= Len(st.elf.ph) /\ ph.load ->
                        region_alloc(st, ph.pa, ph.memsz, "segment")
                   [] OTHER -> [st EXCEPT !.k = @ + 1])

(* A page from page_alloc(0) takes the place of what was mapped at begin;  *)
(* a failure to get one is in Pmap.                                        *)
IcodePageAlloc ==
  /\ job = "load_icode" /\ st.pc \in {"segment", "stack"} /\ st.begin < st.end
  /\ Becomes([st EXCEPT
       !.begin = @ + IcodePage,
       !.mem = [a \in DOMAIN @ |->
                  IF RoundDown(a, IcodePage) = st.begin THEN <<"old">>
                  ELSE @[a]]])

(* memcpy of the bytes in the file, memset of the others. *)
Copied(mem, ph) ==
  [a \in DOMAIN mem |->
     CASE ph.pa <= a /\ a < ph.pa + ph.filesz ->
            <<"file", ph.offset + a - ph.pa>>
       [] ph.pa + ph.filesz <= a /\ a < ph.pa + ph.memsz -> <<"zero">>
       [] OTHER -> mem[a]]

IcodeCopy ==
  /\ At("load_icode", "segment") /\ st.begin >= st.end
  /\ Becomes([st EXCEPT !.pc = "header", !.k = @ + 1,
                        !.mem = Copied(@, st.elf.ph[st.k])])

IcodeEnd ==
  /\ At("load_icode", "stack") /\ st.begin >= st.end
  /\ Becomes([st EXCEPT !.pc = "done", !.entered = TRUE])

IcodeNext == IcodeHeader \/ IcodePageAlloc \/ IcodeCopy \/ IcodeEnd

IcodeSpec == IcodeInit /\ [][IcodeNext]_routineVars

------------------------------------------------------------------------------
(* Segment ph is in memory byte for byte, and its rest is clear. *)
SegmentLoaded(mem, ph) ==
  \A x \in 0 .. ph.memsz - 1 :
    mem[ph.pa + x] = IF x < ph.filesz THEN <<"file", ph.offset + x>>
                     ELSE <<"zero">>

(* When the kernel is entered, every segment is loaded, although readseg   *)
(* writes whole sectors, over the end of the segment before and past its   *)
(* own end.  When a new environment is ready, every segment to be loaded   *)
(* is, although region_alloc replaces whole pages; and of the rest of its  *)
(* memory only the stack and the other bytes of those pages are mapped.    *)
ImageLoaded ==
  /\ job = "bootmain" /\ st.entered =>
       \A k \in DOMAIN st.elf.ph : SegmentLoaded(st.mem, st.elf.ph[k])
  /\ job = "load_icode" /\ st.entered =>
       LET loaded == {st.elf.ph[k] : k \in {x \in DOMAIN st.elf.ph :
                                              st.elf.ph[x].load}}
           pageOf(a, ph) ==
             /\ RoundDown(ph.pa, IcodePage) <= a
             /\ a < RoundUp(ph.pa + ph.memsz, IcodePage)
       IN  /\ \A ph \in loaded : SegmentLoaded(st.mem, ph)
           /\ \A a \in DOMAIN st.mem :
                (st.mem[a] # <<"unmapped">>) =
                  (a >= MemEnd - IcodePage \/ \E ph \in loaded : pageOf(a, ph))
=============================================================================

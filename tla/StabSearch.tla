----------------------------- MODULE StabSearch -----------------------------
(***************************************************************************)
(* debuginfo_eip of kern/kdebug.c: which file, function and line an        *)
(* instruction address belongs to, by three calls of stab_binsearch.  A    *)
(* step is one turn of the search loop, or the code between two searches.  *)
(*                                                                         *)
(* A table of stabs is a function from 0 .. n - 1 to records of a type, a  *)
(* value (n_value) and a line number (desc, n_desc).  Names are not        *)
(* modelled: where the code takes the name of a stab, its index is kept.   *)
(* No file, function or line starts at the last address: the search would  *)
(* look for the end of its region from address 0.                          *)
(***************************************************************************)
EXTENDS Routine, FiniteSetsExt

CONSTANTS StabTable,    \* the tables of stabs
          StabAddr,     \* the addresses looked up
          StabMod       \* 2^32: addresses wrap around

StabType == {"SO", "SOL", "FUN", "SLINE", "PSYM", "other"}

ASSUME StabAssumption ==
  /\ StabMod \in Nat \ {0} /\ StabAddr \subseteq 0 .. StabMod - 1
  /\ \A t \in StabTable :
       /\ IsFiniteSet(DOMAIN t) /\ DOMAIN t # {}
       /\ DOMAIN t = 0 .. Cardinality(DOMAIN t) - 1
       /\ \A k \in DOMAIN t :
            /\ t[k].type \in StabType
            /\ t[k].value \in 0 .. StabMod - 1 /\ t[k].desc \in Nat
            /\ t[k].type \in {"SO", "FUN", "SLINE"} =>
                 t[k].value # StabMod - 1

(* The kernel's table starts with a stab that is not N_SO; a search of one *)
(* that does, for an address before it, would leave the table.             *)
StabInit ==
  /\ job = "debuginfo_eip"
  /\ \E t \in StabTable, a \in StabAddr, ok \in BOOLEAN :
       /\ t[0].type = "SO" => t[0].value <= a
       /\ st = [pc |-> "start", stabs |-> t, eip |-> a, addr |-> a, ok |-> ok,
                type |-> "SO", lo |-> 0, hi |-> Cardinality(DOMAIN t) - 1,
                key |-> a, l |-> 0, r |-> 0, left |-> 0, right |-> 0,
                any |-> FALSE, lfile |-> 0, rfile |-> 0, lfun |-> 0, rfun |-> 0,
                fn |-> -1, line |-> 0, file |-> -1, narg |-> 0, ret |-> 0]

------------------------------------------------------------------------------
(* stab_binsearch(stabs, lo, hi, type, addr) is called. *)
Search(s, lo, hi, type) ==
  [s EXCEPT !.pc = "search", !.type = type, !.lo = lo, !.hi = hi,
            !.key = s.addr, !.l = lo, !.r = hi, !.left = lo, !.right = hi,
            !.any = FALSE]

(* Mutant: *region_right includes the next stab. *)
TurnRightIncluded(s) ==
  LET mid == (s.l + s.r) \div 2
      found == {k \in s.l .. mid : s.stabs[k].type = s.type}
      k == Max(found)
  IN  CASE found = {} -> [s EXCEPT !.l = mid + 1]
        [] found # {} /\ s.stabs[k].value < s.key ->
             [s EXCEPT !.any = TRUE, !.left = k, !.l = mid + 1]
        [] found # {} /\ s.stabs[k].value > s.key ->
             [s EXCEPT !.any = TRUE, !.right = k, !.r = k - 1]
        [] OTHER ->
             [s EXCEPT !.any = TRUE, !.left = k, !.l = k,
                       !.key = (@ + 1) % StabMod]

(* Mutant: addr is not advanced after an exact match. *)
TurnStays(s) ==
  LET mid == (s.l + s.r) \div 2
      found == {k \in s.l .. mid : s.stabs[k].type = s.type}
      k == Max(found)
  IN  CASE found = {} -> [s EXCEPT !.l = mid + 1]
        [] found # {} /\ s.stabs[k].value < s.key ->
             [s EXCEPT !.any = TRUE, !.left = k, !.l = mid + 1]
        [] found # {} /\ s.stabs[k].value > s.key ->
             [s EXCEPT !.any = TRUE, !.right = k - 1, !.r = k - 1]
        [] OTHER -> [s EXCEPT !.any = TRUE, !.left = k, !.l = k]

(* One turn of the loop: left and right are *region_left and *region_right,*)
(* key the addr that an exact match moves on.                              *)
Turn(s) ==
  LET mid == (s.l + s.r) \div 2
      found == {k \in s.l .. mid : s.stabs[k].type = s.type}
      k == Max(found)
  IN  CASE found = {} -> [s EXCEPT !.l = mid + 1]
        [] found # {} /\ s.stabs[k].value < s.key ->
             [s EXCEPT !.any = TRUE, !.left = k, !.l = mid + 1]
        [] found # {} /\ s.stabs[k].value > s.key ->
             [s EXCEPT !.any = TRUE, !.right = k - 1, !.r = k - 1]
        [] OTHER ->
             [s EXCEPT !.any = TRUE, !.left = k, !.l = k,
                       !.key = (@ + 1) % StabMod]

(* After the loop: back to the last stab of the type in the region. *)
Settled(s) ==
  LET typed == {k \in s.left + 1 .. s.right : s.stabs[k].type = s.type}
      floor == IF s.right < s.left THEN s.right ELSE s.left
  IN  IF s.any
      THEN [s EXCEPT !.pc = "found",
                     !.left = IF typed = {} THEN floor ELSE Max(typed)]
      ELSE [s EXCEPT !.pc = "found", !.right = s.left - 1]

StabTurn ==
  /\ At("debuginfo_eip", "search") /\ st.l <= st.r
  /\ Becomes(Turn(st))

StabSettle ==
  /\ At("debuginfo_eip", "search") /\ st.l > st.r
  /\ Becomes(Settled(st))

------------------------------------------------------------------------------
Fail(s) == [s EXCEPT !.pc = "done", !.ret = -1]

(* The user's stabs must pass user_mem_check, the strings must be whole. *)
EipStart ==
  /\ At("debuginfo_eip", "start")
  /\ Becomes(IF st.ok THEN Search(st, st.lo, st.hi, "SO") ELSE Fail(st))

FileFound ==
  /\ At("debuginfo_eip", "found") /\ st.type = "SO"
  /\ LET s == [st EXCEPT !.lfile = st.left, !.rfile = st.right]
     IN  Becomes(IF st.left = 0 THEN Fail(s)
                 ELSE Search(s, st.left, st.right, "FUN"))

(* Line numbers count from the start of the function, if there is one. *)
FunFound ==
  /\ At("debuginfo_eip", "found") /\ st.type = "FUN"
  /\ LET s == [st EXCEPT !.lfun = st.left, !.rfun = st.right]
         f == st.left
         offset == (st.addr - st.stabs[f].value) % StabMod
     IN  Becomes(IF st.left <= st.right
                 THEN Search([s EXCEPT !.fn = f, !.addr = offset],
                             st.left, st.right, "SLINE")
                 ELSE Search(s, st.lfile, st.rfile, "SLINE"))

(* The stabs that can name the file of line stab k. *)
NamesFile(s, k) ==
  {i \in s.lfile .. k :
     \/ s.stabs[i].type = "SOL"
     \/ s.stabs[i].type = "SO" /\ s.stabs[i].value # 0}

(* The N_PSYM stabs that follow the function's. *)
Args(s) ==
  Cardinality({i \in s.lfun + 1 .. s.rfun - 1 :
                 \A k \in s.lfun + 1 .. i : s.stabs[k].type = "PSYM"})

LineFound ==
  /\ At("debuginfo_eip", "found") /\ st.type = "SLINE"
  /\ LET files == NamesFile(st, st.left)
     IN  Becomes(IF st.left > st.right THEN Fail(st)
                 ELSE [st EXCEPT !.pc = "done",
                                 !.line = st.stabs[st.right].desc,
                                 !.file = IF files = {} THEN -1
                                          ELSE Max(files),
                                 !.narg = Args(st)])

StabNext ==
  \/ EipStart \/ StabTurn \/ StabSettle \/ FileFound \/ FunFound \/ LineFound

StabSpec == StabInit /\ [][StabNext]_routineVars

------------------------------------------------------------------------------
(* What stab_binsearch is to find in stabs lo .. hi: the last stab of the  *)
(* type at or below the address, and the end of its region.                *)
OfType(s, lo, hi, type) == {k \in lo .. hi : s.stabs[k].type = type}

Ordered(s, ks) ==
  \A j, k \in ks : j <= k => s.stabs[j].value <= s.stabs[k].value

Below(s, ks, a) == {k \in ks : s.stabs[k].value <= a}

(* The search that has returned left the region of the stab that contains  *)
(* the address, when there is one.                                         *)
RegionRight(s) ==
  LET ks == OfType(s, s.lo, s.hi, s.type)
      below == Below(s, ks, s.addr)
      above == {k \in ks : k > Max(below)}
  IN  /\ ks = {} => s.left > s.right
      /\ Ordered(s, ks) /\ below # {} =>
           /\ s.left = Max(below)
           /\ s.right = IF above = {} THEN s.hi ELSE Min(above) - 1

(* A stab at the address and another one byte further. *)
Adjacent(s) ==
  \E j, k \in OfType(s, s.lo, s.hi, s.type) :
    s.stabs[j].value = s.addr /\ s.stabs[k].value = s.addr + 1

(* The search ends with the reference answer, for any region ordered by    *)
(* address: the bisection skips over stabs of other types, moves its key   *)
(* on at an exact match and patches up its result after the loop.  Left    *)
(* out are an address below all stabs of the type, and Adjacent ones.      *)
StabFound ==
  At("debuginfo_eip", "found") /\ ~Adjacent(st) => RegionRight(st)

(* What the comment of stab_binsearch says of every search, Adjacent stabs *)
(* or not: "*region_left points to the matching stab that contains addr".  *)
StabContains == At("debuginfo_eip", "found") => RegionRight(st)

(* eip_line is the number of the line stab the search found, in a function *)
(* whose line stabs are in order: the comment in debuginfo_eip asks for    *)
(* "the right line number".                                                *)
EipLineRight ==
  At("debuginfo_eip", "done") /\ st.ret = 0 /\ ~Adjacent(st) =>
    LET ks == OfType(st, st.lo, st.hi, "SLINE")
        below == Below(st, ks, st.addr)
    IN  Ordered(st, ks) /\ below # {} => st.line = st.stabs[Max(below)].desc
=============================================================================

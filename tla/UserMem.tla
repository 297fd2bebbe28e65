------------------------------- MODULE UserMem -------------------------------
(***************************************************************************)
(* user_mem_check and user_mem_assert of kern/pmap.c, as sys_cputs calls   *)
(* them: a step is one turn of the loop over pages.  Addresses are machine *)
(* words of AddrMod values, and addition wraps around.                     *)
(***************************************************************************)
EXTENDS Routine

CONSTANTS AddrMod,      \* 2^32
          UPGSIZE,      \* PGSIZE
          ULIM,
          PteBits       \* the values of *pte that occur; {} also for no pte

ASSUME UserMemAssumption ==
  /\ UPGSIZE \in Nat \ {0} /\ AddrMod \in Nat \ {0}
  /\ AddrMod % UPGSIZE = 0
  /\ ULIM \in 0 .. AddrMod - 1 /\ ULIM % UPGSIZE = 0
  /\ \A b \in PteBits : b \subseteq {"P", "U", "W"}

PageStarts == {a \in 0 .. AddrMod - 1 : a % UPGSIZE = 0}

(* Nothing above ULIM is mapped for the user by the kernel's directories. *)
UserMemInit ==
  /\ job = "user_mem_check"
  /\ \E pte \in [PageStarts -> PteBits], va \in 0 .. AddrMod - 1,
        len \in 0 .. AddrMod - 1, perm \in {{"U"}, {"U", "W"}} :
       /\ \A a \in PageStarts : a >= ULIM => "U" \notin pte[a]
       /\ st = [pc |-> "call", pte |-> pte, va |-> va, len |-> len,
                perm |-> perm, begin |-> 0, end |-> 0,
                user_mem_check_addr |-> 0, ret |-> "none"]

CheckCall ==
  /\ At("user_mem_check", "call")
  /\ Becomes([st EXCEPT
       !.pc = "loop",
       !.begin = RoundDown(st.va, UPGSIZE),
       !.end = RoundDown((st.va + st.len + UPGSIZE - 1) % AddrMod, UPGSIZE)])

(* Mutant: the address reported is that of the page. *)
BadPageAddr(s) ==
  [s EXCEPT !.pc = "done", !.ret = "E_FAULT",
            !.user_mem_check_addr = s.begin]

(* -E_FAULT: the environment is destroyed by user_mem_assert. *)
BadPage(s) ==
  [s EXCEPT !.pc = "done", !.ret = "E_FAULT",
            !.user_mem_check_addr =
               IF s.begin >= s.va THEN s.begin ELSE s.va]

CheckPageTurn ==
  /\ At("user_mem_check", "loop") /\ st.begin < st.end
  /\ Becomes(IF st.begin >= ULIM \/ ~(st.perm \cup {"P"} \subseteq st.pte[st.begin])
             THEN BadPage(st)
             ELSE [st EXCEPT !.begin = (@ + UPGSIZE) % AddrMod])

(* Every page passed: sys_cputs goes on to print the string. *)
CheckPassed ==
  /\ At("user_mem_check", "loop") /\ st.begin >= st.end
  /\ Becomes([st EXCEPT !.pc = "done", !.ret = "ok"])

UserMemNext == CheckCall \/ CheckPageTurn \/ CheckPassed

UserMemSpec == UserMemInit /\ [][UserMemNext]_routineVars

------------------------------------------------------------------------------
(* The user may access the byte at a. *)
Accessible(s, a) ==
  a < ULIM /\ s.perm \cup {"P"} \subseteq s.pte[RoundDown(a, UPGSIZE)]

(* How far the check looks: to the end of a range that ends at least a     *)
(* page below the top of the address space.  Rounding up the end of any    *)
(* other wraps around: nothing is looked at, unless the range comes back   *)
(* into the page it began in, and then only that page is.                  *)
CheckedTo(s) ==
  LET first == RoundDown(s.va, UPGSIZE)
      end == s.va + s.len
  IN  IF end <= AddrMod - UPGSIZE THEN end
      ELSE IF end <= AddrMod + first \/ s.va >= AddrMod - UPGSIZE THEN 0
      ELSE first + UPGSIZE

(* What user_mem_check's answer means, for every call.  It approves a      *)
(* range when the user may access all bytes of it below CheckedTo, which   *)
(* is all of it unless its end wraps around: that range is approved        *)
(* whatever is mapped beyond.  It refuses by naming the first byte from va *)
(* on that the user may not access, and one of those it had to look at,    *)
(* unless the range is empty.                                              *)
UserMemExact ==
  At("user_mem_check", "done") =>
    LET bad == {a \in st.va .. AddrMod - 1 : ~Accessible(st, a)}
    IN  \/ /\ st.ret = "ok"
           /\ \A a \in bad : a >= CheckedTo(st)
        \/ /\ st.ret = "E_FAULT"
           /\ st.user_mem_check_addr \in bad
           /\ \A a \in bad : st.user_mem_check_addr <= a
           /\ st.len > 0 => st.user_mem_check_addr < CheckedTo(st)
=============================================================================

------------------------------ MODULE SpinLock ------------------------------
(***************************************************************************)
(* The big kernel lock: kern/spinlock.c built with DEBUG_SPINLOCK, as      *)
(* kern/spinlock.h defines it.  One step is one memory access of one CPU.  *)
(*                                                                         *)
(* lk->locked is only written by xchg, a locked instruction.  lk->cpu is   *)
(* written by ordinary stores, which an x86 CPU may hold back in its store *)
(* buffer (sbuf) until it executes a locked instruction; meanwhile only    *)
(* that CPU sees them.  lk->pcs and lk->name only feed a message and are   *)
(* left out.                                                               *)
(***************************************************************************)
EXTENDS Naturals, Sequences

CONSTANTS CPU,    \* the CpuInfo structures, one per processor
          NULL    \* the null pointer: lk->cpu of a lock nobody holds

ASSUME NULLAssumption == NULL \notin CPU

VARIABLES locked,   \* lk->locked
          cpu,      \* lk->cpu as memory holds it
          sbuf,     \* sbuf[c]: stores to lk->cpu that c has not drained yet
          pc,       \* where CPU c is
          has       \* has[c]: c is past the xchg that won the lock, and
                    \* not yet past the xchg that gives it back

vars == <<locked, cpu, sbuf, pc, has>>

(* Places inside spin_lock (L), spin_unlock (U), outside both ("out") and  *)
(* after a panic or a kernel page fault, from which a CPU never returns.   *)
Place == {"out", "L_locked", "L_cpu", "L_xchg", "L_record",
          "U_locked", "U_cpu", "U_report", "U_clear", "U_xchg",
          "panic_lock", "panic_unlock", "fault"}

Dead == {"panic_lock", "panic_unlock", "fault"}

Init ==
  /\ locked = 0
  /\ cpu = NULL
  /\ sbuf = [c \in CPU |-> <<>>]
  /\ pc = [c \in CPU |-> "out"]
  /\ has = [c \in CPU |-> FALSE]

Goto(c, place) == pc' = [pc EXCEPT ![c] = place]

(* What a load of lk->cpu returns on CPU c: its own newest pending store,  *)
(* if it has one.                                                          *)
LoadCpu(c) == IF sbuf[c] = <<>> THEN cpu ELSE sbuf[c][Len(sbuf[c])]

StoreCpu(c, v) == sbuf' = [sbuf EXCEPT ![c] = Append(@, v)]

(* The oldest pending store of c reaches memory. *)
Drain(c) ==
  /\ sbuf[c] # <<>>
  /\ cpu' = Head(sbuf[c])
  /\ sbuf' = [sbuf EXCEPT ![c] = Tail(@)]
  /\ UNCHANGED <<locked, pc, has>>

------------------------------------------------------------------------------
(* spin_lock.  A caller that already holds the lock may call it too: that  *)
(* is the mistake the check at its head is there for.                      *)
CallLock(c) ==
  /\ pc[c] = "out"
  /\ Goto(c, "L_locked")
  /\ UNCHANGED <<locked, cpu, sbuf, has>>

(* Mutant: spin_lock without the holding() check. *)
LockLoadLockedUnchecked(c) ==
  /\ pc[c] = "L_locked"
  /\ Goto(c, "L_xchg")
  /\ UNCHANGED <<locked, cpu, sbuf, has>>

(* holding(), first operand: a free lock is not held. *)
LockLoadLocked(c) ==
  /\ pc[c] = "L_locked"
  /\ Goto(c, IF locked # 0 THEN "L_cpu" ELSE "L_xchg")
  /\ UNCHANGED <<locked, cpu, sbuf, has>>

(* holding(), second operand. *)
LockLoadCpu(c) ==
  /\ pc[c] = "L_cpu"
  /\ Goto(c, IF LoadCpu(c) = c THEN "panic_lock" ELSE "L_xchg")
  /\ UNCHANGED <<locked, cpu, sbuf, has>>

(* Mutant: an atomic increment for the exchange, its old value ignored. *)
WinXchgAdd(c) ==
  /\ pc[c] = "L_xchg"
  /\ sbuf[c] = <<>>
  /\ locked' = locked + 1
  /\ has' = [has EXCEPT ![c] = TRUE]
  /\ Goto(c, "L_record")
  /\ UNCHANGED <<cpu, sbuf>>

(* while (xchg(&lk->locked, 1) != 0): the exchange that finds 0 wins.  One *)
(* that finds 1 writes 1 over it and changes nothing.                      *)
WinXchg(c) ==
  /\ pc[c] = "L_xchg"
  /\ sbuf[c] = <<>>
  /\ locked = 0
  /\ locked' = 1
  /\ has' = [has EXCEPT ![c] = TRUE]
  /\ Goto(c, "L_record")
  /\ UNCHANGED <<cpu, sbuf>>

RecordHolder(c) ==
  /\ pc[c] = "L_record"
  /\ StoreCpu(c, c)
  /\ Goto(c, "out")
  /\ UNCHANGED <<locked, cpu, has>>

------------------------------------------------------------------------------
(* spin_unlock.  sched_halt() calls it, through unlock_kernel(), on a CPU  *)
(* that never took the lock; so may any CPU here.                          *)
CallUnlock(c) ==
  /\ pc[c] = "out"
  /\ Goto(c, "U_locked")
  /\ UNCHANGED <<locked, cpu, sbuf, has>>

UnlockLoadLocked(c) ==
  /\ pc[c] = "U_locked"
  /\ Goto(c, IF locked # 0 THEN "U_cpu" ELSE "U_report")
  /\ UNCHANGED <<locked, cpu, sbuf, has>>

(* Mutant: spin_unlock only asks whether the lock is held by anybody. *)
UnlockLoadCpuAnybody(c) ==
  /\ pc[c] = "U_cpu"
  /\ Goto(c, "U_clear")
  /\ UNCHANGED <<locked, cpu, sbuf, has>>

UnlockLoadCpu(c) ==
  /\ pc[c] = "U_cpu"
  /\ Goto(c, IF LoadCpu(c) = c THEN "U_clear" ELSE "U_report")
  /\ UNCHANGED <<locked, cpu, sbuf, has>>

(* The message reads lk->cpu->cpu_id: a null lk->cpu is a page fault in    *)
(* the kernel, any other value leads to panic("spin_unlock").              *)
ReportNotHolding(c) ==
  /\ pc[c] = "U_report"
  /\ Goto(c, IF LoadCpu(c) = NULL THEN "fault" ELSE "panic_unlock")
  /\ UNCHANGED <<locked, cpu, sbuf, has>>

ClearHolder(c) ==
  /\ pc[c] = "U_clear"
  /\ StoreCpu(c, NULL)
  /\ Goto(c, "U_xchg")
  /\ UNCHANGED <<locked, cpu, has>>

(* Mutant: the release as a plain store, which does not wait for the       *)
(* stores to lk->cpu before it.                                            *)
ReleaseXchgNoFence(c) ==
  /\ pc[c] = "U_xchg"
  /\ locked' = 0
  /\ has' = [has EXCEPT ![c] = FALSE]
  /\ Goto(c, "out")
  /\ UNCHANGED <<cpu, sbuf>>

(* Mutant: the release exchanges 1 into the lock. *)
ReleaseXchgOne(c) ==
  /\ pc[c] = "U_xchg"
  /\ sbuf[c] = <<>>
  /\ locked' = 1
  /\ has' = [has EXCEPT ![c] = FALSE]
  /\ Goto(c, "out")
  /\ UNCHANGED <<cpu, sbuf>>

(* xchg(&lk->locked, 0): a locked instruction drains the store buffer. *)
ReleaseXchg(c) ==
  /\ pc[c] = "U_xchg"
  /\ sbuf[c] = <<>>
  /\ locked' = 0
  /\ has' = [has EXCEPT ![c] = FALSE]
  /\ Goto(c, "out")
  /\ UNCHANGED <<cpu, sbuf>>

------------------------------------------------------------------------------
(* The steps a CPU takes by itself once it is inside one of the functions. *)
Step(c) ==
  \/ LockLoadLocked(c) \/ LockLoadCpu(c) \/ WinXchg(c) \/ RecordHolder(c)
  \/ UnlockLoadLocked(c) \/ UnlockLoadCpu(c) \/ ReportNotHolding(c)
  \/ ClearHolder(c) \/ ReleaseXchg(c)

Next == \E c \in CPU : CallLock(c) \/ CallUnlock(c) \/ Step(c) \/ Drain(c)

Spec == Init /\ [][Next]_vars

(* A CPU keeps executing, its store buffer drains, and kernel code that    *)
(* holds the lock gets to unlock_kernel().                                 *)
FairSpec ==
  /\ Spec
  /\ \A c \in CPU : /\ WF_vars(Step(c))
                    /\ WF_vars(Drain(c))
                    /\ WF_vars(has[c] /\ CallUnlock(c))

------------------------------------------------------------------------------
TypeOK ==
  /\ locked \in {0, 1}
  /\ cpu \in CPU \cup {NULL}
  /\ sbuf \in [CPU -> Seq(CPU \cup {NULL})]
  /\ pc \in [CPU -> Place]
  /\ has \in [CPU -> BOOLEAN]

(* The lock excludes: two CPUs are never both between the xchg that won    *)
(* kernel_lock and the xchg that releases it, whatever calls are made.     *)
MutualExclusion == \A c, d \in CPU : has[c] /\ has[d] => c = d

(* The checks on lk->cpu, which race with other CPUs' stores, blame the    *)
(* right CPU: spin_lock panics with "already holding" only on the CPU that *)
(* holds the lock, spin_unlock complains only on one that does not.        *)
PanicIsJustified ==
  \A c \in CPU : /\ pc[c] = "panic_lock" => has[c]
                 /\ pc[c] \in {"U_report", "panic_unlock", "fault"} => ~has[c]

(* And they miss nothing: a CPU that holds the lock never spins on it, and *)
(* a CPU that does not hold it never gets to release it.                   *)
MisuseIsCaught ==
  \A c \in CPU : /\ pc[c] = "L_xchg" => ~has[c]
                 /\ pc[c] \in {"U_clear", "U_xchg"} => has[c]

(* kernel_lock implements the abstract lock. *)
L == INSTANCE LockSpec WITH inside <- {c \in CPU : has[c]}

ImplementsLock == L!LSpec

(* A CPU that takes the lock gives it back, unless one of the checks       *)
(* stopped it; and when a CPU spins on the lock while nobody has it, some  *)
(* CPU gets it.                                                            *)
LockIsPassedOn ==
  /\ \A c \in CPU : has[c] ~> (~has[c] \/ pc[c] \in Dead)
  /\ \A c \in CPU :
       (pc[c] = "L_xchg" /\ \A d \in CPU : ~has[d]) ~> \E d \in CPU : has[d]
==============================================================================

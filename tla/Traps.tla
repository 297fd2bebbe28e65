-------------------------------- MODULE Traps --------------------------------
(***************************************************************************)
(* From user mode into the kernel and back: the interrupt descriptor table *)
(* (trap_init), the entry stubs and _alltraps of kern/trapentry.S, the     *)
(* Trapframe they build on the kernel stack word by word, trap_dispatch,   *)
(* and env_pop_tf; with the system call stub of lib/syscall.c.             *)
(***************************************************************************)
EXTENDS Routine, Sequences

CONSTANTS Exception,    \* vectors the processor raises in user mode
          SoftInt       \* n of the "int n" instructions user code executes

(* The gates trap_init sets, and those user code may call (DPL 3). *)
Gate == 0 .. 8 \cup 10 .. 14 \cup {16, 48}

(* Mutant: every gate may be called. *)
AllCallable == Gate

UserGate == {3, 48}

T_GPFLT == 13
T_SYSCALL == 48

(* external: vectors for which the processor pushes an error code *)
PushesError == {8, 10, 11, 12, 13, 14, 17}

(* The stubs made with TRAPHANDLER; the others push a zero first. *)
TrapHandler == {7, 10, 11, 12, 13, 14}

ASSUME TrapAssumption ==
  Exception \subseteq 0 .. 19 /\ SoftInt \subseteq 0 .. 255

(* struct Trapframe, lowest address first. *)
Trapframe == <<"edi", "esi", "ebp", "oesp", "ebx", "edx", "ecx", "eax",
               "es", "ds", "trapno", "err",
               "eip", "cs", "eflags", "esp", "ss">>

Field == {Trapframe[i] : i \in 1 .. Len(Trapframe)}

(* The registers a user program sees. *)
Register == Field \ {"oesp", "trapno", "err"}

(* The frame env_alloc and load_icode give a new environment. *)
FirstFrame == [f \in Field |-> f]

TrapInit ==
  /\ job = "trap"
  /\ st = [pc |-> "env_run", tf |-> FirstFrame,
           user |-> [r \in Register |-> "none"], stack |-> <<>>,
           vector |-> 0, was |-> [r \in Register |-> "none"], call |-> <<>>]

------------------------------------------------------------------------------
(* Where the instructions of env_pop_tf put the words of a frame, lowest   *)
(* address first.                                                          *)
PopOrder ==
  <<"edi", "esi", "ebp", "skipped", "ebx", "edx", "ecx", "eax",  \* popal
    "es",                                                        \* popl %es
    "ds",                                                        \* popl %ds
    "skipped", "skipped",                                        \* addl $8
    "eip", "cs", "eflags", "esp", "ss">>                         \* iret

(* The registers after the words of tf were popped in some order. *)
PoppedInto(order, tf) ==
  [r \in Register |->
     LET k == CHOOSE i \in 1 .. Len(order) : order[i] = r
     IN  tf[Trapframe[k]]]

(* Mutant: es and ds restored in the order they were pushed. *)
PopSwapped(tf) ==
  PoppedInto([PopOrder EXCEPT ![9] = "ds", ![10] = "es"], tf)

env_pop_tf(tf) == PoppedInto(PopOrder, tf)

EnvPopTf ==
  /\ At("trap", "env_run")
  /\ Becomes([st EXCEPT !.pc = "user", !.user = env_pop_tf(st.tf)])

(* What the processor pushes of a user's registers r, and of an error. *)
Pushed(r, error) ==
  <<r["ss"], r["esp"], r["eflags"], r["cs"], r["eip"]>>
    \o (IF error THEN <<"code">> ELSE <<>>)

(* The vector taken: a gate that is not there, or that "int n" may not     *)
(* call, raises a general protection fault.                                *)
VectorTaken(n, soft) ==
  IF n \notin Gate \/ (soft /\ n \notin UserGate) THEN T_GPFLT ELSE n

(* A vector is taken; an "int n" that is allowed pushes no error code. *)
Enter(s, n, soft) ==
  LET v == VectorTaken(n, soft)
      allowed == soft /\ n \in UserGate
  IN  [s EXCEPT !.pc = "stub", !.vector = v, !.was = s.user,
                !.stack = Pushed(s.user, v \in PushesError /\ ~allowed)]

RaiseException ==
  /\ At("trap", "user")
  /\ \E n \in Exception : Becomes(Enter(st, n, FALSE))

(* The registers as syscall() of lib/syscall.c loads them. *)
Loaded(r) ==
  [r EXCEPT !["eax"] = "num", !["edx"] = "a1", !["ecx"] = "a2",
            !["ebx"] = "a3", !["edi"] = "a4", !["esi"] = "a5"]

IntInstruction ==
  /\ At("trap", "user")
  /\ \E n \in SoftInt :
       LET s == IF n = T_SYSCALL THEN [st EXCEPT !.user = Loaded(@)] ELSE st
       IN  Becomes(Enter(s, n, TRUE))

(* The stub handler<v>, and _alltraps; the last push is edi.  The value of *)
(* esp that pushal stores is of no use to anybody.                         *)
Stub ==
  /\ At("trap", "stub")
  /\ Becomes([st EXCEPT
       !.pc = "alltraps",
       !.stack = @ \o (IF st.vector \in TrapHandler THEN <<>> ELSE <<"zero">>)
                   \o <<st.vector>>])

AllTraps ==
  /\ At("trap", "alltraps")
  /\ LET r == st.user
     IN  Becomes([st EXCEPT
           !.pc = "trap",
           !.stack = @ \o <<r["ds"], r["es"], r["eax"], r["ecx"], r["edx"],
                           r["ebx"], "kesp", r["ebp"], r["esi"], r["edi"]>>])

(* trap() copies what it finds at esp, read as a struct Trapframe, to      *)
(* curenv->env_tf.                                                         *)
AsTrapframe(stack) ==
  [f \in Field |->
     LET k == CHOOSE i \in 1 .. Len(Trapframe) : Trapframe[i] = f
     IN  IF k <= Len(stack) THEN stack[Len(stack) - k + 1] ELSE "beyond"]

TrapCopy ==
  /\ At("trap", "trap")
  /\ Becomes([st EXCEPT !.pc = "trap_dispatch", !.tf = AsTrapframe(st.stack),
                        !.stack = <<>>])

(* trap_dispatch, for a system call that returns (yield and the end of the *)
(* caller are in Envs): its result goes to eax.  A breakpoint ends in the  *)
(* monitor, which no command leaves; every other trap destroys the         *)
(* environment.                                                            *)
TrapDispatch ==
  /\ At("trap", "trap_dispatch")
  /\ LET tf == st.tf
         args == <<tf["eax"], tf["edx"], tf["ecx"], tf["ebx"], tf["edi"],
                   tf["esi"]>>
     IN  Becomes(IF tf["trapno"] = T_SYSCALL
                 THEN [st EXCEPT !.pc = "env_run", !.call = args,
                                 !.tf["eax"] = "ret"]
                 ELSE [st EXCEPT !.pc = "done"])

TrapNext ==
  \/ EnvPopTf \/ RaiseException \/ IntInstruction \/ Stub \/ AllTraps
  \/ TrapCopy \/ TrapDispatch

TrapSpec == TrapInit /\ [][TrapNext]_routineVars

------------------------------------------------------------------------------
(* Whatever sends a program into the kernel, the frame trap() sees says    *)
(* which vector it was, with a general protection fault in place of every  *)
(* gate but the breakpoint and the system call; the system call gets its   *)
(* number and arguments in the order of the stub; and the program goes on  *)
(* with the registers it had, but for the result in eax.                   *)
TrapTransparent ==
  job = "trap" =>
    /\ st.pc = "trap_dispatch" =>
         /\ st.tf["trapno"] = st.vector
         /\ st.tf["err"] = IF st.vector \in PushesError THEN "code" ELSE "zero"
         /\ \A r \in Register : st.tf[r] = st.was[r]
    /\ st.call # <<>> => st.call = <<"num", "a1", "a2", "a3", "a4", "a5">>
    /\ st.pc = "user" /\ st.vector # 0 =>
         \A r \in Register :
           \/ st.user[r] = st.was[r]
           \/ r = "eax" /\ st.vector = T_SYSCALL /\ st.user[r] = "ret"
=============================================================================

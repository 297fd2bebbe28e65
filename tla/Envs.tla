-------------------------------- MODULE Envs --------------------------------
(***************************************************************************)
(* The life of environments on several CPUs: kern/env.c (env_alloc,        *)
(* envid2env, env_free, env_destroy, env_run), the part of kern/trap.c     *)
(* that decides what becomes of the trapping environment, sys_env_destroy, *)
(* and sched_halt.                                                         *)
(*                                                                         *)
(* A trap is one step up to its call of sched_yield, and one CPU is in the *)
(* kernel at a time: the big kernel lock's guarantee (module SpinLock).    *)
(* An address space is reduced to the page that holds its directory (what  *)
(* is below it is module Pmap's subject).                                  *)
(*                                                                         *)
(* Where the kernel is unfinished, the model follows its comments and the  *)
(* callers in lib/ and user/: lock_kernel in trap and mp_main, the choice  *)
(* sched_yield makes, the dispatch in syscall, and what sys_exofork and    *)
(* sys_env_set_status do for a fork.                                       *)
(***************************************************************************)
EXTENDS Integers, Sequences, FiniteSets

CONSTANTS CPU, BootCPU,
          NENV,          \* the size of envs; 1 << LOG2NENV in inc/env.h
          ENVGEN,        \* 1 << ENVGENSHIFT in env_alloc: 4096
          INTLIM,        \* envid_t is an int, from -INTLIM to INTLIM - 1:
                         \* 2^31
          Frame,         \* pages a directory can be put in
          KERN,          \* kern_pgdir's page
          NULL,
          Redestroy,     \* do callers destroy an ENV_DYING environment?
          MaxBirths      \* bound on the environments made in one slot

Slot == 0 .. NENV - 1

(* Of the three sizes, all of them powers of two, only this is used: each  *)
(* divides the next, and an int has room for a generation.                 *)
ASSUME IdAssumption ==
  /\ NENV \in Nat \ {0} /\ ENVGEN \in Nat \ {0} /\ INTLIM \in Nat \ {0}
  /\ ENVGEN % NENV = 0 /\ INTLIM % ENVGEN = 0 /\ ENVGEN < INTLIM

ASSUME EnvsAssumption ==
  /\ BootCPU \in CPU
  /\ KERN \notin Frame /\ NULL \notin Frame \cup {KERN} \cup Slot
  /\ Redestroy \in BOOLEAN /\ MaxBirths \in Nat

VARIABLES env_status, env_id, env_parent_id,
          env_pgdir,       \* the directory's page, or NULL
          env_free_list,   \* the list env_free_list heads, as a sequence
          curenv,          \* thiscpu->cpu_env of each CPU: a slot or NULL
          cr3,             \* each CPU's page directory
          where,           \* what each CPU is doing
          left,            \* the environment each CPU was running when it
                           \* halted, if any
          history,         \* ids given out in each slot, oldest first
          parent           \* who made the environment of a slot: <<slot,
                           \* which of its environments>>, or NULL

vars == <<env_status, env_id, env_parent_id, env_pgdir, env_free_list,
          curenv, cr3, where, left, history, parent>>

envs == <<env_status, env_id, env_parent_id, env_pgdir, env_free_list,
          history, parent>>

Status == {"FREE", "DYING", "RUNNABLE", "RUNNING", "NOT_RUNNABLE"}

Place == {"boot",      \* i386_init
          "waiting",   \* an AP that has not come to sched_yield
          "sched",     \* in sched_yield
          "user", "halted",
          "debug",     \* in the monitor for a breakpoint
          "idle"}      \* in the monitor: "No runnable environments"

(* env_init *)
Init ==
  /\ env_status = [e \in Slot |-> "FREE"]
  /\ env_id = [e \in Slot |-> 0]
  /\ env_parent_id = [e \in Slot |-> 0]
  /\ env_pgdir = [e \in Slot |-> NULL]
  /\ env_free_list = [k \in 1 .. NENV |-> k - 1]
  /\ curenv = [c \in CPU |-> NULL]
  /\ cr3 = [c \in CPU |-> KERN]
  /\ where = [c \in CPU |-> IF c = BootCPU THEN "boot" ELSE "waiting"]
  /\ left = [c \in CPU |-> NULL]
  /\ history = [e \in Slot |-> <<>>]
  /\ parent = [e \in Slot |-> NULL]

(* No CPU holds the kernel lock: the monitor does not let go of it. *)
KernelFree ==
  \A c \in CPU : where[c] \notin {"boot", "sched", "debug", "idle"}

Alive(e) == env_status[e] \in {"RUNNABLE", "RUNNING", "DYING"}

------------------------------------------------------------------------------
(* int arithmetic: two's complement. *)
Wrap(x) == ((x + INTLIM) % (2 * INTLIM)) - INTLIM

(* Mutant: the wrap to a negative generation goes unnoticed. *)
NewIdUnchecked(e) ==
  LET next == Wrap(env_id[e] + ENVGEN)
  IN  next - (next % NENV) + e

(* Mutant: the slot's generation is not advanced. *)
NewIdSame(e) == ENVGEN + e

NewId(e) ==
  LET next == Wrap(env_id[e] + ENVGEN)
      generation == next - (next % NENV)
  IN  (IF generation <= 0 THEN ENVGEN ELSE generation) + e

FreeFrame == Frame \ {env_pgdir[e] : e \in Slot}

(* Mutant: the slot stays on env_free_list. *)
EnvAllocStays(e, f, parent_id, p, status) ==
  /\ env_free_list # <<>> /\ e = Head(env_free_list)
  /\ f \in FreeFrame
  /\ Len(history[e]) < MaxBirths
  /\ env_pgdir' = [env_pgdir EXCEPT ![e] = f]
  /\ env_id' = [env_id EXCEPT ![e] = NewId(e)]
  /\ env_parent_id' = [env_parent_id EXCEPT ![e] = parent_id]
  /\ env_status' = [env_status EXCEPT ![e] = status]
  /\ env_free_list' = env_free_list
  /\ history' = [history EXCEPT ![e] = Append(@, NewId(e))]
  /\ parent' = [parent EXCEPT ![e] = p]

(* env_alloc, when a slot and a page for the directory are there; without  *)
(* them it returns an error and changes nothing.  The status is            *)
(* ENV_RUNNABLE; sys_exofork overwrites it within the same call.           *)
env_alloc(e, f, parent_id, p, status) ==
  /\ env_free_list # <<>> /\ e = Head(env_free_list)
  /\ f \in FreeFrame
  /\ Len(history[e]) < MaxBirths
  /\ env_pgdir' = [env_pgdir EXCEPT ![e] = f]
  /\ env_id' = [env_id EXCEPT ![e] = NewId(e)]
  /\ env_parent_id' = [env_parent_id EXCEPT ![e] = parent_id]
  /\ env_status' = [env_status EXCEPT ![e] = status]
  /\ env_free_list' = Tail(env_free_list)
  /\ history' = [history EXCEPT ![e] = Append(@, NewId(e))]
  /\ parent' = [parent EXCEPT ![e] = p]

(* Mutant: the index part alone decides. *)
EnvidAcceptsIndex(id, e, c) ==
  \/ id = 0 /\ e = curenv[c]
  \/ /\ id # 0 /\ e = id % NENV
     /\ env_status[e] # "FREE"
     /\ e = curenv[c] \/ env_parent_id[e] = env_id[curenv[c]]

(* Mutant: checkperm not honoured. *)
EnvidNoCheckperm(id, e, c) ==
  \/ id = 0 /\ e = curenv[c]
  \/ id # 0 /\ e = id % NENV /\ env_status[e] # "FREE" /\ env_id[e] = id

(* envid2env(id, &e, 1) succeeds on CPU c and gives e. *)
envid2env(id, e, c) ==
  \/ id = 0 /\ e = curenv[c]
  \/ /\ id # 0 /\ e = id % NENV
     /\ env_status[e] # "FREE" /\ env_id[e] = id
     /\ e = curenv[c] \/ env_parent_id[e] = env_id[curenv[c]]

(* Mutant: env_status is left as it was. *)
EnvFreeKeepsStatus(e) ==
  /\ env_pgdir' = [env_pgdir EXCEPT ![e] = NULL]
  /\ env_status' = env_status
  /\ env_free_list' = <<e>> \o env_free_list
  /\ UNCHANGED <<env_id, env_parent_id, history, parent>>

(* env_free: e and its pages are given back. *)
env_free(e) ==
  /\ env_pgdir' = [env_pgdir EXCEPT ![e] = NULL]
  /\ env_status' = [env_status EXCEPT ![e] = "FREE"]
  /\ env_free_list' = <<e>> \o env_free_list
  /\ UNCHANGED <<env_id, env_parent_id, history, parent>>

(* CPU c frees its curenv, which makes it leave that address space first,  *)
(* and turns to the scheduler.                                             *)
FreeCurenv(c) ==
  /\ env_free(curenv[c])
  /\ cr3' = [cr3 EXCEPT ![c] = KERN]
  /\ curenv' = [curenv EXCEPT ![c] = NULL]
  /\ where' = [where EXCEPT ![c] = "sched"]
  /\ left' = left

(* Mutant: an environment running on another CPU is freed at once. *)
EnvDestroyAtOnce(e, c) ==
  \/ curenv[c] # e /\ env_free(e) /\ UNCHANGED <<curenv, cr3, where, left>>
  \/ curenv[c] = e /\ FreeCurenv(c)

(* env_destroy(e) on CPU c, back to user mode if c's curenv is another. *)
env_destroy(e, c) ==
  \/ /\ env_status[e] = "RUNNING" /\ curenv[c] # e
     /\ env_status' = [env_status EXCEPT ![e] = "DYING"]
     /\ UNCHANGED <<env_id, env_parent_id, env_pgdir, env_free_list, history,
                    parent, curenv, cr3, where, left>>
  \/ /\ env_status[e] # "RUNNING" /\ curenv[c] # e
     /\ env_free(e)
     /\ UNCHANGED <<curenv, cr3, where, left>>
  \/ /\ curenv[c] = e
     /\ FreeCurenv(c)

------------------------------------------------------------------------------
(* i386_init: env_create, then sched_yield. *)
EnvCreate(e, f) ==
  /\ where[BootCPU] = "boot"
  /\ env_alloc(e, f, 0, NULL, "RUNNABLE")
  /\ UNCHANGED <<curenv, cr3, where, left>>

BootDone ==
  /\ where[BootCPU] = "boot"
  /\ where' = [where EXCEPT ![BootCPU] = "sched"]
  /\ UNCHANGED <<envs, curenv, cr3, left>>

ApStart(c) ==
  /\ where[c] = "waiting" /\ KernelFree
  /\ where' = [where EXCEPT ![c] = "sched"]
  /\ UNCHANGED <<envs, curenv, cr3, left>>

(* A trap from user mode of an environment that was destroyed meanwhile. *)
TrapZombie(c) ==
  /\ where[c] = "user" /\ KernelFree
  /\ env_status[curenv[c]] = "DYING"
  /\ FreeCurenv(c)

(* A trap of any other environment: c runs the kernel for curenv[c].       *)
(* Calls that return to user mode unchanged are not listed.                *)
Trap(c) ==
  /\ where[c] = "user" /\ KernelFree
  /\ env_status[curenv[c]] # "DYING"

SysEnvDestroy(c, id, e) ==
  /\ Trap(c)
  /\ envid2env(id, e, c)
  /\ env_status[e] = "DYING" => Redestroy
  /\ env_destroy(e, c)

(* A page fault, an unexpected trap, or a bad pointer given to sys_cputs. *)
TrapFatal(c) ==
  /\ Trap(c)
  /\ env_destroy(curenv[c], c)

(* monitor(tf) never returns: no command makes runcmd negative. *)
TrapBreakpoint(c) ==
  /\ Trap(c)
  /\ where' = [where EXCEPT ![c] = "debug"]
  /\ UNCHANGED <<envs, curenv, cr3, left>>

SysExofork(c, e, f) ==
  /\ Trap(c)
  /\ env_alloc(e, f, env_id[curenv[c]],
               <<curenv[c], Len(history[curenv[c]])>>, "NOT_RUNNABLE")
  /\ UNCHANGED <<curenv, cr3, where, left>>

(* dumbfork ends with sys_env_set_status(child, ENV_RUNNABLE). *)
SysEnvSetStatus(c, id, e) ==
  /\ Trap(c)
  /\ envid2env(id, e, c) /\ env_status[e] = "NOT_RUNNABLE"
  /\ env_status' = [env_status EXCEPT ![e] = "RUNNABLE"]
  /\ UNCHANGED <<env_id, env_parent_id, env_pgdir, env_free_list, history,
                 parent, curenv, cr3, where, left>>

SysYield(c) ==
  /\ Trap(c)
  /\ where' = [where EXCEPT ![c] = "sched"]
  /\ UNCHANGED <<envs, curenv, cr3, left>>

Running(c) == curenv[c] # NULL /\ env_status[curenv[c]] = "RUNNING"

(* Mutant: the environment switched away from stays ENV_RUNNING. *)
EnvRunKeepsOld(c, e) ==
  /\ env_status' = [env_status EXCEPT ![e] = "RUNNING"]
  /\ curenv' = [curenv EXCEPT ![c] = e]
  /\ cr3' = [cr3 EXCEPT ![c] = env_pgdir[e]]

env_run(c, e) ==
  /\ env_status' = [x \in Slot |->
                      IF x = e THEN "RUNNING"
                      ELSE IF Running(c) /\ x = curenv[c] THEN "RUNNABLE"
                      ELSE env_status[x]]
  /\ curenv' = [curenv EXCEPT ![c] = e]
  /\ cr3' = [cr3 EXCEPT ![c] = env_pgdir[e]]

(* sched_yield picks e, which is ENV_RUNNABLE, or the environment this CPU *)
(* was running if there is no other.                                       *)
SchedRun(c, e) ==
  /\ where[c] = "sched"
  /\ \/ env_status[e] = "RUNNABLE"
     \/ /\ \A x \in Slot : env_status[x] # "RUNNABLE"
        /\ Running(c) /\ e = curenv[c]
  /\ env_run(c, e)
  /\ where' = [where EXCEPT ![c] = "user"]
  /\ UNCHANGED <<env_id, env_parent_id, env_pgdir, env_free_list, history,
                 parent, left>>

(* Mutant: the search for environments forgets ENV_DYING. *)
SchedHaltNoDying(c) ==
  /\ where[c] = "sched"
  /\ IF \E e \in Slot : env_status[e] \in {"RUNNABLE", "RUNNING"}
     THEN /\ curenv' = [curenv EXCEPT ![c] = NULL]
          /\ cr3' = [cr3 EXCEPT ![c] = KERN]
          /\ where' = [where EXCEPT ![c] = "halted"]
          /\ left' = [left EXCEPT ![c] = curenv[c]]
     ELSE /\ where' = [where EXCEPT ![c] = "idle"]
          /\ UNCHANGED <<curenv, cr3, left>>
  /\ UNCHANGED envs

(* sched_halt, to which sched_yield falls through whatever there is to     *)
(* run.  Interrupts stay off ("sti" is commented out), so a halted CPU     *)
(* never comes back, and an environment it was running stays as it is.     *)
SchedHalt(c) ==
  /\ where[c] = "sched"
  /\ IF \E e \in Slot : Alive(e)
     THEN /\ curenv' = [curenv EXCEPT ![c] = NULL]
          /\ cr3' = [cr3 EXCEPT ![c] = KERN]
          /\ where' = [where EXCEPT ![c] = "halted"]
          /\ left' = [left EXCEPT ![c] = curenv[c]]
     ELSE /\ where' = [where EXCEPT ![c] = "idle"]
          /\ UNCHANGED <<curenv, cr3, left>>
  /\ UNCHANGED envs

(* The ids a program may have in hand: 0, and every id ever given out. *)
KnownId == {0} \cup UNION {{history[e][k] : k \in DOMAIN history[e]}
                             : e \in Slot}

Next ==
  \/ \E e \in Slot, f \in Frame : EnvCreate(e, f)
  \/ BootDone
  \/ \E c \in CPU :
       \/ ApStart(c) \/ TrapZombie(c) \/ TrapFatal(c) \/ TrapBreakpoint(c)
       \/ SysYield(c)
       \/ \E id \in KnownId, e \in Slot :
            SysEnvDestroy(c, id, e) \/ SysEnvSetStatus(c, id, e)
       \/ \E e \in Slot, f \in Frame : SysExofork(c, e, f)
       \/ \E e \in Slot : SchedRun(c, e)
       \/ SchedHalt(c)

Spec == Init /\ [][Next]_vars

------------------------------------------------------------------------------
TypeOK ==
  /\ env_status \in [Slot -> Status]
  /\ env_id \in [Slot -> 0 .. INTLIM - 1]
  /\ env_parent_id \in [Slot -> 0 .. INTLIM - 1]
  /\ env_pgdir \in [Slot -> Frame \cup {NULL}]
  /\ env_free_list \in Seq(Slot)
  /\ curenv \in [CPU -> Slot \cup {NULL}]
  /\ cr3 \in [CPU -> Frame \cup {KERN}]
  /\ where \in [CPU -> Place]
  /\ left \in [CPU -> Slot \cup {NULL}]
  /\ history \in [Slot -> Seq(Nat)]
  /\ parent \in [Slot -> (Slot \X Nat) \cup {NULL}]

(* An environment is ENV_RUNNING or ENV_DYING exactly as long as it is the *)
(* curenv of one CPU, or a CPU that sys_yield made halt left it so; and a  *)
(* CPU in user mode has such a curenv: nobody frees or reschedules an      *)
(* environment under the CPU that executes it.                             *)
RunningOwned ==
  /\ \A e \in Slot :
       env_status[e] \in {"RUNNING", "DYING"}
         <=> \E c \in CPU : e \in {curenv[c], left[c]}
  /\ \A c, d \in CPU :
       curenv[c] # NULL =>
         curenv[c] # left[d] /\ (curenv[c] = curenv[d] => c = d)
  /\ \A c \in CPU : where[c] \in {"user", "debug"} => curenv[c] # NULL

(* The page directory a CPU walks is kern_pgdir or the one of its curenv,  *)
(* never a page that env_free has given back.                              *)
Cr3Live ==
  \A c \in CPU :
    \/ cr3[c] = KERN /\ where[c] # "user"
    \/ curenv[c] # NULL /\ cr3[c] = env_pgdir[curenv[c]]

(* env_free_list holds every ENV_FREE slot once and nothing else, and the  *)
(* slots in use have a directory each.                                     *)
FreeListExact ==
  LET list == {env_free_list[k] : k \in DOMAIN env_free_list}
  IN  /\ list = {e \in Slot : env_status[e] = "FREE"}
      /\ Cardinality(list) = Len(env_free_list)
      /\ \A e \in Slot : env_pgdir[e] = NULL <=> env_status[e] = "FREE"
      /\ \A e, f \in Slot :
           env_pgdir[e] = env_pgdir[f] /\ env_pgdir[e] # NULL => e = f

(* "All real environments are greater than 0", and ENVX(env_id) is the     *)
(* slot, past the point where the generation overflows an int as well.     *)
IdsValid ==
  \A e \in Slot : env_status[e] # "FREE" => env_id[e] > 0 /\ env_id[e] % NENV = e

(* How many generations a slot goes through before its ids repeat. *)
Generations == (INTLIM \div ENVGEN) - 1

(* "The uniqueifier distinguishes environments that were created at        *)
(* different times, but share the same environment index": an id is given  *)
(* out again only after all other generations of its slot.                 *)
IdsUnique ==
  \A e \in Slot : \A k, l \in DOMAIN history[e] :
    k < l /\ l < k + Generations => history[e][k] # history[e][l]

(* The monitor is entered for want of environments only when no CPU runs   *)
(* one, zombies included, and from then on none does.                      *)
IdleMeansNobody ==
  (\E c \in CPU : where[c] = "idle") =>
    \A c \in CPU : where[c] \notin {"user", "debug"}

(* sys_env_destroy: an environment dies by its own hand, or is marked or   *)
(* freed from a CPU that runs the environment which made it (not a later   *)
(* one in the same slot), or, once marked, on the CPU it runs on.          *)
AuthorisedStep ==
  \A e \in Slot :
    env_status'[e] \in {"DYING", "FREE"} /\ env_status'[e] # env_status[e] =>
      \E c \in CPU :
        /\ where[c] = "user"
        /\ \/ curenv[c] = e /\ curenv'[c] = NULL
           \/ /\ curenv[c] # e
              /\ parent[e] = <<curenv[c], Len(history[curenv[c]])>>

(* Every step is authorised: env_destroy reaches no stranger. *)
DestroyAuthorised == [][AuthorisedStep]_vars

(* A zombie that is freed is freed by the CPU that executed it. *)
ZombieStep ==
  \A e \in Slot :
    env_status[e] = "DYING" /\ env_status'[e] = "FREE" =>
      \E c \in CPU : curenv[c] = e /\ curenv'[c] = NULL

(* "A zombie environment will be freed the next time it traps to the       *)
(* kernel" (env_destroy): not before, from another CPU.                    *)
ZombieFreedByItsTrap == [][ZombieStep]_vars
=============================================================================

------------------------------ MODULE SmpBoot -------------------------------
(***************************************************************************)
(* Starting the other processors: mp_init reads the BIOS's table of        *)
(* processors (kern/mpconfig.c), boot_aps starts them one at a time        *)
(* (kern/init.c, kern/lapic.c), and each runs kern/mpentry.S and mp_main.  *)
(*                                                                         *)
(* A processor is known to the hardware by its local APIC id, which is     *)
(* what cpunum() returns; the kernel knows it by its index in cpus[].      *)
(* The MMIO window through which the LAPIC is reached is taken as given.   *)
(***************************************************************************)
EXTENDS Integers, Sequences

CONSTANTS NCPU,      \* the size of cpus[]; 8 in kern/cpu.h
          Apic,      \* the APIC ids of the processors present
          Tables,    \* the tables the BIOS may leave
          NULL

(* A table lists processors by APIC id, the boot processor marked, among   *)
(* entries of other known types and, perhaps, one of an unknown type.  The *)
(* empty table stands for none found, or none that mpconfig accepts.       *)
ASSUME SmpAssumption ==
  /\ NCPU \in Nat \ {0} /\ Apic \subseteq Nat /\ NULL \notin Nat
  /\ Tables \subseteq
       Seq([type : {"proc"}, apicid : Apic, boot : BOOLEAN]
             \cup [type : {"other", "unknown"}])
  /\ \A t \in Tables \ {<<>>} :
       \E k \in 1 .. Len(t) : t[k].type = "proc" /\ t[k].boot

VARIABLES table,        \* the configuration table
          phase,        \* where the boot processor is
          i,            \* mp_init: entries read
          ismp, ncpu,
          cpu_id,       \* cpus[].cpu_id
          bootcpu,      \* bootcpu as an index into cpus
          cpu_status,   \* cpus[].cpu_status, with one slot past the end
          c,            \* boot_aps: the loop's c, as an index
          kstack,       \* mpentry_kstack, as an index of percpu_kstacks
          ap,           \* what each processor is doing
          esp           \* the stack each processor is on

vars == <<table, phase, i, ismp, ncpu, cpu_id, bootcpu, cpu_status, c,
          kstack, ap, esp>>

config == <<table, i, ismp, ncpu, cpu_id, bootcpu>>

Index == 0 .. NCPU - 1

(* The processor that executes mp_init and boot_aps. *)
Self ==
  LET boot == {k \in 1 .. Len(table) : table[k].type = "proc" /\ table[k].boot}
  IN  IF table = <<>> THEN CHOOSE a \in Apic : TRUE
      ELSE table[CHOOSE k \in boot : TRUE].apicid

(* A table that lists the processors first and in the order of their APIC  *)
(* ids, with one boot processor.                                           *)
InOrder(t) ==
  /\ \A k \in 1 .. Len(t) :
       t[k].type = "proc" =>
         /\ t[k].apicid = k - 1
         /\ \A l \in 1 .. k : t[l].type = "proc"
  /\ \A k, l \in 1 .. Len(t) :
       /\ t[k].type = "proc" /\ t[l].type = "proc"
       /\ t[k].boot /\ t[l].boot
       => k = l

(* cpunum(): without a LAPIC, 0. *)
cpunum(a) == IF ismp THEN a ELSE 0

Init ==
  /\ table \in Tables
  /\ phase = "mp_init" /\ i = 0 /\ ncpu = 0
  /\ ismp = (table # <<>>)   \* mpconfig has returned
  /\ cpu_id = [k \in Index |-> 0]
  /\ bootcpu = 0
  /\ cpu_status = [k \in 0 .. NCPU |-> "UNUSED"]
  /\ c = 0 /\ kstack = NULL
  /\ ap = [a \in Apic |-> IF a = Self THEN "boot" ELSE "reset"]
  /\ esp = [a \in Apic |-> NULL]

------------------------------------------------------------------------------
(* Mutant: no test that cpus[] has room. *)
AddProcUnbounded(entry) ==
  /\ bootcpu' = IF entry.boot THEN ncpu ELSE bootcpu
  /\ cpu_id' = [cpu_id EXCEPT ![ncpu % NCPU] = ncpu % NCPU]
  /\ ncpu' = ncpu + 1

(* Mutant: bootcpu is set after ncpu has moved on. *)
AddProcLate(entry) ==
  /\ IF ncpu < NCPU
     THEN /\ cpu_id' = [cpu_id EXCEPT ![ncpu] = ncpu]
          /\ ncpu' = ncpu + 1
     ELSE UNCHANGED <<cpu_id, ncpu>>
  /\ bootcpu' = IF entry.boot THEN ncpu' ELSE bootcpu

(* An MPPROC entry.  cpu_id is the index, not apicid; a processor beyond   *)
(* NCPU is left out, but may still become bootcpu.                         *)
AddProc(entry) ==
  /\ bootcpu' = IF entry.boot THEN ncpu ELSE bootcpu
  /\ IF ncpu < NCPU
     THEN /\ cpu_id' = [cpu_id EXCEPT ![ncpu] = ncpu]
          /\ ncpu' = ncpu + 1
     ELSE UNCHANGED <<cpu_id, ncpu>>

(* mp_init, one entry of the table. *)
MpInitEntry ==
  /\ phase = "mp_init" /\ i < Len(table)
  /\ LET entry == table[i + 1]
     IN  \/ /\ entry.type = "proc"
            /\ AddProc(entry)
            /\ i' = i + 1 /\ UNCHANGED ismp
         \/ /\ entry.type = "other"
            /\ i' = i + 1 /\ UNCHANGED <<ismp, ncpu, cpu_id, bootcpu>>
         \/ /\ entry.type = "unknown"
            /\ ismp' = FALSE /\ i' = Len(table)
            /\ UNCHANGED <<ncpu, cpu_id, bootcpu>>
  /\ UNCHANGED <<table, phase, cpu_status, c, kstack, ap, esp>>

(* mpconfig returns 0: mp_init leaves everything as it was, ncpu too. *)
MpInitNone ==
  /\ phase = "mp_init" /\ table = <<>>
  /\ phase' = "next" /\ c' = 0
  /\ UNCHANGED <<table, i, ismp, ncpu, cpu_id, bootcpu, cpu_status, kstack, ap, esp>>

(* The end of mp_init, and boot_aps up to its loop. *)
MpInitDone ==
  /\ phase = "mp_init" /\ table # <<>> /\ i = Len(table)
  /\ cpu_status' = [cpu_status EXCEPT ![bootcpu] = "STARTED"]
  /\ ncpu' = IF ismp THEN ncpu ELSE 1
  /\ phase' = "next" /\ c' = 0
  /\ UNCHANGED <<table, i, ismp, cpu_id, bootcpu, kstack, ap, esp>>

------------------------------------------------------------------------------
(* The head of the loop in boot_aps. *)
BootSkip ==
  /\ phase = "next" /\ c < ncpu /\ c = cpunum(Self)
  /\ c' = c + 1
  /\ UNCHANGED <<config, phase, cpu_status, kstack, ap, esp>>

(* mpentry_kstack is set, then lapic_startap resets the processor with     *)
(* that APIC id and sends it STARTUP twice, the second being ignored.  An  *)
(* id nobody has is lost on the bus.                                       *)
BootStart ==
  /\ phase = "next" /\ c < ncpu /\ c # cpunum(Self)
  /\ kstack' = c
  /\ ap' = [a \in Apic |-> IF a = cpu_id[c] THEN "entry" ELSE ap[a]]
  /\ phase' = "wait"
  /\ UNCHANGED <<config, cpu_status, c, esp>>

(* Mutant: boot_aps does not wait for the processor it started. *)
BootNoWait ==
  /\ phase = "wait"
  /\ c' = c + 1 /\ phase' = "next"
  /\ UNCHANGED <<config, cpu_status, kstack, ap, esp>>

BootWaited ==
  /\ phase = "wait" /\ cpu_status[c] = "STARTED"
  /\ c' = c + 1 /\ phase' = "next"
  /\ UNCHANGED <<config, cpu_status, kstack, ap, esp>>

BootDone ==
  /\ phase = "next" /\ c >= ncpu
  /\ phase' = "done"
  /\ UNCHANGED <<config, cpu_status, c, kstack, ap, esp>>

------------------------------------------------------------------------------
(* mpentry.S: the processor takes its stack from mpentry_kstack. *)
ApLoadStack(a) ==
  /\ ap[a] = "entry"
  /\ esp' = [esp EXCEPT ![a] = kstack]
  /\ ap' = [ap EXCEPT ![a] = "mp_main"]
  /\ UNCHANGED <<config, phase, cpu_status, c, kstack>>

(* Mutant: mpentry.S announces the processor before it has its stack. *)
ApAnnounceEarly(a) ==
  /\ ap[a] \in {"entry", "mp_main"} /\ cpunum(a) \in Index
  /\ cpu_status' = [cpu_status EXCEPT ![cpunum(a)] = "STARTED"]
  /\ ap' = [ap EXCEPT ![a] = IF @ = "entry" THEN @ ELSE "up"]
  /\ UNCHANGED <<config, phase, c, kstack, esp>>

(* Mutant: mp_main forgets to say so. *)
ApAnnounceSilent(a) ==
  /\ ap[a] = "mp_main"
  /\ ap' = [ap EXCEPT ![a] = "up"]
  /\ UNCHANGED <<config, phase, cpu_status, c, kstack, esp>>

(* mp_main sets the processor up and says so. *)
ApAnnounce(a) ==
  /\ ap[a] = "mp_main" /\ cpunum(a) \in Index
  /\ cpu_status' = [cpu_status EXCEPT ![cpunum(a)] = "STARTED"]
  /\ ap' = [ap EXCEPT ![a] = "up"]
  /\ UNCHANGED <<config, phase, c, kstack, esp>>

BootStep == \/ MpInitEntry \/ MpInitNone \/ MpInitDone \/ BootSkip \/ BootStart
            \/ BootWaited \/ BootDone

Next == BootStep \/ \E a \in Apic : ApLoadStack(a) \/ ApAnnounce(a)

(* Every processor executes at its own pace and none stops. *)
Spec ==
  /\ Init /\ [][Next]_vars
  /\ WF_vars(BootStep)
  /\ \A a \in Apic : WF_vars(ApLoadStack(a) \/ ApAnnounce(a))

------------------------------------------------------------------------------
TypeOK ==
  /\ table \in Tables /\ i \in 0 .. Len(table) /\ ismp \in BOOLEAN
  /\ phase \in {"mp_init", "next", "wait", "done"}
  /\ ncpu \in 0 .. NCPU
  /\ cpu_id \in [Index -> Index]
  /\ bootcpu \in 0 .. NCPU
  /\ cpu_status \in [0 .. NCPU -> {"UNUSED", "STARTED"}]
  /\ c \in 0 .. NCPU
  /\ kstack \in Index \cup {NULL}
  /\ ap \in [Apic -> {"boot", "reset", "entry", "mp_main", "up"}]
  /\ esp \in [Apic -> Index \cup {NULL}]

(* Every processor runs on the stack percpu_kstacks sets aside for its     *)
(* index, though all of them take it from the one mpentry_kstack.          *)
OwnStack == \A a \in Apic : esp[a] # NULL => esp[a] = cpunum(a)

(* "Boot each AP one at a time" (boot_aps): no two processors are between  *)
(* their STARTUP and the end of their setup.                               *)
OneAtATime ==
  \A a, b \in Apic :
    ap[a] \in {"entry", "mp_main"} /\ ap[b] \in {"entry", "mp_main"} => a = b

(* mp_init sets bootcpu to the entry of the processor it runs on, for a    *)
(* table it likes and for one it gives up; and no mark but this one tells  *)
(* boot_aps that a processor has STARTED.  With NCPU processors listed     *)
(* before the boot processor there is no such entry, and bootcpu and its   *)
(* mark are past the end of cpus[].                                        *)
BootcpuIsSelf ==
  phase # "mp_init" /\ table # <<>> =>
    /\ bootcpu = IF Self < NCPU THEN Self ELSE NCPU
    /\ cpu_status[bootcpu] = "STARTED"
    /\ \A k \in 0 .. NCPU :
         cpu_status[k] = "STARTED" /\ k # bootcpu => k \in Apic /\ ap[k] = "up"

(* boot_aps ends, and by then every processor that has a place in cpus[]   *)
(* has come up.                                                            *)
AllComeUp ==
  <>(phase = "done" /\ \A a \in Apic : ismp /\ a < ncpu => ap[a] \in {"boot", "up"})
=============================================================================

---------------------------- MODULE SmpBootProofs ----------------------------
(***************************************************************************)
(* The start of the processors, proved for any number of them and any size *)
(* of cpus[], given a table that lists them in the order of their ids.     *)
(***************************************************************************)
EXTENDS SmpBoot, TLAPS

USE SmpAssumption

Busy(a) == ap[a] \in {"entry", "mp_main"}

(* No processor but the boot one has run yet. *)
Quiescent ==
  /\ c = 0 /\ kstack = NULL
  /\ \A k \in 0 .. NCPU : cpu_status[k] = "UNUSED"
  /\ \A a \in Apic : ap[a] \in {"boot", "reset"} /\ esp[a] = NULL

(* The index of the k-th processor, or the one past the end of cpus[]. *)
Place(k) == IF k <= NCPU THEN k - 1 ELSE NCPU

(* mp_init up to entry i, as long as it has met processors only: each has  *)
(* the index it has as an APIC id.                                         *)
TableInv ==
  /\ phase = "mp_init" => Quiescent
  /\ ~ismp /\ phase = "mp_init" /\ table # <<>> => i = Len(table)
  /\ table # <<>> /\ (\A k \in 1 .. i : table[k].type = "proc") /\ ismp
       /\ phase = "mp_init"
       => ncpu = IF i <= NCPU THEN i ELSE NCPU
  /\ \A k \in 0 .. NCPU - 1 : k < ncpu \/ k = 0 => cpu_id[k] = k
  /\ table = <<>> => ~ismp /\ ncpu = 0 /\ bootcpu = 0
  /\ \A k \in 1 .. i :
       table[k].type = "proc" /\ table[k].boot => bootcpu = Place(k)
  /\ phase # "mp_init" /\ table # <<>> => i = Len(table)
  /\ phase # "mp_init" /\ ~ismp => ncpu <= 1

(* boot_aps: a processor that was started and has not announced itself is  *)
(* the one the loop waits for, and its index has no STARTED mark.          *)
LoopInv ==
  /\ \A a \in Apic : Busy(a) => phase = "wait" /\ a = c
  /\ phase = "wait" => ismp /\ c < ncpu /\ c # Self /\ kstack = c
  /\ phase = "wait" /\ c \in Apic /\ Busy(c) => cpu_status[c] = "UNUSED"
  /\ phase = "next" /\ ismp =>
       \A k \in 0 .. NCPU : c <= k /\ k # bootcpu => cpu_status[k] = "UNUSED"
  /\ phase = "wait" =>
       \A k \in 0 .. NCPU : c < k /\ k # bootcpu => cpu_status[k] = "UNUSED"
  /\ phase # "mp_init" /\ table # <<>> => cpu_status[bootcpu] = "STARTED"
  /\ \A k \in 0 .. NCPU :
       cpu_status[k] = "STARTED" /\ k # bootcpu => k \in Apic /\ ap[k] = "up"
  /\ \A a \in Apic : ap[a] = "up" => ismp
  /\ \A a \in Apic : esp[a] # NULL => ismp /\ esp[a] = a

BootInv == TypeOK /\ TableInv /\ LoopInv

------------------------------------------------------------------------------
(* In a table in order, the boot processor's id is its place in the table. *)
LEMMA SelfPlace ==
  ASSUME NEW k \in Nat, table \in Tables, table # <<>>, InOrder(table),
         k \in 1 .. Len(table), table[k].type = "proc", table[k].boot
  PROVE  Self = k - 1
<1> DEFINE boot == {l \in 1 .. Len(table) : table[l].type = "proc" /\ table[l].boot}
<1>1. k \in boot /\ \A l \in boot : l = k
  BY DEF InOrder
<1>2. (CHOOSE l \in boot : TRUE) = k
  BY <1>1
<1>3. Self = table[k].apicid
  BY <1>2 DEF Self
<1>4. QED
  BY <1>3 DEF InOrder

(* Once mp_init is through, bootcpu is the processor it runs on. *)
LEMMA BootcpuSelf ==
  ASSUME TypeOK, TableInv, InOrder(table), phase # "mp_init", table # <<>>
  PROVE  Self \in Nat /\ bootcpu = IF Self < NCPU THEN Self ELSE NCPU
<1>1. table \in Tables /\ i = Len(table)
  BY DEF TypeOK, TableInv
<1>2. PICK k \in 1 .. Len(table) : table[k].type = "proc" /\ table[k].boot
  BY <1>1
<1>3. Self = k - 1
  BY <1>1, <1>2, SelfPlace
<1>4. bootcpu = Place(k)
  BY <1>1, <1>2 DEF TableInv
<1>5. QED
  BY <1>1, <1>2, <1>3, <1>4 DEF Place

(* The boot processor starts in the invariant. *)
LEMMA BootInit == Init => BootInv
<1> SUFFICES ASSUME Init PROVE BootInv
  OBVIOUS
<1>1. TypeOK
  BY DEF Init, TypeOK, Index
<1>2. TableInv
  BY DEF Init, TableInv, Quiescent, Index
<1>3. LoopInv
  BY DEF Init, LoopInv, Busy
<1>4. QED
  BY <1>1, <1>2, <1>3 DEF BootInv

(* What mp_init reads next is the processor with the next index, until it  *)
(* meets an entry of another type.                                         *)
LEMMA EntryInv ==
  ASSUME BootInv, InOrder(table), MpInitEntry
  PROVE  BootInv'
<1> DEFINE entry == table[i + 1]
<1>1. /\ phase = "mp_init" /\ phase' = "mp_init" /\ i + 1 \in 1 .. Len(table)
      /\ UNCHANGED <<table, phase, cpu_status, c, kstack, ap, esp>>
      /\ table \in Tables /\ Len(table) \in Nat /\ table # <<>>
  BY DEF MpInitEntry, BootInv, TypeOK
<1>2. Quiescent /\ Quiescent'
  BY <1>1 DEF BootInv, TableInv, Quiescent
<1>3. LoopInv'
  BY <1>1, <1>2 DEF LoopInv, Quiescent, Busy
<1>4. ismp
  BY <1>1 DEF BootInv, TableInv
<1>5. CASE entry.type = "proc"
  <2>1. \A k \in 1 .. i + 1 : table[k].type = "proc"
    BY <1>1, <1>5 DEF InOrder
  <2>2. ncpu = IF i <= NCPU THEN i ELSE NCPU
    BY <1>1, <1>4, <2>1 DEF BootInv, TableInv, TypeOK
  <2>3. AddProc(entry) /\ i' = i + 1 /\ ismp'
    BY <1>4, <1>5 DEF MpInitEntry
  <2>4. ncpu' = IF i' <= NCPU THEN i' ELSE NCPU
    BY <2>2, <2>3 DEF AddProc, BootInv, TypeOK
  <2>5. ncpu = Place(i + 1)
    BY <2>2 DEF Place, BootInv, TypeOK
  <2>6. bootcpu' \in 0 .. NCPU
    BY <2>3 DEF AddProc, BootInv, TypeOK
  <2>7. TypeOK'
    <3>1. cpu_id' \in [Index -> Index]
      BY <2>3 DEF AddProc, BootInv, TypeOK, Index
    <3>2. ncpu' \in 0 .. NCPU /\ i' \in 0 .. Len(table) /\ bootcpu' \in 0 .. NCPU
      BY <1>1, <2>3, <2>4, <2>6 DEF BootInv, TypeOK, Index
    <3>3. QED
      BY <1>1, <2>3, <3>1, <3>2 DEF BootInv, TypeOK
  <2>8. \A k \in 0 .. NCPU - 1 : k < ncpu' \/ k = 0 => cpu_id'[k] = k
    <3> SUFFICES ASSUME NEW k \in 0 .. NCPU - 1, k < ncpu' \/ k = 0
                 PROVE  cpu_id'[k] = k
      OBVIOUS
    <3>1. cpu_id \in [0 .. NCPU - 1 -> 0 .. NCPU - 1] /\ ncpu \in 0 .. NCPU
      BY DEF BootInv, TypeOK, Index
    <3>2. CASE ncpu < NCPU /\ k = ncpu
      BY <2>3, <3>1, <3>2 DEF AddProc
    <3>3. CASE ~(ncpu < NCPU /\ k = ncpu)
      <4>1. cpu_id'[k] = cpu_id[k]
        BY <2>3, <3>1, <3>3 DEF AddProc
      <4>2. k < ncpu \/ k = 0
        BY <2>3, <3>1, <3>3 DEF AddProc
      <4>3. QED
        BY <4>1, <4>2 DEF BootInv, TableInv
    <3>4. QED
      BY <3>2, <3>3
  <2>9. \A k \in 1 .. i' :
          table[k].type = "proc" /\ table[k].boot => bootcpu' = Place(k)
    <3> SUFFICES ASSUME NEW k \in 1 .. i + 1, table[k].type = "proc",
                        table[k].boot
                 PROVE  bootcpu' = Place(k)
      BY <2>3
    <3>1. CASE k = i + 1
      BY <2>3, <2>5, <3>1 DEF AddProc, BootInv, TypeOK
    <3>2. CASE k # i + 1
      <4>1. k \in 1 .. i /\ k \in 1 .. Len(table)
        BY <1>1, <3>2 DEF BootInv, TypeOK
      <4>2. ~entry.boot
        BY <1>1, <1>5, <3>2, <4>1 DEF InOrder
      <4>3. QED
        BY <2>3, <4>1, <4>2 DEF AddProc, BootInv, TableInv
    <3>3. QED
      BY <3>1, <3>2
  <2>10. TableInv'
    BY <1>1, <1>2, <2>3, <2>4, <2>6, <2>8, <2>9 DEF TableInv
  <2>11. QED
    BY <1>3, <2>7, <2>10 DEF BootInv
<1>6. CASE entry.type = "other"
  <2>1. i' = i + 1 /\ UNCHANGED <<ismp, ncpu, cpu_id, bootcpu>>
    BY <1>6 DEF MpInitEntry
  <2>2. TypeOK'
    BY <1>1, <2>1 DEF BootInv, TypeOK
  <2>3. i + 1 \in 1 .. i'
    BY <2>1 DEF BootInv, TypeOK
  <2>4. \A k \in 1 .. i' : table[k].type = "proc" => k \in 1 .. i
    BY <1>6, <2>1 DEF BootInv, TypeOK
  <2>5. TableInv'
    BY <1>1, <1>2, <1>4, <1>6, <2>1, <2>3, <2>4 DEF BootInv, TableInv
  <2>6. QED
    BY <1>3, <2>2, <2>5 DEF BootInv
<1>7. CASE entry.type = "unknown"
  <2>1. /\ ~ismp' /\ ismp' \in BOOLEAN /\ i' = Len(table)
        /\ UNCHANGED <<ncpu, cpu_id, bootcpu>>
    BY <1>7 DEF MpInitEntry
  <2>2. \A k \in 1 .. Len(table) : table[k].type = "proc" => k \in 1 .. i
    BY <1>1, <1>7 DEF InOrder, BootInv, TypeOK
  <2>3. TypeOK'
    <3>1. i' \in 0 .. Len(table)
      BY <1>1, <2>1
    <3>2. QED
      BY <1>1, <2>1, <3>1 DEF BootInv, TypeOK
  <2>4. \A k \in 1 .. i' :
          table[k].type = "proc" /\ table[k].boot => bootcpu' = Place(k)
    BY <2>1, <2>2 DEF BootInv, TableInv
  <2>5. TableInv'
    BY <1>1, <1>2, <2>1, <2>4 DEF BootInv, TableInv
  <2>6. QED
    BY <1>3, <2>3, <2>5 DEF BootInv
<1>8. QED
  BY <1>5, <1>6, <1>7 DEF MpInitEntry

(* The end of mp_init: bootcpu's mark is the only one. *)
LEMMA TableDoneInv ==
  ASSUME BootInv, MpInitNone \/ MpInitDone
  PROVE  BootInv'
<1>1. phase = "mp_init" /\ phase' = "next" /\ c' = 0 /\ Quiescent
  BY DEF MpInitNone, MpInitDone, BootInv, TableInv
<1>2. /\ UNCHANGED <<table, i, ismp, cpu_id, bootcpu, kstack, ap, esp>>
      /\ ncpu' = IF table = <<>> \/ ismp THEN ncpu ELSE 1
      /\ table = <<>> \/ i = Len(table)
  BY DEF MpInitNone, MpInitDone
<1>3. /\ cpu_status' \in [0 .. NCPU -> {"UNUSED", "STARTED"}]
      /\ \A k \in 0 .. NCPU : k # bootcpu => cpu_status'[k] = "UNUSED"
      /\ table # <<>> => cpu_status'[bootcpu] = "STARTED"
  BY <1>1 DEF MpInitNone, MpInitDone, BootInv, TypeOK, Quiescent
<1>4. TypeOK'
  BY <1>1, <1>2, <1>3 DEF BootInv, TypeOK
<1>5. TableInv'
  BY <1>1, <1>2 DEF BootInv, TableInv, TypeOK
<1>6. LoopInv'
  BY <1>1, <1>2, <1>3 DEF LoopInv, Quiescent, Busy
<1>7. QED
  BY <1>4, <1>5, <1>6 DEF BootInv

(* What boot_aps and the processors leave alone. *)
LEMMA TableKept ==
  ASSUME TableInv, UNCHANGED config, phase # "mp_init", phase' # "mp_init"
  PROVE  TableInv' /\ Self' = Self
BY DEF TableInv, config, Self

(* boot_aps, one turn of its loop. *)
LEMMA LoopStepInv ==
  ASSUME BootInv, InOrder(table),
         BootSkip \/ BootStart \/ BootWaited \/ BootDone
  PROVE  BootInv'
<1>1. UNCHANGED config /\ phase # "mp_init" /\ phase' # "mp_init"
  BY DEF BootSkip, BootStart, BootWaited, BootDone
<1>2. TableInv' /\ Self' = Self
  BY <1>1, TableKept DEF BootInv
<1>3. UNCHANGED <<table, i, ismp, ncpu, cpu_id, bootcpu>>
  BY <1>1 DEF config
<1>4. ismp => Self \in Nat /\ bootcpu = IF Self < NCPU THEN Self ELSE NCPU
  BY <1>1, BootcpuSelf DEF BootInv, TableInv
<1>5. CASE BootSkip
  <2>1. TypeOK'
    BY <1>3, <1>5 DEF BootSkip, BootInv, TypeOK
  <2>2. LoopInv'
    BY <1>3, <1>5 DEF BootSkip, BootInv, LoopInv, TypeOK, Busy
  <2>3. QED
    BY <1>2, <2>1, <2>2 DEF BootInv
<1>6. CASE BootStart
  <2>1. ismp
    BY <1>6 DEF BootStart, cpunum, BootInv, TableInv, TypeOK
  <2>2. c # Self /\ c \in Index /\ c < ncpu /\ cpu_id[c] = c
    BY <1>6, <2>1 DEF BootStart, cpunum, BootInv, TableInv, TypeOK, Index
  <2>3. TypeOK'
    BY <1>3, <1>6, <2>2 DEF BootStart, BootInv, TypeOK
  <2>4. cpu_status[c] = "UNUSED"
    BY <1>4, <1>6, <2>1, <2>2 DEF BootStart, BootInv, LoopInv, Index
  <2>5. \A a \in Apic : Busy(a)' => a = c
    BY <1>6, <2>2 DEF BootStart, BootInv, LoopInv, Busy
  <2>m. /\ cpu_status'[bootcpu] = "STARTED"
        /\ \A k \in 0 .. NCPU :
             cpu_status'[k] = "STARTED" /\ k # bootcpu
               => k \in Apic /\ ap'[k] = "up"
    <3>1. cpu_status' = cpu_status /\ table # <<>>
      BY <1>6, <2>1 DEF BootStart, BootInv, TableInv
    <3>2. cpu_status'[bootcpu] = "STARTED"
      BY <1>1, <3>1 DEF BootInv, LoopInv
    <3>3. ASSUME NEW k \in 0 .. NCPU, cpu_status'[k] = "STARTED", k # bootcpu
          PROVE  k \in Apic /\ ap'[k] = "up"
      <4>1. k # c
        BY <2>4, <3>1, <3>3
      <4>2. k \in Apic /\ ap[k] = "up"
        BY <3>1, <3>3 DEF BootInv, LoopInv
      <4>3. QED
        BY <1>6, <2>2, <4>1, <4>2 DEF BootStart
    <3>4. QED
      BY <3>2, <3>3
  <2>6. LoopInv'
    <3>1. \A a \in Apic : (ap'[a] = "up" => ismp) /\ esp' = esp
      BY <2>1, <1>6 DEF BootStart
    <3>2. /\ phase' = "wait" /\ kstack' = c /\ cpu_status' = cpu_status
          /\ c' = c
      BY <1>6 DEF BootStart
    <3>3. \A k \in 0 .. NCPU : c < k /\ k # bootcpu => cpu_status[k] = "UNUSED"
      BY <1>6, <2>1 DEF BootStart, BootInv, LoopInv, TypeOK
    <3>4. QED
      BY <1>2, <1>3, <2>1, <2>2, <2>4, <2>5, <2>m, <3>1, <3>2, <3>3
         DEF BootInv, LoopInv, Busy
  <2>7. QED
    BY <1>2, <2>3, <2>6 DEF BootInv
<1>7. CASE BootWaited
  <2>1. /\ phase = "wait" /\ cpu_status[c] = "STARTED" /\ c' = c + 1
        /\ phase' = "next" /\ UNCHANGED <<cpu_status, kstack, ap, esp>>
        /\ ismp /\ c < ncpu
    BY <1>7 DEF BootWaited, BootInv, LoopInv
  <2>2. TypeOK'
    BY <1>3, <2>1 DEF BootInv, TypeOK
  <2>3. \A a \in Apic : ~Busy(a)
    BY <2>1 DEF BootInv, LoopInv
  <2>4. LoopInv'
    BY <1>3, <2>1, <2>3 DEF BootInv, LoopInv, TypeOK, Busy
  <2>5. QED
    BY <1>2, <2>2, <2>4 DEF BootInv
<1>8. CASE BootDone
  <2>1. TypeOK'
    BY <1>3, <1>8 DEF BootDone, BootInv, TypeOK
  <2>2. LoopInv'
    BY <1>3, <1>8 DEF BootDone, BootInv, LoopInv, Busy
  <2>3. QED
    BY <1>2, <2>1, <2>2 DEF BootInv
<1>9. QED
  BY <1>5, <1>6, <1>7, <1>8

(* A processor on its way up: its index is the loop's c. *)
LEMMA ApStepInv ==
  ASSUME BootInv, InOrder(table), NEW a \in Apic,
         ApLoadStack(a) \/ ApAnnounce(a)
  PROVE  BootInv'
<1>1. Busy(a) /\ UNCHANGED <<config, phase, c, kstack>>
  BY DEF ApLoadStack, ApAnnounce, Busy
<1>2. phase = "wait" /\ a = c /\ ismp /\ kstack = a /\ a < ncpu
  BY <1>1 DEF BootInv, LoopInv
<1>3. TableInv' /\ Self' = Self
  BY <1>1, <1>2, TableKept DEF BootInv
<1>4. UNCHANGED <<table, i, ismp, ncpu, cpu_id, bootcpu>>
  BY <1>1 DEF config
<1>5. a \in Index
  BY <1>2 DEF BootInv, TypeOK, Index
<1>6. TypeOK'
  <2>1. esp' \in [Apic -> Index \cup {NULL}]
    BY <1>2, <1>5 DEF ApLoadStack, ApAnnounce, BootInv, TypeOK
  <2>2. cpu_status' \in [0 .. NCPU -> {"UNUSED", "STARTED"}]
    BY <1>2, <1>5 DEF ApLoadStack, ApAnnounce, cpunum, BootInv, TypeOK, Index
  <2>3. ap' \in [Apic -> {"boot", "reset", "entry", "mp_main", "up"}]
    BY DEF ApLoadStack, ApAnnounce, BootInv, TypeOK
  <2>4. QED
    BY <1>1, <1>4, <2>1, <2>2, <2>3 DEF BootInv, TypeOK
<1>7. \A b \in Apic : b # a => ap'[b] = ap[b] /\ esp'[b] = esp[b]
  BY DEF ApLoadStack, ApAnnounce, BootInv, TypeOK
<1>8. CASE ApLoadStack(a)
  <2>1. ap'[a] = "mp_main" /\ esp'[a] = a /\ cpu_status' = cpu_status
    BY <1>2, <1>8 DEF ApLoadStack, BootInv, TypeOK
  <2>2. LoopInv'
    BY <1>1, <1>2, <1>3, <1>4, <1>7, <2>1 DEF BootInv, LoopInv, Busy
  <2>3. QED
    BY <1>3, <1>6, <2>2 DEF BootInv
<1>9. CASE ApAnnounce(a)
  <2>1. /\ ap'[a] = "up" /\ esp' = esp
        /\ cpu_status' = [cpu_status EXCEPT ![a] = "STARTED"]
    BY <1>2, <1>9 DEF ApAnnounce, cpunum, BootInv, TypeOK
  <2>2. \A k \in 0 .. NCPU : c < k => cpu_status'[k] = cpu_status[k]
    BY <1>2, <2>1 DEF BootInv, TypeOK
  <2>3. LoopInv'
    BY <1>1, <1>2, <1>3, <1>4, <1>7, <2>1, <2>2 DEF BootInv, LoopInv, Busy
  <2>4. QED
    BY <1>3, <1>6, <2>3 DEF BootInv
<1>10. QED
  BY <1>8, <1>9

------------------------------------------------------------------------------
(* The start of the processors keeps BootInv, for tables in order. *)
THEOREM BootInvariant ==
  ASSUME \A t \in Tables : InOrder(t)
  PROVE  Spec => []BootInv
<1>1. BootInv /\ [Next]_vars => BootInv'
  <2> SUFFICES ASSUME BootInv, [Next]_vars PROVE BootInv'
    OBVIOUS
  <2>1. InOrder(table)
    BY DEF BootInv, TypeOK
  <2>2. CASE UNCHANGED vars
    BY <2>2 DEF vars, BootInv, TypeOK, TableInv, LoopInv, Quiescent, Busy, Self
  <2>3. QED
    BY <2>1, <2>2, EntryInv, TableDoneInv, LoopStepInv, ApStepInv
       DEF Next, BootStep
<1>2. QED
  BY <1>1, BootInit, PTL DEF Spec

(* The variables of mp_init, boot_aps and the processors keep their types: *)
(* no index leaves cpus[] or percpu_kstacks, but for a bootcpu that points *)
(* right behind cpus[].                                                    *)
THEOREM BootTypeCorrect ==
  ASSUME \A t \in Tables : InOrder(t)
  PROVE  Spec => []TypeOK
<1>1. BootInv => TypeOK
  BY DEF BootInv
<1>2. QED
  BY <1>1, BootInvariant, PTL

(* Every processor runs on its own stack of percpu_kstacks, for any number *)
(* of them, though all take it from mpentry_kstack.                        *)
THEOREM BootOwnStack ==
  ASSUME \A t \in Tables : InOrder(t)
  PROVE  Spec => []OwnStack
<1>1. BootInv => OwnStack
  BY DEF BootInv, LoopInv, OwnStack, cpunum
<1>2. QED
  BY <1>1, BootInvariant, PTL

(* boot_aps starts the processors one at a time. *)
THEOREM BootOneAtATime ==
  ASSUME \A t \in Tables : InOrder(t)
  PROVE  Spec => []OneAtATime
<1>1. BootInv => OneAtATime
  BY DEF BootInv, LoopInv, OneAtATime, Busy
<1>2. QED
  BY <1>1, BootInvariant, PTL

(* bootcpu is the entry of the processor that executes mp_init, or the     *)
(* place behind cpus[] exactly if that has no room for it; and every other *)
(* STARTED mark was set by the processor it stands for.                    *)
THEOREM BootBootcpuIsSelf ==
  ASSUME \A t \in Tables : InOrder(t)
  PROVE  Spec => []BootcpuIsSelf
<1>1. BootInv => BootcpuIsSelf
  <2> SUFFICES ASSUME BootInv, phase # "mp_init", table # <<>>
               PROVE  /\ bootcpu = IF Self < NCPU THEN Self ELSE NCPU
                      /\ cpu_status[bootcpu] = "STARTED"
                      /\ \A k \in 0 .. NCPU :
                           cpu_status[k] = "STARTED" /\ k # bootcpu
                             => k \in Apic /\ ap[k] = "up"
    BY DEF BootcpuIsSelf
  <2>1. bootcpu = IF Self < NCPU THEN Self ELSE NCPU
    <3>1. InOrder(table)
      BY DEF BootInv, TypeOK
    <3>2. QED
      BY <3>1, BootcpuSelf DEF BootInv
  <2>2. QED
    BY <2>1 DEF BootInv, LoopInv
<1>2. QED
  BY <1>1, BootInvariant, PTL
=============================================================================

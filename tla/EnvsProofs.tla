----------------------------- MODULE EnvsProofs -----------------------------
(***************************************************************************)
(* For any number of CPUs, slots and pages: ids are valid and unique, an   *)
(* environment runs on one CPU and is freed on no other, the free list is  *)
(* exact, and only its maker or itself destroys an environment.            *)
(***************************************************************************)
EXTENDS Envs, SequenceTheorems, FiniteSetTheorems, TLAPS

------------------------------------------------------------------------------
(* Arithmetic on ids. *)

(* Quotient and remainder are what they are multiplied out to. *)
LEMMA DivModUnique ==
  ASSUME NEW n \in Nat \ {0}, NEW x \in Int, NEW q \in Int,
         NEW r \in 0 .. n - 1, x = n * q + r
  PROVE  x % n = r /\ x \div n = q
  OBVIOUS

(* Division with remainder. *)
LEMMA DivModExists ==
  ASSUME NEW n \in Nat \ {0}, NEW x \in Int
  PROVE  /\ x \div n \in Int /\ x % n \in 0 .. n - 1
         /\ x = n * (x \div n) + (x % n)
  OBVIOUS

(* An int holds a whole number of generations, and a generation a whole    *)
(* number of slots.                                                        *)
LEMMA Sizes ==
  /\ Generations \in Nat \ {0}
  /\ INTLIM = ENVGEN * (Generations + 1)
  /\ ENVGEN \div NENV \in Nat \ {0}
  /\ ENVGEN = NENV * (ENVGEN \div NENV)
  /\ NENV <= ENVGEN
<1> USE IdAssumption
<1> DEFINE q == INTLIM \div ENVGEN
           p == ENVGEN \div NENV
<1>1. q \in Int /\ INTLIM = ENVGEN * q
  BY DivModExists
<1>2. p \in Int /\ ENVGEN = NENV * p
  BY DivModExists
<1> HIDE DEF q, p
<1>3. q > 1
  BY <1>1
<1>4. p > 0 /\ NENV <= ENVGEN
  BY <1>2
<1>5. Generations = q - 1
  BY DEF Generations, q
<1>6. QED
  BY <1>1, <1>2, <1>3, <1>4, <1>5 DEF p

(* There is at least one generation. *)
LEMMA GenerationsType == Generations \in Nat \ {0}
  BY Sizes

(* The generation of the k-th environment of a slot, and its id. *)
Generation(k) == ((k - 1) % Generations) + 1
IdAt(e, k) == ENVGEN * Generation(k) + e

(* Generations run from 1 to their number and start again. *)
LEMMA GenerationFacts ==
  ASSUME NEW k \in Nat \ {0}
  PROVE  /\ Generation(k) \in 1 .. Generations
         /\ Generation(1) = 1
         /\ Generation(k + 1) =
              IF Generation(k) = Generations THEN 1 ELSE Generation(k) + 1
<1> USE GenerationsType
<1> DEFINE q == (k - 1) \div Generations
           r == (k - 1) % Generations
<1>1. q \in Int /\ r \in 0 .. Generations - 1 /\ k - 1 = Generations * q + r
  BY DivModExists
<1>2. Generation(k) = r + 1
  BY DEF Generation
<1>3. Generation(1) = 1
  <2>1. 0 % Generations = 0
    BY DivModUnique
  <2>2. QED
    BY <2>1 DEF Generation
<1> HIDE DEF q, r
<1>4. CASE r = Generations - 1
  <2>1. k = Generations * (q + 1) + 0
    BY <1>1, <1>4
  <2>2. k % Generations = 0
    BY <1>1, <2>1, DivModUnique
  <2>3. Generation(k + 1) = 1
    BY <2>2 DEF Generation
  <2>4. QED
    BY <1>1, <1>2, <1>3, <1>4, <2>3
<1>5. CASE r # Generations - 1
  <2>1. /\ k = Generations * q + (r + 1) /\ r + 1 \in 0 .. Generations - 1
        /\ q \in Int /\ k \in Int
    BY <1>1, <1>5
  <2>2. k % Generations = r + 1
    BY <2>1, DivModUnique
  <2>3. Generation(k + 1) = r + 2
    BY <1>1, <2>2 DEF Generation
  <2>4. QED
    BY <1>1, <1>2, <1>3, <1>5, <2>3
<1>6. QED
  BY <1>4, <1>5

(* An id is positive, fits an int and has its slot in the low bits. *)
LEMMA IdFacts ==
  ASSUME NEW e \in Slot, NEW g \in 1 .. Generations
  PROVE  /\ ENVGEN * g + e \in 1 .. INTLIM - 1
         /\ (ENVGEN * g + e) % NENV = e
<1> DEFINE p == ENVGEN \div NENV
<1>1. /\ p \in Nat \ {0} /\ ENVGEN = NENV * p
      /\ NENV \in Nat \ {0} /\ ENVGEN \in Nat \ {0} /\ NENV <= ENVGEN
      /\ INTLIM = ENVGEN * (Generations + 1)
      /\ Generations \in Nat /\ g \in Nat \ {0} /\ g <= Generations
      /\ e \in 0 .. NENV - 1
  BY IdAssumption, Sizes DEF Slot
<1> HIDE DEF p
<1>2. ENVGEN * g >= ENVGEN
  BY <1>1
<1>3. ENVGEN * g <= ENVGEN * Generations
  BY <1>1
<1>4. INTLIM = ENVGEN * Generations + ENVGEN
  BY <1>1
<1>5. ENVGEN * g + e = NENV * (p * g) + e
  BY <1>1
<1>6. p * g \in Int
  BY <1>1
<1>7. (ENVGEN * g + e) % NENV = e
  BY <1>1, <1>5, <1>6, DivModUnique
<1>8. QED
  BY <1>1, <1>2, <1>3, <1>4, <1>7

(* The k-th id of a slot is a valid one. *)
LEMMA IdAtFacts ==
  ASSUME NEW e \in Slot, NEW k \in Nat \ {0}
  PROVE  IdAt(e, k) \in 1 .. INTLIM - 1 /\ IdAt(e, k) % NENV = e
<1>1. Generation(k) \in 1 .. Generations
  BY GenerationFacts
<1>2. QED
  BY <1>1, IdFacts DEF IdAt

(* Adding a generation to an int: it stays as it is, or wraps around. *)
LEMMA WrapFacts ==
  ASSUME NEW x \in 0 .. 2 * INTLIM - 1
  PROVE  Wrap(x) = IF x < INTLIM THEN x ELSE x - 2 * INTLIM
<1> USE IdAssumption
<1>1. CASE x < INTLIM
  <2>1. x + INTLIM = (2 * INTLIM) * 0 + (x + INTLIM)
    OBVIOUS
  <2>2. (x + INTLIM) % (2 * INTLIM) = x + INTLIM
    BY <1>1
  <2>3. QED
    BY <1>1, <2>2 DEF Wrap
<1>2. CASE x >= INTLIM
  <2>1. (x + INTLIM) % (2 * INTLIM) = x - INTLIM
    BY <1>2
  <2>2. QED
    BY <1>2, <2>1 DEF Wrap
<1>3. QED
  BY <1>1, <1>2

(* env_alloc's computation goes from one id of a slot to the next, through *)
(* the overflow of the generation as well.                                 *)
LEMMA NewIdNext ==
  ASSUME NEW e \in Slot, NEW k \in Nat \ {0}, env_id[e] = IdAt(e, k)
  PROVE  NewId(e) = IdAt(e, k + 1)
<1> DEFINE g == Generation(k)
           p == ENVGEN \div NENV
           x == env_id[e] + ENVGEN
<1>0. /\ g \in 1 .. Generations /\ Generations \in Nat
      /\ Generation(k + 1) = IF g = Generations THEN 1 ELSE g + 1
      /\ env_id[e] = ENVGEN * g + e
  BY GenerationFacts, GenerationsType DEF IdAt
<1>1. /\ p \in Nat \ {0} /\ ENVGEN = NENV * p
      /\ NENV \in Nat \ {0} /\ ENVGEN \in Nat \ {0} /\ NENV <= ENVGEN
      /\ INTLIM = ENVGEN * (Generations + 1) /\ INTLIM \in Nat \ {0}
      /\ e \in 0 .. NENV - 1
  BY IdAssumption, Sizes DEF Slot
<1>2. NewId(e) = (IF Wrap(x) - (Wrap(x) % NENV) <= 0 THEN ENVGEN
                  ELSE Wrap(x) - (Wrap(x) % NENV)) + e
  BY DEF NewId
<1> HIDE DEF g, p, x
<1>3. x = ENVGEN * (g + 1) + e
  BY <1>0, <1>1 DEF x
<1>4. CASE g # Generations
  <2>1. g + 1 \in 1 .. Generations
    BY <1>0, <1>4
  <2>2. x \in 1 .. INTLIM - 1 /\ x % NENV = e
    BY <1>3, <2>1, IdFacts
  <2>3. Wrap(x) = x
    BY <1>1, <2>2, WrapFacts
  <2>4. x - e = ENVGEN * (g + 1)
    BY <1>0, <1>1, <1>3
  <2>5. ENVGEN * (g + 1) > 0
    BY <1>1, <2>1
  <2>6. NewId(e) = x
    BY <1>1, <1>2, <2>2, <2>3, <2>4, <2>5
  <2>7. QED
    BY <1>0, <1>3, <1>4, <2>6 DEF IdAt
<1>5. CASE g = Generations
  <2>1. x = INTLIM + e
    BY <1>1, <1>3, <1>5
  <2>2. ENVGEN <= INTLIM
    BY IdAssumption
  <2>3. Wrap(x) = e - INTLIM
    BY <1>1, <2>1, <2>2, WrapFacts
  <2>4. e - INTLIM = NENV * (0 - (p * (Generations + 1))) + e
    BY <1>0, <1>1
  <2>5. /\ 0 - (p * (Generations + 1)) \in Int /\ e - INTLIM \in Int
        /\ NENV \in Nat \ {0} /\ e \in 0 .. NENV - 1
    BY <1>0, <1>1
  <2>6. (e - INTLIM) % NENV = e
    BY <2>4, <2>5, DivModUnique
  <2>7. NewId(e) = ENVGEN + e
    BY <1>1, <1>2, <2>3, <2>6
  <2>8. ENVGEN = ENVGEN * 1
    BY <1>1
  <2>9. QED
    BY <1>0, <1>5, <2>7, <2>8 DEF IdAt
<1>6. QED
  BY <1>4, <1>5

(* The first id of a slot comes from the zero in a fresh envs array. *)
LEMMA NewIdFirst ==
  ASSUME NEW e \in Slot, env_id[e] = 0
  PROVE  NewId(e) = IdAt(e, 1)
<1>1. /\ ENVGEN \in Nat \ {0} /\ INTLIM \in Nat \ {0} /\ ENVGEN < INTLIM
      /\ NENV \in Nat \ {0} /\ ENVGEN % NENV = 0
  BY IdAssumption
<1>2. IdAt(e, 1) = ENVGEN + e
  <2>1. Generation(1) = 1
    BY GenerationFacts
  <2>2. ENVGEN * 1 = ENVGEN
    BY <1>1
  <2>3. QED
    BY <2>1, <2>2 DEF IdAt
<1>3. Wrap(ENVGEN) = ENVGEN
  BY <1>1, WrapFacts
<1>4. 0 + ENVGEN = ENVGEN /\ ENVGEN - 0 = ENVGEN
  BY <1>1
<1>5. QED
  BY <1>1, <1>2, <1>3, <1>4 DEF NewId

------------------------------------------------------------------------------
(* Types and ids. *)

(* k environments of slot q were made when its k-th one made e. *)
MadeBy(q, k, id) ==
  q \in Slot /\ k \in 1 .. Len(history[q]) /\ id = history[q][k]

(* The maker that parent records is the one env_parent_id names. *)
MakerKnown(e) ==
  \/ parent[e] = NULL /\ env_parent_id[e] = 0
  \/ \E q \in Slot, k \in Nat :
       parent[e] = <<q, k>> /\ MadeBy(q, k, env_parent_id[e])

(* The ids of a slot are those of its generations in turn, and env_id is   *)
(* the latest of them; a slot in use has an id, a directory and a maker.   *)
SlotInv(e) ==
  /\ \A k \in 1 .. Len(history[e]) : history[e][k] = IdAt(e, k)
  /\ env_id[e] = IF history[e] = <<>> THEN 0 ELSE IdAt(e, Len(history[e]))
  /\ Len(history[e]) <= MaxBirths
  /\ env_status[e] # "FREE" =>
       history[e] # <<>> /\ env_pgdir[e] # NULL /\ MakerKnown(e)

(* A CPU in user mode has a curenv, which is an environment that was made. *)
CpuInv ==
  \A c \in CPU :
    /\ where[c] \in {"user", "debug"} => curenv[c] # NULL
    /\ curenv[c] # NULL => history[curenv[c]] # <<>>

IdInv == TypeOK /\ (\A e \in Slot : SlotInv(e)) /\ CpuInv

(* env_init establishes the invariant on ids. *)
LEMMA InitIdInv == Init => IdInv
<1> SUFFICES ASSUME Init PROVE IdInv
  OBVIOUS
<1> USE IdAssumption, EnvsAssumption DEF Slot
<1>1. TypeOK
  <2>1. env_free_list \in Seq(Slot)
    <3>1. env_free_list \in [1 .. NENV -> Slot]
      BY DEF Init
    <3>2. QED
      BY <3>1, SeqDef
  <2>2. QED
    BY <2>1 DEF Init, TypeOK, Status, Place
<1>2. QED
  BY <1>1 DEF Init, IdInv, SlotInv, CpuInv

(* A new environment: its id is the next of its slot. *)
LEMMA AllocIdInv ==
  ASSUME IdInv, NEW e \in Slot, NEW f \in Frame, NEW id, NEW p, NEW status,
         env_alloc(e, f, id, p, status), UNCHANGED <<curenv, cr3, where, left>>,
         status \in {"RUNNABLE", "NOT_RUNNABLE"},
         \/ p = NULL /\ id = 0
         \/ \E q \in Slot, k \in Nat : p = <<q, k>> /\ MadeBy(q, k, id)
  PROVE  IdInv'
<1> DEFINE n == Len(history[e])
<1>1. n \in Nat /\ history[e] \in Seq(Nat) /\ (history[e] = <<>> <=> n = 0)
  BY DEF IdInv, TypeOK
<1>2. NewId(e) = IdAt(e, n + 1)
  <2>1. CASE n = 0
    BY <1>1, <2>1, NewIdFirst DEF IdInv, SlotInv
  <2>2. CASE n # 0
    BY <1>1, <2>2, NewIdNext DEF IdInv, SlotInv
  <2>3. QED
    BY <2>1, <2>2
<1>3. IdAt(e, n + 1) \in 1 .. INTLIM - 1
  BY <1>1, IdAtFacts
<1> HIDE DEF n
<1>4. /\ history' = [history EXCEPT ![e] = Append(@, IdAt(e, n + 1))]
      /\ env_id' = [env_id EXCEPT ![e] = IdAt(e, n + 1)]
      /\ env_pgdir' = [env_pgdir EXCEPT ![e] = f]
      /\ env_parent_id' = [env_parent_id EXCEPT ![e] = id]
      /\ env_status' = [env_status EXCEPT ![e] = status]
      /\ parent' = [parent EXCEPT ![e] = p]
      /\ env_free_list' = Tail(env_free_list) /\ env_free_list # <<>>
  BY <1>2 DEF env_alloc
<1>5. id \in 0 .. INTLIM - 1 /\ p \in (Slot \X Nat) \cup {NULL}
  <2>1. ASSUME NEW q \in Slot, NEW k \in Nat, p = <<q, k>>, MadeBy(q, k, id)
        PROVE  id \in 0 .. INTLIM - 1 /\ p \in (Slot \X Nat) \cup {NULL}
    <3>1. k \in 1 .. Len(history[q]) /\ id = history[q][k]
      BY <2>1 DEF MadeBy, IdInv, TypeOK
    <3>2. \A j \in 1 .. Len(history[q]) : history[q][j] = IdAt(q, j)
      BY DEF IdInv, SlotInv
    <3>3. k \in Nat \ {0} /\ id = IdAt(q, k)
      BY <3>1, <3>2
    <3>4. QED
      BY <2>1, <3>3, IdAtFacts
  <2>2. QED
    BY <2>1, IdAssumption
<1>6. TypeOK'
  <2>1. env_free_list' \in Seq(Slot)
    BY <1>4 DEF IdInv, TypeOK
  <2>2. history' \in [Slot -> Seq(Nat)]
    BY <1>3, <1>4 DEF IdInv, TypeOK
  <2>3. QED
    BY <1>3, <1>4, <1>5, <2>1, <2>2 DEF IdInv, TypeOK, Status
<1>7. \A x \in Slot : x # e => history'[x] = history[x]
  BY <1>4 DEF IdInv, TypeOK
<1>8. /\ Len(history'[e]) = n + 1 /\ history'[e][n + 1] = IdAt(e, n + 1)
      /\ \A k \in 1 .. n : history'[e][k] = history[e][k]
      /\ history'[e] # <<>>
  BY <1>1, <1>3, <1>4 DEF IdInv, TypeOK, n
<1>9. ASSUME NEW q \in Slot, NEW k \in Nat, NEW i, MadeBy(q, k, i)
      PROVE  MadeBy(q, k, i)'
  BY <1>1, <1>7, <1>8, <1>9 DEF MadeBy, n
<1>10. ASSUME NEW x \in Slot PROVE SlotInv(x)'
  <2>1. CASE x = e
    <3>1. MakerKnown(e)'
      BY <1>4, <1>9 DEF MakerKnown, IdInv, TypeOK
    <3>2. \A k \in 1 .. Len(history'[e]) : history'[e][k] = IdAt(e, k)
      <4>1. \A k \in 1 .. n : history[e][k] = IdAt(e, k)
        BY DEF IdInv, SlotInv, n
      <4>2. ASSUME NEW k \in 1 .. n + 1, k # n + 1 PROVE k \in 1 .. n
        BY <1>1, <4>2 DEF n
      <4>3. QED
        BY <1>8, <4>1, <4>2
    <3>3. env_id'[e] = IdAt(e, Len(history'[e]))
      BY <1>4, <1>8 DEF IdInv, TypeOK
    <3>4. env_pgdir'[e] # NULL
      BY <1>4, EnvsAssumption DEF IdInv, TypeOK
    <3>5. Len(history'[e]) <= MaxBirths
      BY <1>1, <1>8, EnvsAssumption DEF env_alloc, n
    <3>6. QED
      BY <1>8, <2>1, <3>1, <3>2, <3>3, <3>4, <3>5 DEF SlotInv
  <2>2. CASE x # e
    <3>1. SlotInv(x)
      BY DEF IdInv
    <3>2. /\ env_id'[x] = env_id[x] /\ env_status'[x] = env_status[x]
          /\ env_pgdir'[x] = env_pgdir[x] /\ parent'[x] = parent[x]
          /\ env_parent_id'[x] = env_parent_id[x]
      BY <1>4, <2>2 DEF IdInv, TypeOK
    <3>3. MakerKnown(x) => MakerKnown(x)'
      BY <1>9, <3>2 DEF MakerKnown
    <3>4. QED
      BY <1>7, <2>2, <3>1, <3>2, <3>3 DEF SlotInv
  <2>3. QED
    BY <2>1, <2>2
<1>11. CpuInv'
  BY <1>7, <1>8 DEF IdInv, CpuInv, TypeOK
<1>12. QED
  BY <1>6, <1>10, <1>11 DEF IdInv

(* Changes of status, and env_free, leave ids and makers alone. *)
LEMMA StatusIdInv ==
  ASSUME IdInv, TypeOK',
         UNCHANGED <<env_id, env_parent_id, history, parent>>, CpuInv',
         \A e \in Slot :
           env_status'[e] # "FREE" =>
             env_status[e] # "FREE" /\ env_pgdir'[e] = env_pgdir[e]
  PROVE  IdInv'
<1>1. ASSUME NEW e \in Slot PROVE SlotInv(e)'
  <2>1. SlotInv(e)
    BY DEF IdInv
  <2>2. MakerKnown(e) => MakerKnown(e)'
    BY DEF MakerKnown, MadeBy
  <2>3. QED
    BY <2>1, <2>2 DEF SlotInv
<1>2. QED
  BY <1>1 DEF IdInv

(* env_free keeps the invariant on ids. *)
LEMMA FreeIdInv ==
  ASSUME IdInv, NEW e \in Slot, env_free(e),
         \/ UNCHANGED <<curenv, cr3, where, left>>
         \/ \E c \in CPU : /\ cr3' = [cr3 EXCEPT ![c] = KERN]
                           /\ curenv' = [curenv EXCEPT ![c] = NULL]
                           /\ where' = [where EXCEPT ![c] = "sched"]
                           /\ left' = left
  PROVE  IdInv'
<1>1. env_free_list' \in Seq(Slot)
  BY DEF env_free, IdInv, TypeOK
<1>2. TypeOK'
  BY <1>1 DEF env_free, IdInv, TypeOK, Status, Place
<1>3. \A x \in Slot :
        env_status'[x] # "FREE" =>
          env_status[x] # "FREE" /\ env_pgdir'[x] = env_pgdir[x]
  BY DEF env_free, IdInv, TypeOK
<1>4. CpuInv'
  BY DEF env_free, IdInv, TypeOK, CpuInv
<1>5. QED
  BY <1>2, <1>3, <1>4, StatusIdInv DEF env_free

(* env_destroy keeps the invariant on ids. *)
LEMMA DestroyIdInv ==
  ASSUME IdInv, NEW e \in Slot, NEW c \in CPU, env_destroy(e, c)
  PROVE  IdInv'
<1>1. CASE env_free(e) /\ UNCHANGED <<curenv, cr3, where, left>>
  BY <1>1, FreeIdInv
<1>2. CASE curenv[c] = e /\ FreeCurenv(c)
  BY <1>2, FreeIdInv DEF FreeCurenv
<1>3. CASE /\ env_status[e] = "RUNNING"
           /\ env_status' = [env_status EXCEPT ![e] = "DYING"]
           /\ UNCHANGED <<env_id, env_parent_id, env_pgdir, env_free_list,
                          history, parent, curenv, cr3, where, left>>
  <2>1. TypeOK'
    BY <1>3 DEF IdInv, TypeOK, Status
  <2>2. QED
    BY <1>3, <2>1, StatusIdInv DEF IdInv, TypeOK, CpuInv
<1>4. QED
  BY <1>1, <1>2, <1>3 DEF env_destroy

(* A CPU in user mode has a current environment. *)
LEMMA TrapCurenv ==
  ASSUME IdInv, NEW c \in CPU, where[c] = "user"
  PROVE  curenv[c] \in Slot
  BY DEF IdInv, TypeOK, CpuInv

(* Every step keeps the invariant on ids. *)
LEMMA StepIdInv == IdInv /\ [Next]_vars => IdInv'
<1> SUFFICES ASSUME IdInv, [Next]_vars PROVE IdInv'
  OBVIOUS
<1>1. CASE UNCHANGED vars
  <2>1. TypeOK'
    BY <1>1 DEF vars, IdInv, TypeOK
  <2>2. QED
    BY <1>1, <2>1, StatusIdInv DEF vars, IdInv, CpuInv
<1>2. ASSUME NEW e \in Slot, NEW f \in Frame, EnvCreate(e, f) PROVE IdInv'
  BY <1>2, AllocIdInv DEF EnvCreate
<1>3. ASSUME NEW c \in CPU,
             BootDone \/ ApStart(c) \/ TrapBreakpoint(c) \/ SysYield(c)
      PROVE  IdInv'
  <2>1. TypeOK'
    BY <1>3, EnvsAssumption DEF BootDone, ApStart, TrapBreakpoint, SysYield,
       Trap, envs, IdInv, TypeOK, Place
  <2>2. CpuInv'
    BY <1>3, EnvsAssumption DEF BootDone, ApStart, TrapBreakpoint, SysYield,
       Trap, envs, IdInv, TypeOK, CpuInv
  <2>3. UNCHANGED envs
    BY <1>3 DEF BootDone, ApStart, TrapBreakpoint, SysYield
  <2>4. QED
    BY <2>1, <2>2, <2>3, StatusIdInv DEF envs
<1>4. ASSUME NEW c \in CPU, TrapZombie(c) PROVE IdInv'
  BY <1>4, TrapCurenv, FreeIdInv DEF TrapZombie, FreeCurenv
<1>5. ASSUME NEW c \in CPU, TrapFatal(c) PROVE IdInv'
  <2>1. curenv[c] \in Slot
    BY <1>5, TrapCurenv DEF TrapFatal, Trap
  <2>2. FreeCurenv(c)
    BY <1>5 DEF TrapFatal, env_destroy
  <2>3. QED
    BY <2>1, <2>2, FreeIdInv DEF FreeCurenv
<1>6. ASSUME NEW c \in CPU, NEW id, NEW e \in Slot, SysEnvDestroy(c, id, e)
      PROVE  IdInv'
  BY <1>6, DestroyIdInv DEF SysEnvDestroy
<1>7. ASSUME NEW c \in CPU, NEW id, NEW e \in Slot, SysEnvSetStatus(c, id, e)
      PROVE  IdInv'
  <2>1. TypeOK'
    BY <1>7 DEF SysEnvSetStatus, IdInv, TypeOK, Status
  <2>2. QED
    BY <1>7, <2>1, StatusIdInv DEF SysEnvSetStatus, IdInv, TypeOK, CpuInv
<1>8. ASSUME NEW c \in CPU, NEW e \in Slot, NEW f \in Frame,
             SysExofork(c, e, f)
      PROVE  IdInv'
  <2> DEFINE q == curenv[c]
             k == Len(history[q])
  <2>1. q \in Slot
    BY <1>8, TrapCurenv DEF SysExofork, Trap
  <2>2. k \in Nat \ {0} /\ env_id[q] = IdAt(q, k) /\ history[q][k] = IdAt(q, k)
    BY <2>1, EnvsAssumption DEF IdInv, TypeOK, SlotInv, CpuInv
  <2>3. MadeBy(q, k, env_id[q])
    BY <2>1, <2>2 DEF MadeBy
  <2> HIDE DEF q, k
  <2>4. /\ env_alloc(e, f, env_id[q], <<q, k>>, "NOT_RUNNABLE")
        /\ UNCHANGED <<curenv, cr3, where, left>>
    BY <1>8 DEF SysExofork, q, k
  <2>5. \E x \in Slot, y \in Nat :
          <<q, k>> = <<x, y>> /\ MadeBy(x, y, env_id[q])
    BY <2>1, <2>2, <2>3
  <2>6. QED
    BY <2>4, <2>5, AllocIdInv
<1>9. ASSUME NEW c \in CPU, NEW e \in Slot, SchedRun(c, e) PROVE IdInv'
  <2>1. env_status[e] # "FREE"
    BY <1>9 DEF SchedRun, Running
  <2>2. env_pgdir[e] \in Frame
    BY <2>1 DEF IdInv, TypeOK, SlotInv
  <2>3. TypeOK'
    BY <1>9, <2>2 DEF SchedRun, env_run, IdInv, TypeOK, Status, Place
  <2>4. CpuInv'
    BY <1>9, <2>1, EnvsAssumption
    DEF SchedRun, env_run, IdInv, TypeOK, CpuInv, SlotInv
  <2>5. \A x \in Slot : env_status'[x] # "FREE" => env_status[x] # "FREE"
    BY <1>9, <2>1 DEF SchedRun, env_run, Running, IdInv, TypeOK
  <2>6. QED
    BY <1>9, <2>3, <2>4, <2>5, StatusIdInv DEF SchedRun
<1>10. ASSUME NEW c \in CPU, SchedHalt(c) PROVE IdInv'
  <2>1. TypeOK'
    BY <1>10 DEF SchedHalt, envs, IdInv, TypeOK, Place
  <2>2. CpuInv'
    BY <1>10 DEF SchedHalt, envs, IdInv, TypeOK, CpuInv
  <2>3. QED
    BY <1>10, <2>1, <2>2, StatusIdInv DEF SchedHalt, envs
<1>11. QED
  BY <1>1, <1>2, <1>3, <1>4, <1>5, <1>6, <1>7, <1>8, <1>9, <1>10,
     EnvsAssumption DEF Next

(* Types and the sequence of ids, whatever callers do. *)
THEOREM EnvsIdInvariant == Spec => []IdInv
  BY InitIdInv, StepIdInv, PTL DEF Spec

(* Type correctness: no id overflows into the sign bit, cr3 always holds a *)
(* directory, and curenv is never followed when it is null.                *)
THEOREM EnvsTypeCorrect == Spec => []TypeOK
<1>1. IdInv => TypeOK
  BY DEF IdInv
<1>2. QED
  BY <1>1, EnvsIdInvariant, PTL

(* env_alloc's ids are positive and carry their slot, after any number of  *)
(* environments in a slot.                                                 *)
THEOREM EnvsIdsValid == Spec => []IdsValid
<1>1. IdInv => IdsValid
  <2> SUFFICES ASSUME IdInv, NEW e \in Slot, env_status[e] # "FREE"
               PROVE  env_id[e] > 0 /\ env_id[e] % NENV = e
    BY DEF IdsValid
  <2>1. /\ Len(history[e]) \in Nat \ {0}
        /\ env_id[e] = IdAt(e, Len(history[e]))
    BY DEF IdInv, TypeOK, SlotInv
  <2>2. QED
    BY <2>1, IdAtFacts
<1>2. QED
  BY <1>1, EnvsIdInvariant, PTL

(* Environments of a slot with fewer than Generations others between them  *)
(* have different generations.                                             *)
LEMMA GenerationsDiffer ==
  ASSUME NEW k \in Nat \ {0}, NEW l \in Nat \ {0},
         k < l, l < k + Generations
  PROVE  Generation(k) # Generation(l)
<1> DEFINE q == (k - 1) \div Generations
           r == (k - 1) % Generations
           p == (l - 1) \div Generations
           s == (l - 1) % Generations
<1>1. q \in Int /\ r \in 0 .. Generations - 1 /\ k - 1 = Generations * q + r
  BY DivModExists, GenerationsType
<1>2. p \in Int /\ s \in 0 .. Generations - 1 /\ l - 1 = Generations * p + s
  BY DivModExists, GenerationsType
<1> SUFFICES ASSUME r = s PROVE FALSE
  BY GenerationsType, <1>1, <1>2 DEF Generation
<1> HIDE DEF q, r, p, s
<1>3. l - k = Generations * (p - q)
  BY <1>1, <1>2, GenerationsType
<1>4. 0 < Generations * (p - q) /\ Generations * (p - q) < Generations
  BY <1>3, GenerationsType
<1>5. p - q \in Int
  BY <1>1, <1>2
<1>6. QED
  BY <1>4, <1>5, GenerationsType

(* So their ids differ. *)
LEMMA IdsDiffer ==
  ASSUME NEW e \in Slot, NEW k \in Nat \ {0}, NEW l \in Nat \ {0},
         k < l, l < k + Generations
  PROVE  IdAt(e, k) # IdAt(e, l)
<1> DEFINE g == Generation(k)
           h == Generation(l)
           x == ENVGEN * g
           y == ENVGEN * h
<1>1. g # h /\ g \in Int /\ h \in Int
  BY GenerationsDiffer, GenerationFacts
<1> HIDE DEF g, h
<1>2. x # y /\ x \in Int /\ y \in Int /\ e \in Int
  BY <1>1, IdAssumption DEF Slot
<1>3. IdAt(e, k) = x + e /\ IdAt(e, l) = y + e
  BY DEF IdAt, g, h
<1> HIDE DEF x, y
<1>4. QED
  BY <1>2, <1>3

(* The uniqueifier: an id comes back only after all generations of its     *)
(* slot, for any width of int and any number of environments.              *)
THEOREM EnvsIdsUnique == Spec => []IdsUnique
<1>1. IdInv => IdsUnique
  <2> SUFFICES ASSUME IdInv, NEW e \in Slot,
                      NEW k \in DOMAIN history[e], NEW l \in DOMAIN history[e],
                      k < l, l < k + Generations
               PROVE  history[e][k] # history[e][l]
    BY DEF IdsUnique
  <2>1. DOMAIN history[e] = 1 .. Len(history[e]) /\ Len(history[e]) \in Nat
    BY DEF IdInv, TypeOK
  <2>2. history[e][k] = IdAt(e, k) /\ history[e][l] = IdAt(e, l)
    BY <2>1 DEF IdInv, SlotInv
  <2>3. QED
    BY <2>1, <2>2, IdsDiffer
<1>2. QED
  BY <1>1, EnvsIdInvariant, PTL

------------------------------------------------------------------------------
(* Ownership, as long as callers do not destroy a zombie again. *)

(* The places in which a CPU holds the kernel lock: one CPU at a time. *)
KernelPlace == {"boot", "sched", "debug", "idle"}

KernelExclusive ==
  \A c, d \in CPU : where[c] \in KernelPlace /\ where[d] \in KernelPlace => c = d

(* Between traps a CPU with a curenv is in user mode or at a breakpoint;   *)
(* one that has come to sched_yield with a curenv may go on running it,    *)
(* since no other CPU can have marked it meanwhile.                        *)
CurenvPlace ==
  \A c \in CPU : curenv[c] # NULL =>
    /\ where[c] \in {"user", "debug", "sched"}
    /\ where[c] = "sched" => env_status[curenv[c]] = "RUNNING"

(* Only a CPU that halted has left an environment behind. *)
LeftPlace == \A c \in CPU : left[c] # NULL => where[c] = "halted"

(* FreeListExact without its cardinality: no slot is on the list twice. *)
FreeListInv ==
  /\ \A k \in 1 .. Len(env_free_list) : env_status[env_free_list[k]] = "FREE"
  /\ \A e \in Slot : env_status[e] = "FREE" =>
       \E k \in 1 .. Len(env_free_list) : env_free_list[k] = e
  /\ \A j, k \in 1 .. Len(env_free_list) :
       env_free_list[j] = env_free_list[k] => j = k

DirectoriesInv ==
  /\ \A e \in Slot : env_pgdir[e] = NULL <=> env_status[e] = "FREE"
  /\ \A e, f \in Slot :
       env_pgdir[e] = env_pgdir[f] /\ env_pgdir[e] # NULL => e = f

OwnInv ==
  /\ RunningOwned /\ Cr3Live /\ KernelExclusive /\ CurenvPlace /\ LeftPlace
  /\ FreeListInv /\ DirectoriesInv /\ IdleMeansNobody

(* env_init establishes the invariant on ownership. *)
LEMMA InitOwnInv == Init => OwnInv
<1> SUFFICES ASSUME Init PROVE OwnInv
  OBVIOUS
<1> USE IdAssumption, EnvsAssumption DEF Slot
<1>1. FreeListInv
  <2>1. /\ env_free_list = [k \in 1 .. NENV |-> k - 1]
        /\ Len(env_free_list) = NENV
    BY DEF Init
  <2>2. ASSUME NEW e \in Slot
        PROVE  \E k \in 1 .. Len(env_free_list) : env_free_list[k] = e
    <3>1. e + 1 \in 1 .. NENV /\ env_free_list[e + 1] = e
      BY <2>1
    <3>2. QED
      BY <2>1, <3>1
  <2>3. QED
    BY <2>1, <2>2 DEF Init, FreeListInv
<1>2. QED
  BY <1>1 DEF Init, OwnInv, RunningOwned, Cr3Live, KernelExclusive, KernelPlace,
     CurenvPlace, LeftPlace, DirectoriesInv, IdleMeansNobody

(* The free list loses its head, or gains one. *)
LEMMA TailFacts ==
  ASSUME NEW S, NEW s \in Seq(S), s # <<>>
  PROVE  /\ Len(s) \in Nat \ {0} /\ Len(Tail(s)) = Len(s) - 1
         /\ Head(s) = s[1]
         /\ \A k \in 1 .. Len(s) - 1 : Tail(s)[k] = s[k + 1]
  OBVIOUS

(* A list with a new head. *)
LEMMA PushFacts ==
  ASSUME NEW S, NEW s \in Seq(S), NEW x \in S
  PROVE  /\ Len(s) \in Nat /\ Len(<<x>> \o s) = Len(s) + 1
         /\ (<<x>> \o s)[1] = x
         /\ \A k \in 2 .. Len(s) + 1 : (<<x>> \o s)[k] = s[k - 1]
  OBVIOUS

(* env_alloc takes a slot nobody runs, and a page that is nobody's. *)
LEMMA AllocOwnInv ==
  ASSUME IdInv, OwnInv, NEW e \in Slot, NEW f \in Frame, NEW id, NEW p,
         NEW status, env_alloc(e, f, id, p, status),
         UNCHANGED <<curenv, cr3, where, left>>,
         status \in {"RUNNABLE", "NOT_RUNNABLE"}
  PROVE  OwnInv'
<1>1. /\ env_pgdir' = [env_pgdir EXCEPT ![e] = f]
      /\ env_status' = [env_status EXCEPT ![e] = status]
      /\ env_free_list' = Tail(env_free_list) /\ env_free_list # <<>>
      /\ e = Head(env_free_list)
      /\ \A x \in Slot : env_pgdir[x] # f
  BY DEF env_alloc, FreeFrame
<1>2. /\ env_free_list \in Seq(Slot)
      /\ env_status \in [Slot -> Status] /\ env_pgdir \in [Slot -> Frame \cup {NULL}]
  BY DEF IdInv, TypeOK
<1>3. /\ Len(env_free_list) \in Nat \ {0}
      /\ Len(env_free_list') = Len(env_free_list) - 1
      /\ e = env_free_list[1]
      /\ \A k \in 1 .. Len(env_free_list) - 1 :
           env_free_list'[k] = env_free_list[k + 1]
  BY <1>1, <1>2, TailFacts
<1>4. env_status[e] = "FREE"
  BY <1>3 DEF OwnInv, FreeListInv
<1>5. \A c \in CPU : curenv[c] # e /\ left[c] # e
  BY <1>4 DEF OwnInv, RunningOwned
<1>6. RunningOwned'
  BY <1>1, <1>2, <1>5 DEF OwnInv, RunningOwned
<1>7. Cr3Live'
  BY <1>1, <1>2, <1>5 DEF OwnInv, Cr3Live, IdInv, TypeOK
<1>8. FreeListInv'
  <2>1. ASSUME NEW k \in 1 .. Len(env_free_list')
        PROVE  /\ k + 1 \in 1 .. Len(env_free_list)
               /\ env_free_list'[k] = env_free_list[k + 1]
    BY <1>3
  <2>2. ASSUME NEW k \in 1 .. Len(env_free_list')
        PROVE  env_status'[env_free_list'[k]] = "FREE"
    <3>1. env_free_list[k + 1] # e
      BY <1>3, <2>1 DEF OwnInv, FreeListInv
    <3>2. env_free_list[k + 1] \in Slot
      BY <1>2, <2>1
    <3>3. QED
      BY <1>1, <1>2, <2>1, <3>1, <3>2 DEF OwnInv, FreeListInv
  <2>3. ASSUME NEW x \in Slot, env_status'[x] = "FREE"
        PROVE  \E k \in 1 .. Len(env_free_list') : env_free_list'[k] = x
    <3>1. x # e /\ env_status[x] = "FREE"
      BY <1>1, <1>2, <2>3
    <3>2. PICK k \in 1 .. Len(env_free_list) : env_free_list[k] = x
      BY <3>1 DEF OwnInv, FreeListInv
    <3>3. k # 1
      BY <1>3, <3>1, <3>2
    <3>4. /\ k - 1 \in 1 .. Len(env_free_list')
          /\ env_free_list'[k - 1] = env_free_list[(k - 1) + 1]
          /\ (k - 1) + 1 = k
      BY <1>3, <3>3
    <3>5. QED
      BY <3>2, <3>4
  <2>4. ASSUME NEW j \in 1 .. Len(env_free_list'),
               NEW k \in 1 .. Len(env_free_list'),
               env_free_list'[j] = env_free_list'[k]
        PROVE  j = k
    <3>1. j + 1 = k + 1
      BY <2>1, <2>4 DEF OwnInv, FreeListInv
    <3>2. QED
      BY <1>3, <3>1
  <2>5. QED
    BY <2>2, <2>3, <2>4 DEF FreeListInv
<1>9. DirectoriesInv'
  BY <1>1, <1>2, EnvsAssumption DEF OwnInv, DirectoriesInv
<1>10. CurenvPlace'
  BY <1>1, <1>2, <1>5 DEF OwnInv, CurenvPlace
<1>11. QED
  BY <1>6, <1>7, <1>8, <1>9, <1>10
  DEF OwnInv, KernelExclusive, IdleMeansNobody, LeftPlace

(* What env_free does to the list and the directories. *)
LEMMA FreeFreeListInv ==
  ASSUME IdInv, OwnInv, NEW e \in Slot, env_free(e), env_status[e] # "FREE"
  PROVE  FreeListInv' /\ DirectoriesInv'
<1>1. /\ env_pgdir' = [env_pgdir EXCEPT ![e] = NULL]
      /\ env_status' = [env_status EXCEPT ![e] = "FREE"]
      /\ env_free_list' = <<e>> \o env_free_list
  BY DEF env_free
<1>2. /\ env_free_list \in Seq(Slot)
      /\ env_status \in [Slot -> Status] /\ env_pgdir \in [Slot -> Frame \cup {NULL}]
  BY DEF IdInv, TypeOK
<1>3. /\ Len(env_free_list) \in Nat
      /\ Len(env_free_list') = Len(env_free_list) + 1
      /\ env_free_list'[1] = e
      /\ \A k \in 2 .. Len(env_free_list) + 1 :
           env_free_list'[k] = env_free_list[k - 1]
  BY <1>1, <1>2, PushFacts
<1>4. ASSUME NEW k \in 1 .. Len(env_free_list'), k # 1
      PROVE  /\ k - 1 \in 1 .. Len(env_free_list)
             /\ env_free_list'[k] = env_free_list[k - 1]
             /\ env_free_list[k - 1] \in Slot /\ env_free_list[k - 1] # e
  BY <1>2, <1>3, <1>4 DEF OwnInv, FreeListInv
<1>5. ASSUME NEW k \in 1 .. Len(env_free_list')
      PROVE  env_status'[env_free_list'[k]] = "FREE"
  BY <1>1, <1>2, <1>3, <1>4 DEF OwnInv, FreeListInv
<1>6. ASSUME NEW x \in Slot, env_status'[x] = "FREE"
      PROVE  \E k \in 1 .. Len(env_free_list') : env_free_list'[k] = x
  <2>1. CASE x = e
    BY <1>3, <2>1
  <2>2. CASE x # e
    <3>1. PICK k \in 1 .. Len(env_free_list) : env_free_list[k] = x
      BY <1>1, <1>2, <1>6, <2>2 DEF OwnInv, FreeListInv
    <3>2. /\ k + 1 \in 1 .. Len(env_free_list') /\ (k + 1) - 1 = k
          /\ env_free_list'[k + 1] = env_free_list[(k + 1) - 1]
      BY <1>3
    <3>3. QED
      BY <3>1, <3>2
  <2>3. QED
    BY <2>1, <2>2
<1>7. ASSUME NEW j \in 1 .. Len(env_free_list'),
             NEW k \in 1 .. Len(env_free_list'),
             env_free_list'[j] = env_free_list'[k]
      PROVE  j = k
  <2>1. CASE j = 1 \/ k = 1
    BY <1>3, <1>4, <1>7, <2>1
  <2>2. CASE j # 1 /\ k # 1
    <3>1. j - 1 = k - 1
      BY <1>4, <1>7, <2>2 DEF OwnInv, FreeListInv
    <3>2. QED
      BY <1>3, <3>1
  <2>3. QED
    BY <2>1, <2>2
<1>8. DirectoriesInv'
  BY <1>1, <1>2 DEF OwnInv, DirectoriesInv
<1>9. QED
  BY <1>5, <1>6, <1>7, <1>8 DEF FreeListInv

(* An environment that runs nowhere is freed from another CPU. *)
LEMMA FreeUnownedOwnInv ==
  ASSUME IdInv, OwnInv, NEW e \in Slot, env_free(e),
         UNCHANGED <<curenv, cr3, where, left>>,
         env_status[e] \in {"RUNNABLE", "NOT_RUNNABLE"}
  PROVE  OwnInv'
<1>1. /\ env_pgdir' = [env_pgdir EXCEPT ![e] = NULL]
      /\ env_status' = [env_status EXCEPT ![e] = "FREE"]
      /\ env_status \in [Slot -> Status] /\ env_pgdir \in [Slot -> Frame \cup {NULL}]
  BY DEF env_free, IdInv, TypeOK
<1>2. \A c \in CPU : curenv[c] # e /\ left[c] # e
  BY DEF OwnInv, RunningOwned
<1>3. FreeListInv' /\ DirectoriesInv'
  BY FreeFreeListInv
<1>4. RunningOwned'
  BY <1>1, <1>2 DEF OwnInv, RunningOwned
<1>5. Cr3Live'
  BY <1>1, <1>2 DEF OwnInv, Cr3Live, IdInv, TypeOK
<1>6. CurenvPlace'
  BY <1>1, <1>2 DEF OwnInv, CurenvPlace
<1>7. QED
  BY <1>3, <1>4, <1>5, <1>6
  DEF OwnInv, KernelExclusive, IdleMeansNobody, LeftPlace

(* A CPU frees the environment it was executing. *)
LEMMA FreeCurenvOwnInv ==
  ASSUME IdInv, OwnInv, NEW c \in CPU, where[c] = "user", KernelFree,
         FreeCurenv(c)
  PROVE  OwnInv'
<1> DEFINE e == curenv[c]
<1>1. e \in Slot /\ e # NULL /\ env_status[e] \in {"RUNNING", "DYING"}
  BY TrapCurenv, EnvsAssumption DEF OwnInv, RunningOwned
<1>2. env_free(e)
  BY DEF FreeCurenv
<1>3. FreeListInv' /\ DirectoriesInv'
  BY <1>1, <1>2, FreeFreeListInv
<1>4. \A d \in CPU : left[d] # e /\ (d # c => curenv[d] # e)
  BY <1>1 DEF OwnInv, RunningOwned
<1> HIDE DEF e
<1>5. /\ env_pgdir' = [env_pgdir EXCEPT ![e] = NULL]
      /\ env_status' = [env_status EXCEPT ![e] = "FREE"]
      /\ curenv' = [curenv EXCEPT ![c] = NULL] /\ curenv[c] = e
      /\ cr3' = [cr3 EXCEPT ![c] = KERN]
      /\ where' = [where EXCEPT ![c] = "sched"] /\ left' = left
  BY <1>2 DEF env_free, FreeCurenv, e
<1>6. /\ env_status \in [Slot -> Status] /\ env_pgdir \in [Slot -> Frame \cup {NULL}]
      /\ curenv \in [CPU -> Slot \cup {NULL}] /\ where \in [CPU -> Place]
      /\ cr3 \in [CPU -> Frame \cup {KERN}] /\ NULL \notin Slot
  BY EnvsAssumption DEF IdInv, TypeOK
<1>7. RunningOwned'
  <2>1. ASSUME NEW x \in Slot
        PROVE  env_status'[x] \in {"RUNNING", "DYING"}
                 <=> \E d \in CPU : x \in {curenv'[d], left'[d]}
    <3>1. CASE x = e
      BY <1>1, <1>4, <1>5, <1>6, <3>1
    <3>2. CASE x # e
      <4>1. env_status'[x] = env_status[x]
        BY <1>5, <1>6, <3>2
      <4>2. \A d \in CPU : curenv'[d] = x <=> curenv[d] = x
        BY <1>5, <1>6, <3>2
      <4>3. QED
        BY <1>5, <4>1, <4>2 DEF OwnInv, RunningOwned
    <3>3. QED
      BY <3>1, <3>2
  <2>2. QED
    BY <1>5, <1>6, <2>1 DEF OwnInv, RunningOwned
<1>8. Cr3Live'
  BY <1>1, <1>4, <1>5, <1>6 DEF OwnInv, Cr3Live
<1>9. KernelExclusive'
  BY <1>5, <1>6 DEF KernelFree, KernelExclusive, KernelPlace
<1>10. CurenvPlace'
  BY <1>1, <1>4, <1>5, <1>6 DEF OwnInv, CurenvPlace
<1>11. IdleMeansNobody'
  BY <1>5, <1>6 DEF OwnInv, IdleMeansNobody
<1>12. LeftPlace'
  BY <1>5, <1>6 DEF OwnInv, LeftPlace
<1>13. QED
  BY <1>3, <1>7, <1>8, <1>9, <1>10, <1>11, <1>12 DEF OwnInv

(* env_destroy marks an environment that another CPU is executing. *)
LEMMA MarkOwnInv ==
  ASSUME IdInv, OwnInv, NEW c \in CPU, NEW e \in Slot, where[c] = "user",
         KernelFree, curenv[c] # e, env_status[e] = "RUNNING",
         env_status' = [env_status EXCEPT ![e] = "DYING"],
         UNCHANGED <<env_pgdir, env_free_list, curenv, cr3, where, left>>
  PROVE  OwnInv'
<1>1. env_status \in [Slot -> Status] /\ env_free_list \in Seq(Slot)
  BY DEF IdInv, TypeOK
<1>2. FreeListInv' /\ DirectoriesInv'
  BY <1>1 DEF OwnInv, FreeListInv, DirectoriesInv
<1>3. RunningOwned'
  BY <1>1 DEF OwnInv, RunningOwned
<1>4. CurenvPlace'
  BY <1>1 DEF OwnInv, CurenvPlace, KernelFree
<1>5. QED
  BY <1>2, <1>3, <1>4
  DEF OwnInv, Cr3Live, KernelExclusive, IdleMeansNobody, LeftPlace

(* env_destroy, in each of its three cases. *)
LEMMA DestroyOwnInv ==
  ASSUME IdInv, OwnInv, NEW c \in CPU, NEW e \in Slot, where[c] = "user",
         KernelFree, env_status[e] \notin {"FREE", "DYING"}, env_destroy(e, c)
  PROVE  OwnInv'
<1>1. env_status[e] \in Status
  BY DEF IdInv, TypeOK
<1>2. CASE env_status[e] = "RUNNING" /\ curenv[c] # e
  BY <1>2, MarkOwnInv DEF env_destroy
<1>3. CASE env_status[e] # "RUNNING" /\ curenv[c] # e
  BY <1>1, <1>3, FreeUnownedOwnInv DEF env_destroy, Status
<1>4. CASE curenv[c] = e
  BY <1>4, FreeCurenvOwnInv DEF env_destroy
<1>5. QED
  BY <1>2, <1>3, <1>4

(* env_run: c leaves its old environment to others and takes e. *)
LEMMA RunOwnInv ==
  ASSUME IdInv, OwnInv, NEW c \in CPU, NEW e \in Slot, SchedRun(c, e)
  PROVE  OwnInv'
<1> USE EnvsAssumption
<1>1. /\ env_status \in [Slot -> Status] /\ env_free_list \in Seq(Slot)
      /\ env_pgdir \in [Slot -> Frame \cup {NULL}]
      /\ curenv \in [CPU -> Slot \cup {NULL}] /\ where \in [CPU -> Place]
      /\ cr3 \in [CPU -> Frame \cup {KERN}] /\ NULL \notin Slot
  BY DEF IdInv, TypeOK
<1>2. /\ curenv' = [curenv EXCEPT ![c] = e]
      /\ cr3' = [cr3 EXCEPT ![c] = env_pgdir[e]]
      /\ where' = [where EXCEPT ![c] = "user"] /\ where[c] = "sched"
      /\ UNCHANGED <<env_pgdir, env_free_list, left>>
  BY DEF SchedRun, env_run
<1>3. \A x \in Slot : env_status'[x] =
        IF x = e THEN "RUNNING"
        ELSE IF x = curenv[c] THEN "RUNNABLE" ELSE env_status[x]
  BY <1>1, <1>2 DEF SchedRun, env_run, Running, OwnInv, CurenvPlace
<1>4. env_status[e] = "RUNNABLE" \/ e = curenv[c]
  BY DEF SchedRun
<1>5. /\ env_status[e] # "FREE"
      /\ \A d \in CPU : left[d] # e /\ (d # c => curenv[d] # e)
  BY <1>1, <1>4 DEF OwnInv, RunningOwned, SchedRun, Running
<1>6. \A x \in Slot : env_status'[x] = "FREE" <=> env_status[x] = "FREE"
  BY <1>1, <1>3, <1>5 DEF OwnInv, RunningOwned
<1>7. FreeListInv' /\ DirectoriesInv'
  BY <1>1, <1>2, <1>6 DEF OwnInv, FreeListInv, DirectoriesInv
<1>8. RunningOwned'
  <2>1. ASSUME NEW x \in Slot
        PROVE  env_status'[x] \in {"RUNNING", "DYING"}
                 <=> \E d \in CPU : x \in {curenv'[d], left'[d]}
    <3>1. CASE x = e
      BY <1>1, <1>2, <1>3, <3>1
    <3>2. CASE x # e /\ x = curenv[c]
      BY <1>1, <1>2, <1>3, <3>2 DEF OwnInv, RunningOwned
    <3>3. CASE x # e /\ x # curenv[c]
      BY <1>1, <1>2, <1>3, <3>3 DEF OwnInv, RunningOwned
    <3>4. QED
      BY <3>1, <3>2, <3>3
  <2>2. \A a, b \in CPU : curenv'[a] # NULL =>
          curenv'[a] # left'[b] /\ (curenv'[a] = curenv'[b] => a = b)
    BY <1>1, <1>2, <1>5 DEF OwnInv, RunningOwned
  <2>3. QED
    BY <1>1, <1>2, <2>1, <2>2 DEF OwnInv, RunningOwned
<1>9. Cr3Live'
  BY <1>1, <1>2 DEF OwnInv, Cr3Live
<1>10. KernelExclusive'
  BY <1>1, <1>2 DEF OwnInv, KernelExclusive, KernelPlace
<1>11. CurenvPlace'
  <2>1. \A d \in CPU : d # c => where[d] # "sched"
    BY <1>2 DEF OwnInv, KernelExclusive, KernelPlace
  <2>2. QED
    BY <1>1, <1>2, <2>1 DEF OwnInv, CurenvPlace
<1>12. IdleMeansNobody'
  <2>1. \A d \in CPU : where[d] # "idle"
    BY <1>2 DEF OwnInv, KernelExclusive, KernelPlace
  <2>2. QED
    BY <1>1, <1>2, <2>1 DEF IdleMeansNobody
<1>13. LeftPlace'
  BY <1>1, <1>2 DEF OwnInv, LeftPlace
<1>14. QED
  BY <1>7, <1>8, <1>9, <1>10, <1>11, <1>12, <1>13 DEF OwnInv

(* sched_halt: what c was running becomes what it left, and with nothing   *)
(* alive nobody runs anything.                                             *)
LEMMA HaltOwnInv ==
  ASSUME IdInv, OwnInv, NEW c \in CPU, SchedHalt(c)
  PROVE  OwnInv'
<1> USE EnvsAssumption
<1>1. /\ curenv \in [CPU -> Slot \cup {NULL}] /\ where \in [CPU -> Place]
      /\ cr3 \in [CPU -> Frame \cup {KERN}] /\ NULL \notin Slot
      /\ left \in [CPU -> Slot \cup {NULL}]
  BY DEF IdInv, TypeOK
<1>2. where[c] = "sched" /\ UNCHANGED envs /\ left[c] = NULL
  BY <1>1 DEF SchedHalt, OwnInv, LeftPlace
<1>3. \/ /\ where' = [where EXCEPT ![c] = "halted"]
         /\ curenv' = [curenv EXCEPT ![c] = NULL]
         /\ left' = [left EXCEPT ![c] = curenv[c]]
         /\ cr3' = [cr3 EXCEPT ![c] = KERN]
      \/ /\ where' = [where EXCEPT ![c] = "idle"]
         /\ ~ \E e \in Slot : Alive(e)
         /\ UNCHANGED <<curenv, left, cr3>>
  BY DEF SchedHalt
<1>4. RunningOwned' /\ CurenvPlace' /\ KernelExclusive' /\ LeftPlace'
  <2>1. \A e \in Slot : (\E d \in CPU : e \in {curenv'[d], left'[d]})
                          <=> \E d \in CPU : e \in {curenv[d], left[d]}
    BY <1>1, <1>2, <1>3
  <2>2. RunningOwned'
    BY <1>1, <1>2, <1>3, <2>1 DEF OwnInv, RunningOwned, envs
  <2>3. CurenvPlace'
    <3>1. CASE curenv[c] = NULL \/ curenv'[c] = NULL
      BY <1>1, <1>2, <1>3, <3>1 DEF OwnInv, CurenvPlace, envs
    <3>2. CASE curenv[c] # NULL /\ curenv'[c] # NULL
      BY <1>1, <1>2, <1>3, <3>2 DEF OwnInv, RunningOwned, Alive
    <3>3. QED
      BY <3>1, <3>2
  <2>4. QED
    BY <1>1, <1>2, <1>3, <2>2, <2>3
    DEF OwnInv, KernelExclusive, KernelPlace, LeftPlace
<1>5. Cr3Live'
  BY <1>1, <1>2, <1>3 DEF OwnInv, Cr3Live, envs
<1>6. IdleMeansNobody'
  <2>1. CASE where' = [where EXCEPT ![c] = "halted"]
    BY <1>1, <2>1 DEF OwnInv, IdleMeansNobody
  <2>2. CASE /\ where' = [where EXCEPT ![c] = "idle"]
             /\ ~ \E e \in Slot : Alive(e)
    <3>1. \A d \in CPU : curenv[d] = NULL
      BY <1>1, <2>2 DEF Alive, OwnInv, RunningOwned
    <3>2. \A d \in CPU : where[d] \notin {"user", "debug"}
      BY <3>1 DEF OwnInv, RunningOwned
    <3>3. QED
      BY <1>1, <2>2, <3>2 DEF IdleMeansNobody
  <2>3. QED
    BY <1>3, <2>1, <2>2
<1>7. QED
  BY <1>2, <1>4, <1>5, <1>6 DEF OwnInv, FreeListInv, DirectoriesInv, envs

(* A CPU enters the kernel, and nothing else changes. *)
LEMMA EnterOwnInv ==
  ASSUME IdInv, OwnInv, NEW c \in CPU, NEW to \in {"sched", "debug"},
         KernelFree \/ where[c] = "boot", where[c] # "halted",
         where' = [where EXCEPT ![c] = to], UNCHANGED <<envs, curenv, cr3, left>>,
         to = "debug" => where[c] = "user",
         curenv[c] = NULL \/ env_status[curenv[c]] = "RUNNING"
  PROVE  OwnInv'
<1>1. where \in [CPU -> Place]
  BY DEF IdInv, TypeOK
<1>2. RunningOwned' /\ CurenvPlace'
  BY <1>1 DEF OwnInv, RunningOwned, CurenvPlace, envs
<1>3. Cr3Live'
  BY <1>1 DEF OwnInv, Cr3Live, envs
<1>4. KernelExclusive'
  BY <1>1 DEF OwnInv, KernelExclusive, KernelPlace, KernelFree
<1>5. IdleMeansNobody'
  BY <1>1 DEF OwnInv, IdleMeansNobody
<1>6. QED
  BY <1>1, <1>2, <1>3, <1>4, <1>5
  DEF OwnInv, FreeListInv, DirectoriesInv, LeftPlace, envs

(* Every step keeps the invariant on ownership. *)
LEMMA StepOwnInv ==
  ASSUME ~Redestroy
  PROVE  IdInv /\ OwnInv /\ [Next]_vars => OwnInv'
<1> SUFFICES ASSUME IdInv, OwnInv, [Next]_vars PROVE OwnInv'
  OBVIOUS
<1>1. CASE UNCHANGED vars
  BY <1>1 DEF vars, OwnInv, RunningOwned, Cr3Live, KernelExclusive, CurenvPlace,
     LeftPlace, FreeListInv, DirectoriesInv, IdleMeansNobody
<1>2. ASSUME NEW e \in Slot, NEW f \in Frame, EnvCreate(e, f) PROVE OwnInv'
  BY <1>2, AllocOwnInv DEF EnvCreate
<1>3. CASE BootDone
  BY <1>3, EnterOwnInv, EnvsAssumption DEF BootDone, OwnInv, CurenvPlace
<1>4. ASSUME NEW c \in CPU, ApStart(c) PROVE OwnInv'
  BY <1>4, EnterOwnInv DEF ApStart, OwnInv, CurenvPlace
<1>5. ASSUME NEW c \in CPU, Trap(c)
      PROVE  curenv[c] \in Slot /\ env_status[curenv[c]] = "RUNNING"
  BY <1>5, TrapCurenv DEF Trap, OwnInv, RunningOwned
<1>6. ASSUME NEW c \in CPU, TrapBreakpoint(c) \/ SysYield(c) PROVE OwnInv'
  BY <1>5, <1>6, EnterOwnInv DEF TrapBreakpoint, SysYield, Trap
<1>7. ASSUME NEW c \in CPU, TrapZombie(c) PROVE OwnInv'
  BY <1>7, FreeCurenvOwnInv DEF TrapZombie
<1>8. ASSUME NEW c \in CPU, TrapFatal(c) PROVE OwnInv'
  BY <1>8, FreeCurenvOwnInv DEF TrapFatal, Trap, env_destroy
<1>9. ASSUME NEW c \in CPU, NEW id, NEW e \in Slot, SysEnvDestroy(c, id, e)
      PROVE  OwnInv'
  <2>1. env_status[e] \notin {"FREE", "DYING"}
    BY <1>5, <1>9 DEF SysEnvDestroy, envid2env
  <2>2. QED
    BY <1>9, <2>1, DestroyOwnInv DEF SysEnvDestroy, Trap
<1>10. ASSUME NEW c \in CPU, NEW id, NEW e \in Slot, SysEnvSetStatus(c, id, e)
       PROVE  OwnInv'
  <2>1. /\ env_status' = [env_status EXCEPT ![e] = "RUNNABLE"]
        /\ env_status[e] = "NOT_RUNNABLE"
        /\ UNCHANGED <<env_pgdir, env_free_list, curenv, cr3, where, left>>
    BY <1>10 DEF SysEnvSetStatus
  <2>2. env_status \in [Slot -> Status] /\ env_free_list \in Seq(Slot)
    BY DEF IdInv, TypeOK
  <2>3. FreeListInv' /\ DirectoriesInv'
    BY <2>1, <2>2 DEF OwnInv, FreeListInv, DirectoriesInv
  <2>4. RunningOwned' /\ CurenvPlace'
    BY <2>1, <2>2 DEF OwnInv, RunningOwned, CurenvPlace
  <2>5. QED
    BY <2>1, <2>3, <2>4
    DEF OwnInv, Cr3Live, KernelExclusive, IdleMeansNobody, LeftPlace
<1>11. ASSUME NEW c \in CPU, NEW e \in Slot, NEW f \in Frame,
              SysExofork(c, e, f)
       PROVE  OwnInv'
  BY <1>11, AllocOwnInv DEF SysExofork
<1>12. ASSUME NEW c \in CPU, NEW e \in Slot, SchedRun(c, e) PROVE OwnInv'
  BY <1>12, RunOwnInv
<1>13. ASSUME NEW c \in CPU, SchedHalt(c) PROVE OwnInv'
  BY <1>13, HaltOwnInv
<1>14. QED
  BY <1>1, <1>2, <1>3, <1>4, <1>6, <1>7, <1>8, <1>9, <1>10, <1>11, <1>12,
     <1>13 DEF Next

(* Ownership holds in every reachable state. *)
THEOREM EnvsOwnInvariant == ASSUME ~Redestroy PROVE Spec => [](IdInv /\ OwnInv)
<1>1. IdInv /\ OwnInv /\ [Next]_vars => OwnInv'
  BY StepOwnInv
<1>2. QED
  BY <1>1, InitIdInv, InitOwnInv, StepIdInv, PTL DEF Spec

(* For any number of CPUs, an environment is executed by one CPU at a time *)
(* and env_destroy, called anywhere, does not pull it away from under it.  *)
THEOREM EnvsRunningOwned == ASSUME ~Redestroy PROVE Spec => []RunningOwned
<1>1. OwnInv => RunningOwned
  BY DEF OwnInv
<1>2. QED
  BY <1>1, EnvsOwnInvariant, PTL

(* No CPU walks a page directory that env_free has given back. *)
THEOREM EnvsCr3Live == ASSUME ~Redestroy PROVE Spec => []Cr3Live
<1>1. OwnInv => Cr3Live
  BY DEF OwnInv
<1>2. QED
  BY <1>1, EnvsOwnInvariant, PTL

(* sched_halt drops into the monitor only when nobody runs anything. *)
THEOREM EnvsIdleMeansNobody == ASSUME ~Redestroy PROVE Spec => []IdleMeansNobody
<1>1. OwnInv => IdleMeansNobody
  BY DEF OwnInv
<1>2. QED
  BY <1>1, EnvsOwnInvariant, PTL

(* A sequence without repetitions has as many elements as places. *)
LEMMA DistinctCardinality ==
  ASSUME NEW S, NEW s \in Seq(S),
         \A j, k \in 1 .. Len(s) : s[j] = s[k] => j = k
  PROVE  Cardinality({s[k] : k \in 1 .. Len(s)}) = Len(s)
<1> DEFINE T == {s[k] : k \in 1 .. Len(s)}
           f == [k \in 1 .. Len(s) |-> s[k]]
<1>1. f \in Bijection(1 .. Len(s), T)
  BY DEF Bijection, Injection, Surjection, IsInjective
<1>2. ExistsBijection(1 .. Len(s), T)
  BY <1>1 DEF ExistsBijection
<1>3. Len(s) \in Nat
  OBVIOUS
<1>4. QED
  BY <1>2, <1>3, FS_CountingElements

(* env_free_list and the directories are exact, for any number of slots. *)
THEOREM EnvsFreeListExact == ASSUME ~Redestroy PROVE Spec => []FreeListExact
<1>1. IdInv /\ OwnInv => FreeListExact
  <2> SUFFICES ASSUME IdInv, OwnInv PROVE FreeListExact
    OBVIOUS
  <2> DEFINE list == {env_free_list[k] : k \in DOMAIN env_free_list}
  <2>1. /\ env_free_list \in Seq(Slot)
        /\ DOMAIN env_free_list = 1 .. Len(env_free_list)
    BY DEF IdInv, TypeOK
  <2>2. list = {e \in Slot : env_status[e] = "FREE"}
    BY <2>1 DEF OwnInv, FreeListInv
  <2>3. Cardinality(list) = Len(env_free_list)
    BY <2>1, DistinctCardinality DEF OwnInv, FreeListInv
  <2>4. QED
    BY <2>2, <2>3 DEF FreeListExact, OwnInv, DirectoriesInv
<1>2. QED
  BY <1>1, EnvsOwnInvariant, PTL

------------------------------------------------------------------------------
(* Who may destroy whom. *)

(* The environment an id names is the one that made e, not a later one of  *)
(* its slot, unless ids of that slot were given out again.                 *)
LEMMA MakerUnique ==
  ASSUME IdInv, MaxBirths <= Generations, NEW e \in Slot, NEW q \in Slot,
         env_status[e] # "FREE", history[q] # <<>>,
         env_parent_id[e] = env_id[q]
  PROVE  parent[e] = <<q, Len(history[q])>>
<1> DEFINE n == Len(history[q])
<1>1. n \in Nat \ {0} /\ n <= MaxBirths /\ env_id[q] = IdAt(q, n)
  BY DEF IdInv, TypeOK, SlotInv
<1>2. IdAt(q, n) > 0 /\ IdAt(q, n) % NENV = q
  BY <1>1, IdAtFacts
<1>3. MakerKnown(e)
  BY DEF IdInv, SlotInv
<1>4. PICK x \in Slot, k \in Nat :
        parent[e] = <<x, k>> /\ MadeBy(x, k, env_parent_id[e])
  BY <1>1, <1>2, <1>3 DEF MakerKnown
<1>5. k \in Nat \ {0} /\ k <= Len(history[x]) /\ IdAt(q, n) = IdAt(x, k)
  BY <1>1, <1>4 DEF MadeBy, IdInv, TypeOK, SlotInv
<1>6. x = q
  BY <1>2, <1>5, IdAtFacts
<1>7. k = n
  <2> SUFFICES ASSUME k < n PROVE FALSE
    BY <1>1, <1>5, <1>6
  <2>1. n < k + Generations
    BY <1>1, <1>5, GenerationsType, EnvsAssumption
  <2>2. QED
    BY <1>1, <1>5, <1>6, <2>1, IdsDiffer
<1>8. QED
  BY <1>4, <1>6, <1>7

(* A status becomes ENV_DYING or ENV_FREE in these steps only. *)
LEMMA KillingSteps ==
  ASSUME ~Redestroy, IdInv, OwnInv, [Next]_vars, NEW e \in Slot,
         env_status'[e] \in {"DYING", "FREE"}, env_status'[e] # env_status[e]
  PROVE  \E c \in CPU :
           /\ where[c] = "user"
           /\ \/ curenv[c] = e /\ curenv'[c] = NULL
              \/ /\ curenv[c] # e /\ env_status[e] \notin {"FREE", "DYING"}
                 /\ env_parent_id[e] = env_id[curenv[c]]
<1> DEFINE Goal ==
      \E c \in CPU :
        /\ where[c] = "user"
        /\ \/ curenv[c] = e /\ curenv'[c] = NULL
           \/ /\ curenv[c] # e /\ env_status[e] \notin {"FREE", "DYING"}
              /\ env_parent_id[e] = env_id[curenv[c]]
<1>0. /\ env_status \in [Slot -> Status]
      /\ curenv \in [CPU -> Slot \cup {NULL}]
  BY DEF IdInv, TypeOK
<1>1. ASSUME NEW c \in CPU, where[c] = "user", FreeCurenv(c) PROVE Goal
  <2>1. curenv[c] \in Slot
    BY <1>1, TrapCurenv
  <2>2. e = curenv[c] /\ curenv'[c] = NULL
    BY <1>0, <1>1, <2>1 DEF FreeCurenv, env_free
  <2>3. QED
    BY <1>1, <2>2
<1>2. ASSUME NEW c \in CPU, TrapZombie(c) \/ TrapFatal(c) PROVE Goal
  BY <1>1, <1>2 DEF TrapZombie, TrapFatal, Trap, env_destroy
<1>3. ASSUME NEW c \in CPU, NEW id, NEW x \in Slot, SysEnvDestroy(c, id, x)
      PROVE  Goal
  <2>1. CASE curenv[c] = x
    BY <1>1, <1>3, <2>1 DEF SysEnvDestroy, Trap, env_destroy
  <2>2. CASE curenv[c] # x
    <3>1. /\ where[c] = "user" /\ env_status[x] \notin {"FREE", "DYING"}
          /\ env_parent_id[x] = env_id[curenv[c]]
      BY <1>3, <2>2 DEF SysEnvDestroy, Trap, envid2env
    <3>2. x = e
      BY <1>0, <1>3, <2>2 DEF SysEnvDestroy, env_destroy, env_free
    <3>3. QED
      BY <2>2, <3>1, <3>2
  <2>3. QED
    BY <2>1, <2>2
<1>4. ASSUME NEW c \in CPU, NEW x \in Slot, NEW f \in Frame,
             SysExofork(c, x, f)
      PROVE  FALSE
  BY <1>0, <1>4 DEF SysExofork, env_alloc
<1>5. ASSUME NEW c \in CPU, NEW id, NEW x \in Slot, SysEnvSetStatus(c, id, x)
      PROVE  FALSE
  BY <1>0, <1>5 DEF SysEnvSetStatus
<1>6. ASSUME NEW x \in Slot, NEW f \in Frame, EnvCreate(x, f) PROVE FALSE
  BY <1>0, <1>6 DEF EnvCreate, env_alloc
<1>7. ASSUME NEW c \in CPU, NEW x \in Slot, SchedRun(c, x) PROVE FALSE
  BY <1>0, <1>7 DEF SchedRun, env_run
<1>8. ASSUME NEW c \in CPU,
             \/ ApStart(c) \/ TrapBreakpoint(c) \/ SysYield(c) \/ SchedHalt(c)
      PROVE  FALSE
  BY <1>8 DEF ApStart, TrapBreakpoint, SysYield, SchedHalt, envs
<1>9. ASSUME BootDone \/ UNCHANGED vars PROVE FALSE
  BY <1>9 DEF BootDone, vars, envs
<1>10. QED
  BY <1>2, <1>3, <1>4, <1>5, <1>6, <1>7, <1>8, <1>9 DEF Next

(* sys_env_destroy reaches the caller itself and the environments it made, *)
(* as long as callers do not destroy a zombie again and no slot has seen   *)
(* all of its generations.                                                 *)
THEOREM EnvsDestroyAuthorised ==
  ASSUME ~Redestroy, MaxBirths <= Generations
  PROVE  Spec => DestroyAuthorised
<1>1. IdInv /\ OwnInv /\ [Next]_vars => [AuthorisedStep]_vars
  <2> SUFFICES ASSUME IdInv, OwnInv, [Next]_vars PROVE AuthorisedStep
    OBVIOUS
  <2> SUFFICES ASSUME NEW e \in Slot, env_status'[e] \in {"DYING", "FREE"},
                      env_status'[e] # env_status[e]
               PROVE  \E c \in CPU :
                        /\ where[c] = "user"
                        /\ \/ curenv[c] = e /\ curenv'[c] = NULL
                           \/ /\ curenv[c] # e
                              /\ parent[e] = <<curenv[c],
                                               Len(history[curenv[c]])>>
    BY DEF AuthorisedStep
  <2>1. PICK c \in CPU :
          /\ where[c] = "user"
          /\ \/ curenv[c] = e /\ curenv'[c] = NULL
             \/ /\ curenv[c] # e /\ env_status[e] \notin {"FREE", "DYING"}
                /\ env_parent_id[e] = env_id[curenv[c]]
    BY KillingSteps
  <2>2. curenv[c] \in Slot /\ history[curenv[c]] # <<>>
    BY <2>1, TrapCurenv, EnvsAssumption DEF IdInv, CpuInv
  <2>3. QED
    BY <2>1, <2>2, MakerUnique
<1>2. QED
  BY <1>1, EnvsOwnInvariant, PTL DEF Spec, DestroyAuthorised

(* The comment of env_destroy is right as long as callers do not destroy a *)
(* zombie again.                                                           *)
THEOREM EnvsZombieFreed ==
  ASSUME ~Redestroy
  PROVE  Spec => ZombieFreedByItsTrap
<1>1. IdInv /\ OwnInv /\ [Next]_vars => [ZombieStep]_vars
  BY KillingSteps DEF ZombieStep
<1>2. QED
  BY <1>1, EnvsOwnInvariant, PTL DEF Spec, ZombieFreedByItsTrap
=============================================================================

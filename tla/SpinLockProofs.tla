--------------------------- MODULE SpinLockProofs ---------------------------
(***************************************************************************)
(* For any set of CPUs: kernel_lock excludes, its DEBUG_SPINLOCK checks    *)
(* neither accuse a CPU wrongly nor miss a misuse, and it implements the   *)
(* abstract lock.                                                          *)
(***************************************************************************)
EXTENDS SpinLock, SequenceTheorems, TLAPS

(* Where lk->cpu stands while c has the lock: null and nothing pending     *)
(* until c records itself, then c (perhaps still pending), then null again *)
(* (perhaps pending) once c has cleared it.                                *)
HolderRecord(c) ==
  /\ pc[c] = "L_record" => sbuf[c] = <<>> /\ cpu = NULL
  /\ pc[c] = "U_xchg" =>
       \/ sbuf[c] = <<c, NULL>>
       \/ sbuf[c] = <<NULL>>
       \/ sbuf[c] = <<>> /\ cpu = NULL
  /\ pc[c] \notin {"L_record", "U_xchg"} =>
       \/ sbuf[c] = <<c>>
       \/ sbuf[c] = <<>> /\ cpu = c

(* The places a CPU can be in with, and without, the lock. *)
PlaceMatches(c) ==
  /\ pc[c] \in {"L_record", "U_clear", "U_xchg", "panic_lock"} => has[c]
  /\ pc[c] \in {"L_xchg", "U_report", "panic_unlock", "fault"} => ~has[c]

IInv ==
  /\ TypeOK
  /\ locked = 0 <=> \A c \in CPU : ~has[c]
  /\ MutualExclusion
  /\ \A c \in CPU : PlaceMatches(c)
  /\ \A c \in CPU : has[c] => HolderRecord(c)
  /\ \A c \in CPU : ~has[c] => sbuf[c] = <<>> /\ cpu # c

(* The first state is in the invariant. *)
LEMMA InitIInv == Init => IInv
  BY NULLAssumption
  DEF Init, IInv, TypeOK, MutualExclusion, PlaceMatches, Place

(* The store buffers that occur, and what the operations on them give. *)
LEMMA BufferFacts ==
  ASSUME NEW S, NEW v \in S, NEW w \in S
  PROVE  /\ Append(<<>>, v) = <<v>>
         /\ Append(<<v>>, w) = <<v, w>>
         /\ <<>> \in Seq(S) /\ <<v>> \in Seq(S) /\ <<v, w>> \in Seq(S)
         /\ <<v>> # <<>> /\ <<v, w>> # <<>> /\ <<v>> # <<v, w>>
         /\ Len(<<v>>) = 1 /\ <<v>>[1] = v
         /\ Head(<<v>>) = v /\ Tail(<<v>>) = <<>>
         /\ Head(<<v, w>>) = v /\ Tail(<<v, w>>) = <<w>>
<1>1. Append(<<v>>, w) = <<v, w>>
  <2>1. Append(<<v>>, w) \in Seq(S) /\ <<v, w>> \in Seq(S)
    OBVIOUS
  <2>2. Len(Append(<<v>>, w)) = 2 /\ Len(<<v, w>>) = 2
    OBVIOUS
  <2>3. \A i \in 1 .. 2 : Append(<<v>>, w)[i] = <<v, w>>[i]
    OBVIOUS
  <2>4. QED
    BY <2>1, <2>2, <2>3, SeqEqual
<1>2. QED
  BY <1>1

(* Between recording itself and clearing the record again, a holder reads  *)
(* its own address in lk->cpu; a CPU that is not a holder never does.      *)
LEMMA LoadTellsHolder ==
  ASSUME IInv, NEW c \in CPU, pc[c] \notin {"L_record", "U_xchg"}
  PROVE  LoadCpu(c) = c <=> has[c]
<1> USE NULLAssumption
<1>1. CASE has[c]
  <2>0. HolderRecord(c)
    BY <1>1 DEF IInv
  <2>1. sbuf[c] = <<c>> \/ (sbuf[c] = <<>> /\ cpu = c)
    BY <2>0 DEF HolderRecord
  <2>2. QED
    BY <1>1, <2>1, BufferFacts DEF LoadCpu
<1>2. CASE ~has[c]
  BY <1>2 DEF IInv, LoadCpu
<1>3. QED
  BY <1>1, <1>2

(* Every step keeps the invariant. *)
LEMMA StepIInv == IInv /\ [Next]_vars => IInv'
<1> SUFFICES ASSUME IInv, [Next]_vars PROVE IInv'
  OBVIOUS
<1> USE NULLAssumption
<1>1. CASE UNCHANGED vars
  BY <1>1 DEF vars, IInv, TypeOK, MutualExclusion, PlaceMatches, HolderRecord
<1>2. ASSUME NEW c \in CPU, CallLock(c) PROVE IInv'
  BY <1>2 DEF CallLock, Goto, IInv, TypeOK, MutualExclusion, PlaceMatches,
     HolderRecord, Place
<1>3. ASSUME NEW c \in CPU, CallUnlock(c) PROVE IInv'
  BY <1>3 DEF CallUnlock, Goto, IInv, TypeOK, MutualExclusion, PlaceMatches,
     HolderRecord, Place
<1>4. ASSUME NEW c \in CPU, LockLoadLocked(c) PROVE IInv'
  BY <1>4 DEF LockLoadLocked, Goto, IInv, TypeOK, MutualExclusion,
     PlaceMatches, HolderRecord, Place
<1>5. ASSUME NEW c \in CPU, LockLoadCpu(c) PROVE IInv'
  <2>1. LoadCpu(c) = c <=> has[c]
    BY <1>5, LoadTellsHolder DEF LockLoadCpu
  <2>2. QED
    BY <1>5, <2>1 DEF LockLoadCpu, Goto, IInv, TypeOK, MutualExclusion,
       PlaceMatches, HolderRecord, Place
<1>6. ASSUME NEW c \in CPU, WinXchg(c) PROVE IInv'
  BY <1>6 DEF WinXchg, Goto, IInv, TypeOK, MutualExclusion, PlaceMatches,
     HolderRecord, Place
<1>7. ASSUME NEW c \in CPU, RecordHolder(c) PROVE IInv'
  <2>1. has[c] /\ sbuf[c] = <<>>
    BY <1>7 DEF RecordHolder, IInv, PlaceMatches, HolderRecord
  <2>2. sbuf' = [sbuf EXCEPT ![c] = <<c>>]
    BY <1>7, <2>1, BufferFacts DEF RecordHolder, StoreCpu
  <2>3. TypeOK'
    BY <1>7, <2>2, BufferFacts DEF RecordHolder, Goto, IInv, TypeOK, Place
  <2>4. QED
    BY <1>7, <2>1, <2>2, <2>3 DEF RecordHolder, Goto, IInv, TypeOK,
       MutualExclusion, PlaceMatches, HolderRecord
<1>8. ASSUME NEW c \in CPU, UnlockLoadLocked(c) PROVE IInv'
  BY <1>8 DEF UnlockLoadLocked, Goto, IInv, TypeOK, MutualExclusion,
     PlaceMatches, HolderRecord, Place
<1>9. ASSUME NEW c \in CPU, UnlockLoadCpu(c) PROVE IInv'
  <2>1. LoadCpu(c) = c <=> has[c]
    BY <1>9, LoadTellsHolder DEF UnlockLoadCpu
  <2>2. QED
    BY <1>9, <2>1 DEF UnlockLoadCpu, Goto, IInv, TypeOK, MutualExclusion,
       PlaceMatches, HolderRecord, Place
<1>10. ASSUME NEW c \in CPU, ReportNotHolding(c) PROVE IInv'
  BY <1>10 DEF ReportNotHolding, Goto, IInv, TypeOK, MutualExclusion,
     PlaceMatches, HolderRecord, Place
<1>11. ASSUME NEW c \in CPU, ClearHolder(c) PROVE IInv'
  <2>1. has[c] /\ (sbuf[c] = <<c>> \/ (sbuf[c] = <<>> /\ cpu = c))
    <3>1. has[c] /\ pc[c] \notin {"L_record", "U_xchg"}
      BY <1>11 DEF ClearHolder, IInv, PlaceMatches
    <3>2. HolderRecord(c)
      BY <3>1 DEF IInv
    <3>3. QED
      BY <3>1, <3>2 DEF HolderRecord
  <2>2. sbuf' = [sbuf EXCEPT ![c] = IF sbuf[c] = <<>> THEN <<NULL>>
                                    ELSE <<c, NULL>>]
    <3>1. /\ Append(<<>>, NULL) = <<NULL>>
          /\ Append(<<c>>, NULL) = <<c, NULL>>
          /\ <<c>> # <<>>
      <4> DEFINE Val == CPU \cup {NULL}
      <4>1. c \in Val /\ NULL \in Val
        OBVIOUS
      <4>2. QED
        BY <4>1, BufferFacts
    <3>2. Append(sbuf[c], NULL) = IF sbuf[c] = <<>> THEN <<NULL>>
                                  ELSE <<c, NULL>>
      BY <2>1, <3>1
    <3>3. QED
      BY <1>11, <3>2, Zenon DEF ClearHolder, StoreCpu
  <2>3. TypeOK'
    BY <1>11, <2>2, BufferFacts DEF ClearHolder, Goto, IInv, TypeOK, Place
  <2>4. QED
    BY <1>11, <2>1, <2>2, <2>3 DEF ClearHolder, Goto, IInv, TypeOK,
       MutualExclusion, PlaceMatches, HolderRecord
<1>12. ASSUME NEW c \in CPU, ReleaseXchg(c) PROVE IInv'
  <2>1. has[c] /\ sbuf[c] = <<>>
    BY <1>12 DEF ReleaseXchg, IInv, PlaceMatches
  <2>2. cpu = NULL
    BY <1>12, <2>1, BufferFacts DEF ReleaseXchg, IInv, HolderRecord
  <2>3. \A d \in CPU : ~has'[d]
    BY <1>12, <2>1 DEF ReleaseXchg, IInv, TypeOK, MutualExclusion
  <2>4. TypeOK'
    BY <1>12 DEF ReleaseXchg, Goto, IInv, TypeOK, Place
  <2>5. \A d \in CPU : PlaceMatches(d)'
    BY <1>12, <2>3 DEF ReleaseXchg, Goto, IInv, TypeOK, MutualExclusion,
       PlaceMatches
  <2>6. QED
    BY <1>12, <2>1, <2>2, <2>3, <2>4, <2>5
    DEF ReleaseXchg, IInv, TypeOK, MutualExclusion
<1>13. ASSUME NEW c \in CPU, Drain(c) PROVE IInv'
  <2>1. has[c] /\ pc[c] # "L_record"
    BY <1>13 DEF Drain, IInv, HolderRecord
  <2>2. HolderRecord(c) /\ \A d \in CPU \ {c} : ~has[d]
    BY <2>1 DEF IInv, MutualExclusion
  <2>3. CASE sbuf[c] = <<c>>
    <3>1. pc[c] # "U_xchg"
      BY <2>2, <2>3, BufferFacts DEF HolderRecord
    <3>2. cpu' = c /\ sbuf' = [sbuf EXCEPT ![c] = <<>>]
      BY <1>13, <2>3, BufferFacts DEF Drain
    <3>3. QED
      BY <1>13, <2>1, <2>2, <3>1, <3>2, BufferFacts
      DEF Drain, IInv, TypeOK, MutualExclusion, PlaceMatches, HolderRecord
  <2>4. CASE sbuf[c] = <<NULL>>
    <3>1. pc[c] = "U_xchg"
      BY <2>2, <2>4, BufferFacts DEF HolderRecord
    <3>2. cpu' = NULL /\ sbuf' = [sbuf EXCEPT ![c] = <<>>]
      BY <1>13, <2>4, BufferFacts DEF Drain
    <3>3. QED
      BY <1>13, <2>1, <2>2, <3>1, <3>2, BufferFacts
      DEF Drain, IInv, TypeOK, MutualExclusion, PlaceMatches, HolderRecord
  <2>5. CASE sbuf[c] = <<c, NULL>>
    <3>1. pc[c] = "U_xchg"
      BY <2>2, <2>5, BufferFacts DEF HolderRecord
    <3>2. cpu' = c /\ sbuf' = [sbuf EXCEPT ![c] = <<NULL>>]
      BY <1>13, <2>5, BufferFacts DEF Drain
    <3>3. TypeOK'
      BY <1>13, <3>2, BufferFacts DEF Drain, IInv, TypeOK
    <3>4. HolderRecord(c)'
      BY <1>13, <3>1, <3>2 DEF Drain, HolderRecord, IInv, TypeOK
    <3>5. QED
      BY <1>13, <2>1, <2>2, <3>2, <3>3, <3>4
      DEF Drain, IInv, TypeOK, MutualExclusion, PlaceMatches
  <2>6. QED
    BY <1>13, <2>1, <2>3, <2>4, <2>5 DEF Drain, IInv, HolderRecord
<1>14. QED
  BY <1>1, <1>2, <1>3, <1>4, <1>5, <1>6, <1>7, <1>8, <1>9, <1>10, <1>11,
     <1>12, <1>13 DEF Next, Step

(* The strengthened invariant holds in every reachable state. *)
THEOREM LockInvariant == Spec => []IInv
  BY InitIInv, StepIInv, PTL DEF Spec

(* Type correctness of the lock's state, for any number of CPUs. *)
THEOREM LockTypeCorrect == Spec => []TypeOK
<1>1. IInv => TypeOK
  BY DEF IInv
<1>2. QED
  BY <1>1, LockInvariant, PTL

(* spin_lock lets one CPU in at a time, for any number of CPUs and any     *)
(* sequence of calls, wrong ones included.                                 *)
THEOREM LockExcludes == Spec => []MutualExclusion
<1>1. IInv => MutualExclusion
  BY DEF IInv
<1>2. QED
  BY <1>1, LockInvariant, PTL

(* holding(), though it reads lk->locked and lk->cpu without the lock and  *)
(* in two steps, never accuses a CPU that made no mistake.                 *)
THEOREM LockPanicsJustified == Spec => []PanicIsJustified
<1>1. IInv => PanicIsJustified
  BY DEF IInv, PlaceMatches, PanicIsJustified
<1>2. QED
  BY <1>1, LockInvariant, PTL

(* holding() misses no mistake: a holder never spins, and only the holder  *)
(* reaches the xchg that frees the lock.                                   *)
THEOREM LockMisuseCaught == Spec => []MisuseIsCaught
<1>1. IInv => MisuseIsCaught
  BY DEF IInv, PlaceMatches, MisuseIsCaught
<1>2. QED
  BY <1>1, LockInvariant, PTL

(* spin_lock and spin_unlock implement the abstract lock: every memory     *)
(* access either changes nobody's hold on the lock, or gives a free lock   *)
(* to one CPU, or frees the lock of the one CPU inside.                    *)
THEOREM LockImplements == Spec => ImplementsLock
<1> DEFINE In == {c \in CPU : has[c]}
<1>1. Init => In = {}
  BY DEF Init
<1>2. IInv /\ [Next]_vars => [L!LNext]_In
  <2> SUFFICES ASSUME IInv, [Next]_vars PROVE L!LNext \/ In' = In
    OBVIOUS
  <2>1. ASSUME NEW c \in CPU, WinXchg(c) PROVE L!LNext
    <3>1. In = {} /\ In' = {c}
      BY <2>1 DEF WinXchg, IInv, TypeOK
    <3>2. QED
      BY <3>1 DEF L!LNext, L!Acquire
  <2>2. ASSUME NEW c \in CPU, ReleaseXchg(c) PROVE L!LNext
    <3>1. In = {c} /\ In' = {}
      BY <2>2 DEF ReleaseXchg, IInv, TypeOK, MutualExclusion, PlaceMatches
    <3>2. QED
      BY <3>1 DEF L!LNext, L!Release
  <2>3. ASSUME NEW c \in CPU,
               \/ CallLock(c) \/ CallUnlock(c) \/ Drain(c)
               \/ LockLoadLocked(c) \/ LockLoadCpu(c) \/ RecordHolder(c)
               \/ UnlockLoadLocked(c) \/ UnlockLoadCpu(c)
               \/ ReportNotHolding(c) \/ ClearHolder(c)
        PROVE  In' = In
    BY <2>3 DEF CallLock, CallUnlock, Drain, LockLoadLocked, LockLoadCpu,
       RecordHolder, UnlockLoadLocked, UnlockLoadCpu, ReportNotHolding,
       ClearHolder
  <2>4. CASE UNCHANGED vars
    BY <2>4 DEF vars
  <2>5. QED
    BY <2>1, <2>2, <2>3, <2>4 DEF Next, Step
<1>3. QED
  BY <1>1, <1>2, LockInvariant, PTL DEF Spec, ImplementsLock, L!LSpec, L!LInit
=============================================================================

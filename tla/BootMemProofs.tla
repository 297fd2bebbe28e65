---------------------------- MODULE BootMemProofs ----------------------------
(***************************************************************************)
(* Proofs about mem_init: the free list holds no page in use, everything   *)
(* that is written before kern_pgdir is loaded is mapped by entry_pgdir,   *)
(* and the kernel's tests of itself fail for one reason only and leave no  *)
(* trace.                                                                  *)
(***************************************************************************)
EXTENDS BootMem, RoutineProofs

------------------------------------------------------------------------------
(* Sizes and pages.  The constants. *)
LEMMA BootConstants ==
  /\ KB \in Nat \ {0} /\ PGSIZE \in Nat \ {0}
  /\ Chunk \in Nat /\ Above16M \in Nat /\ PageInfoSize \in Nat
  /\ EnvsSize \in Nat /\ IOPHYSMEM \in Nat /\ EXTPHYSMEM \in Nat
  /\ EntryMapped \in Nat /\ RefMod \in Nat /\ RefMod > 2
  /\ U \in Nat /\ U > 1 /\ N \in Nat /\ U <= N
  /\ Page \in SUBSET Nat /\ NULL \notin Page
<1>1. Page \in SUBSET Nat
  <2>1. Cardinality(Page) \in Nat
    BY PageAssumption, FS_CardinalityType
  <2>2. QED
    BY <2>1, BootMemAssumption
<1>2. U \in Nat /\ U > 1 /\ N \in Nat /\ U <= N /\ RefMod \in Nat /\ RefMod > 2
  BY BootMemAssumption, SizeAssumption
<1>3. QED
  BY <1>1, <1>2, BootMemAssumption, PageAssumption

(* Division by the size of a page. *)
LEMMA PageOf ==
  ASSUME NEW a \in Nat, a % PGSIZE = 0
  PROVE  BootPage(a) \in Nat /\ BootPage(a) * PGSIZE = a
<1>1. PGSIZE \in Nat \ {0}
  BY BootConstants
<1> DEFINE q == a \div PGSIZE
<1>2. q \in Nat /\ a = PGSIZE * q + (a % PGSIZE)
  BY <1>1
<1> HIDE DEF q
<1>3. a = q * PGSIZE
  BY <1>1, <1>2
<1>4. QED
  BY <1>2, <1>3 DEF BootPage, q

(* Pages are in the order of their addresses. *)
LEMMA PageOrder ==
  ASSUME NEW p \in Nat, NEW q \in Nat
  PROVE  /\ p < q <=> p * PGSIZE < q * PGSIZE
         /\ p <= q <=> p * PGSIZE <= q * PGSIZE
         /\ p * PGSIZE \in Nat
<1>1. PGSIZE \in Nat \ {0}
  BY BootConstants
<1>2. p < q => p * PGSIZE < q * PGSIZE
  BY <1>1
<1>3. q < p => q * PGSIZE < p * PGSIZE
  BY <1>1
<1>4. p * PGSIZE \in Nat /\ q * PGSIZE \in Nat
  BY <1>1
<1>5. p = q => p * PGSIZE = q * PGSIZE
  OBVIOUS
<1> DEFINE x == p * PGSIZE
           y == q * PGSIZE
<1> HIDE DEF x, y
<1>6. x \in Nat /\ y \in Nat /\ (p < q => x < y) /\ (q < p => y < x)
      /\ (p = q => x = y)
  BY <1>2, <1>3, <1>4, <1>5 DEF x, y
<1>7. (p < q <=> x < y) /\ (p <= q <=> x <= y)
  BY <1>6
<1>8. QED
  BY <1>4, <1>7 DEF x, y

(* boot_alloc gives out whole pages. *)
LEMMA RoundedSum ==
  ASSUME NEW a \in Nat, a % PGSIZE = 0, NEW n \in Nat
  PROVE  /\ RoundUp(a + n, PGSIZE) = a + RoundUp(n, PGSIZE)
         /\ RoundUp(n, PGSIZE) \in Nat /\ RoundUp(n, PGSIZE) % PGSIZE = 0
         /\ (a + RoundUp(n, PGSIZE)) % PGSIZE = 0
<1>1. PGSIZE \in Nat \ {0}
  BY BootConstants
<1> DEFINE q == a \div PGSIZE
           r == (n + PGSIZE - 1) \div PGSIZE
<1>2. q \in Nat /\ a = PGSIZE * q + (a % PGSIZE)
  BY <1>1
<1>3. r \in Nat
  BY <1>1
<1>4. a = PGSIZE * q
  BY <1>1, <1>2
<1> DEFINE z == n + PGSIZE - 1
<1>5. z \in Nat /\ r = z \div PGSIZE
  BY <1>1
<1>6. RoundUp(n, PGSIZE) = r * PGSIZE
  BY DEF RoundUp
<1>7. RoundUp(a + n, PGSIZE) = ((a + z) \div PGSIZE) * PGSIZE
  BY <1>1 DEF RoundUp
<1> HIDE DEF q, r, z
<1>8. (PGSIZE * q + z) \div PGSIZE = q + (z \div PGSIZE)
  BY <1>1, <1>2, <1>5
<1>9. ((a + z) \div PGSIZE) * PGSIZE = (q + r) * PGSIZE
  BY <1>4, <1>5, <1>8
<1>10. (q + r) * PGSIZE = PGSIZE * q + r * PGSIZE
  BY <1>1, <1>2, <1>3
<1>11. (r * PGSIZE) \in Nat /\ (r * PGSIZE) % PGSIZE = 0
  BY <1>1, <1>3
<1>12. ((q + r) * PGSIZE) % PGSIZE = 0
  <2> DEFINE x == q + r
  <2>1. x \in Nat
    BY <1>2, <1>3
  <2> HIDE DEF x
  <2>2. (x * PGSIZE) % PGSIZE = 0
    BY <1>1, <2>1
  <2>3. QED
    BY <2>2 DEF x
<1>13. QED
  BY <1>4, <1>6, <1>7, <1>9, <1>10, <1>11, <1>12

(* The pages of a machine: its memory is np pages, the I/O hole starts at  *)
(* page io and ends at page ex, and what is in use ends at page ff.        *)
LEMMA MachinePages ==
  ASSUME NEW mc \in Machine, Supported(mc)
  PROVE  /\ NPages(mc) \in Nat /\ 0 .. NPages(mc) - 1 \in SUBSET Page
         /\ BootPage(IOPHYSMEM) \in Nat /\ 4 <= BootPage(IOPHYSMEM)
         /\ BootPage(EXTPHYSMEM) \in Nat
         /\ BootPage(IOPHYSMEM) < BootPage(EXTPHYSMEM)
         /\ BootPage(FirstFree(mc)) \in Nat
         /\ BootPage(EXTPHYSMEM) <= BootPage(FirstFree(mc))
         /\ BootPage(FirstFree(mc)) < NPages(mc)
         /\ NPagesBase(mc) \in Nat /\ NPagesBase(mc) <= BootPage(IOPHYSMEM)
         /\ BootPage(IOPHYSMEM) * PGSIZE = IOPHYSMEM
         /\ BootPage(EXTPHYSMEM) * PGSIZE = EXTPHYSMEM
         /\ BootPage(FirstFree(mc)) * PGSIZE = FirstFree(mc)
         /\ FirstFree(mc) \in Nat /\ FirstFree(mc) < EntryMapped
         /\ RoundUp(mc.end, PGSIZE) \in Nat /\ RoundUp(mc.end, PGSIZE) % PGSIZE = 0
         /\ EXTPHYSMEM <= RoundUp(mc.end, PGSIZE)
         /\ PageInfoSize * NPages(mc) \in Nat
<1>1. /\ mc.base \in Nat /\ mc.ext \in Nat /\ mc.ext16 \in Nat
      /\ mc.end \in Nat /\ mc.mpentry \in Nat
  BY BootMemAssumption
<1>2. /\ KB \in Nat \ {0} /\ PGSIZE \in Nat \ {0} /\ PGSIZE % KB = 0
      /\ Chunk \in Nat /\ Above16M \in Nat /\ PageInfoSize \in Nat
      /\ EnvsSize \in Nat /\ IOPHYSMEM \in Nat /\ EXTPHYSMEM \in Nat
      /\ EntryMapped \in Nat
  BY BootConstants, BootMemAssumption
<1> DEFINE per == PGSIZE \div KB
<1>3. per \in Nat \ {0} /\ PGSIZE = KB * per
  <2>1. per \in Nat /\ PGSIZE = KB * per + (PGSIZE % KB)
    BY <1>2
  <2> HIDE DEF per
  <2>2. QED
    BY <1>2, <2>1
<1>4. TotalMem(mc) \in Nat
  <2>1. mc.ext16 * Chunk \in Nat /\ EXTPHYSMEM \div KB \in Nat
    BY <1>1, <1>2
  <2>2. CASE mc.ext16 # 0
    BY <1>2, <2>1, <2>2 DEF TotalMem
  <2>3. CASE mc.ext16 = 0 /\ mc.ext # 0
    BY <1>1, <1>2, <2>1, <2>3 DEF TotalMem
  <2>4. CASE mc.ext16 = 0 /\ mc.ext = 0
    BY <1>1, <2>4 DEF TotalMem
  <2>5. QED
    BY <1>1, <2>2, <2>3, <2>4
<1>5. NPages(mc) \in Nat
  <2> HIDE DEF per
  <2>1. TotalMem(mc) \div per \in Nat
    BY <1>3, <1>4
  <2>2. QED
    BY <2>1 DEF NPages, per
<1>6. /\ 0 .. NPages(mc) - 1 \in SUBSET Page
      /\ BootPage(FirstFree(mc)) < NPages(mc)
      /\ FirstFree(mc) < EntryMapped
      /\ EXTPHYSMEM <= mc.end /\ mc.base * KB <= IOPHYSMEM
  BY DEF Supported
<1>7. PageInfoSize * NPages(mc) \in Nat
  BY <1>2, <1>5
<1> DEFINE e == RoundUp(mc.end, PGSIZE)
           a1 == RoundUp(PageInfoSize * NPages(mc), PGSIZE)
           a2 == RoundUp(EnvsSize, PGSIZE)
<1>8. e \in Nat /\ e % PGSIZE = 0 /\ mc.end <= e
  BY <1>1, <1>2, RoundUpFacts
<1>9. a1 \in Nat /\ (e + a1) % PGSIZE = 0
  <2> HIDE DEF e
  <2>1. QED
    BY <1>7, <1>8, RoundedSum
<1>10. e + a1 \in Nat /\ ((e + a1) + PGSIZE) \in Nat
       /\ ((e + a1) + PGSIZE) % PGSIZE = 0
  <2> DEFINE x == e + a1
  <2>1. x \in Nat /\ x % PGSIZE = 0
    BY <1>8, <1>9
  <2> HIDE DEF x
  <2>2. (x + PGSIZE) % PGSIZE = 0 /\ x + PGSIZE \in Nat
    BY <1>2, <2>1, NextMultiple
  <2>3. QED
    BY <2>1, <2>2 DEF x
<1>11. a2 \in Nat /\ (((e + a1) + PGSIZE) + a2) % PGSIZE = 0
  <2> DEFINE x == (e + a1) + PGSIZE
  <2>1. x \in Nat /\ x % PGSIZE = 0
    BY <1>10
  <2> HIDE DEF x
  <2>2. a2 \in Nat /\ (x + a2) % PGSIZE = 0
    BY <1>2, <2>1, RoundedSum
  <2>3. QED
    BY <2>2 DEF x
<1>12. FirstFree(mc) = ((e + a1) + PGSIZE) + a2
  BY DEF FirstFree
<1> HIDE DEF e, a1, a2
<1>13. FirstFree(mc) \in Nat /\ FirstFree(mc) % PGSIZE = 0
       /\ EXTPHYSMEM <= FirstFree(mc) /\ EXTPHYSMEM <= e
  BY <1>1, <1>2, <1>6, <1>8, <1>9, <1>10, <1>11, <1>12
<1> DEFINE ff == FirstFree(mc)
<1> HIDE DEF ff
<1>14. /\ BootPage(IOPHYSMEM) \in Nat
       /\ BootPage(IOPHYSMEM) * PGSIZE = IOPHYSMEM
       /\ BootPage(EXTPHYSMEM) \in Nat
       /\ BootPage(EXTPHYSMEM) * PGSIZE = EXTPHYSMEM
       /\ BootPage(ff) \in Nat /\ BootPage(ff) * PGSIZE = ff
  BY <1>2, <1>13, BootMemAssumption, PageOf DEF ff
<1>15. /\ BootPage(IOPHYSMEM) < BootPage(EXTPHYSMEM)
       /\ BootPage(EXTPHYSMEM) <= BootPage(ff)
       /\ 4 <= BootPage(IOPHYSMEM)
  <2>1. /\ IOPHYSMEM < EXTPHYSMEM /\ EXTPHYSMEM <= ff
        /\ 4 * PGSIZE <= IOPHYSMEM /\ 4 \in Nat
    BY <1>13, BootMemAssumption DEF ff
  <2>2. /\ BootPage(IOPHYSMEM) * PGSIZE < BootPage(EXTPHYSMEM) * PGSIZE
        /\ BootPage(EXTPHYSMEM) * PGSIZE <= BootPage(ff) * PGSIZE
        /\ 4 * PGSIZE <= BootPage(IOPHYSMEM) * PGSIZE
    BY <1>14, <2>1
  <2> DEFINE x == BootPage(IOPHYSMEM)
             y == BootPage(EXTPHYSMEM)
             z == BootPage(ff)
  <2> HIDE DEF x, y, z
  <2>3. x \in Nat /\ y \in Nat /\ z \in Nat /\ x * PGSIZE < y * PGSIZE
        /\ y * PGSIZE <= z * PGSIZE /\ 4 * PGSIZE <= x * PGSIZE
    BY <1>14, <2>2 DEF x, y, z
  <2>4. x < y
    BY <2>3, PageOrder
  <2>5. y <= z
    BY <2>3, PageOrder
  <2>6. 4 <= x
    BY <2>1, <2>3, PageOrder
  <2>7. QED
    BY <2>4, <2>5, <2>6 DEF x, y, z
<1>16. NPagesBase(mc) \in Nat /\ NPagesBase(mc) <= BootPage(IOPHYSMEM)
  <2> DEFINE b == mc.base
             q == b \div per
             io == BootPage(IOPHYSMEM)
  <2>1. NPagesBase(mc) = q
    BY DEF NPagesBase
  <2>2. b \in Nat /\ io \in Nat
    BY <1>1, <1>14
  <2> HIDE DEF per, b, io
  <2>3. q \in Nat /\ b = per * q + (b % per) /\ b % per \in Nat
    BY <1>3, <2>2
  <2> HIDE DEF q
  <2>4. q * per <= b
    BY <1>3, <2>2, <2>3
  <2>5. (q * per) * KB <= b * KB
    BY <1>2, <1>3, <2>2, <2>3, <2>4
  <2>6. (q * per) * KB = q * PGSIZE
    BY <1>2, <1>3, <2>3
  <2>7. b * KB <= io * PGSIZE
    BY <1>6, <1>14 DEF b, io
  <2>8. q * PGSIZE <= io * PGSIZE
    <3> DEFINE x == b * KB
               y == q * PGSIZE
               z == io * PGSIZE
    <3>1. x \in Nat /\ y \in Nat /\ z \in Nat
      BY <1>2, <2>2, <2>3
    <3>2. y <= x /\ x <= z
      BY <2>5, <2>6, <2>7
    <3> HIDE DEF x, y, z
    <3>3. y <= z
      BY <3>1, <3>2
    <3>4. QED
      BY <3>3 DEF y, z
  <2>9. q <= io
    BY <2>2, <2>3, <2>8, PageOrder
  <2>10. QED
    BY <2>1, <2>3, <2>9 DEF io
<1>17. QED
  BY <1>5, <1>6, <1>7, <1>8, <1>13, <1>14, <1>15, <1>16 DEF ff, e

(* Which pages page_init takes to be in use. *)
LEMMA UsedPages ==
  ASSUME NEW mc \in Machine, Supported(mc), NEW i \in Nat
  PROVE  PageUsed(mc, FirstFree(mc), i) <=>
           \/ i = 0
           \/ BootPage(IOPHYSMEM) <= i /\ i < BootPage(FirstFree(mc))
<1> DEFINE io == BootPage(IOPHYSMEM)
           ex == BootPage(EXTPHYSMEM)
           ff == BootPage(FirstFree(mc))
           nb == NPagesBase(mc)
<1>1. /\ io \in Nat /\ ex \in Nat /\ ff \in Nat /\ nb \in Nat
      /\ nb <= io /\ io < ex /\ ex <= ff
  BY MachinePages
<1>2. PageUsed(mc, FirstFree(mc), i) <=>
        \/ i = 0
        \/ i >= nb /\ ((io <= i /\ i < ex) \/ (ex <= i /\ i < ff))
  BY DEF PageUsed
<1> HIDE DEF io, ex, ff, nb
<1>3. (i = 0 \/ (i >= nb /\ ((io <= i /\ i < ex) \/ (ex <= i /\ i < ff)))) <=>
        (i = 0 \/ (io <= i /\ i < ff))
  BY <1>1
<1>4. QED
  BY <1>2, <1>3 DEF io, ff

(* Pages below one that entry_pgdir maps. *)
LEMMA LowMapped ==
  ASSUME NEW mc \in Machine, Supported(mc), NEW i \in Nat,
         i < BootPage(FirstFree(mc))
  PROVE  EntryMaps(i)
<1> DEFINE ff == BootPage(FirstFree(mc))
<1>1. ff \in Nat /\ ff * PGSIZE < EntryMapped /\ EntryMapped \in Nat
  BY MachinePages, BootConstants
<1> HIDE DEF ff
<1>2. i * PGSIZE < ff * PGSIZE /\ i * PGSIZE \in Nat /\ ff * PGSIZE \in Nat
  BY <1>1, PageOrder DEF ff
<1>3. i * PGSIZE < EntryMapped
  BY <1>1, <1>2
<1>4. QED
  BY <1>3 DEF EntryMaps

------------------------------------------------------------------------------
(* Lists: what is on one, and that nothing is on it twice. *)
Listed(s) == {s[k] : k \in 1 .. Len(s)}

Distinct(s) == \A i, j \in 1 .. Len(s) : s[i] = s[j] => i = j

(* Two lists, one after the other. *)
LEMMA ListedConcat ==
  ASSUME NEW S, NEW s \in Seq(S), NEW t \in Seq(S)
  PROVE  /\ s \o t \in Seq(S) /\ Len(s \o t) = Len(s) + Len(t)
         /\ Listed(s \o t) = Listed(s) \cup Listed(t)
         /\ Distinct(s) /\ Distinct(t) /\ Listed(s) \cap Listed(t) = {} =>
              Distinct(s \o t)
<1> DEFINE u == s \o t
<1>1. /\ u \in Seq(S) /\ Len(u) = Len(s) + Len(t)
      /\ Len(s) \in Nat /\ Len(t) \in Nat
      /\ \A i \in 1 .. Len(s) + Len(t) :
           u[i] = IF i <= Len(s) THEN s[i] ELSE t[i - Len(s)]
  BY ConcatProperties
<1>2. /\ \A i \in 1 .. Len(s) : u[i] = s[i]
      /\ \A i \in 1 .. Len(t) : u[Len(s) + i] = t[i]
  BY <1>1
<1> HIDE DEF u
<1>3. ASSUME NEW x \in Listed(u) PROVE x \in Listed(s) \cup Listed(t)
  <2>1. PICK i \in 1 .. Len(s) + Len(t) : x = u[i]
    BY <1>1, <1>3 DEF Listed
  <2>2. CASE i <= Len(s)
    <3>1. i \in 1 .. Len(s) /\ x = s[i]
      BY <1>1, <2>1, <2>2
    <3>2. QED
      BY <3>1 DEF Listed
  <2>3. CASE i > Len(s)
    <3>1. i - Len(s) \in 1 .. Len(t) /\ x = t[i - Len(s)]
      BY <1>1, <2>1, <2>3
    <3>2. QED
      BY <3>1 DEF Listed
  <2>4. QED
    BY <1>1, <2>2, <2>3
<1>4. ASSUME NEW x \in Listed(s) PROVE x \in Listed(u)
  <2>1. PICK i \in 1 .. Len(s) : x = s[i]
    BY DEF Listed
  <2>2. i \in 1 .. Len(u) /\ x = u[i]
    BY <1>1, <1>2, <2>1
  <2>3. QED
    BY <2>2 DEF Listed
<1>5. ASSUME NEW x \in Listed(t) PROVE x \in Listed(u)
  <2>1. PICK i \in 1 .. Len(t) : x = t[i]
    BY DEF Listed
  <2>2. Len(s) + i \in 1 .. Len(u) /\ x = u[Len(s) + i]
    BY <1>1, <1>2, <2>1
  <2>3. QED
    BY <2>2 DEF Listed
<1>6. ASSUME Distinct(s), Distinct(t), Listed(s) \cap Listed(t) = {}
      PROVE  Distinct(u)
  <2>1. SUFFICES ASSUME NEW i \in 1 .. Len(s) + Len(t),
                        NEW j \in 1 .. Len(s) + Len(t), u[i] = u[j], i < j
                 PROVE  FALSE
    <3>1. ASSUME NEW i \in 1 .. Len(s) + Len(t),
                 NEW j \in 1 .. Len(s) + Len(t), u[i] = u[j]
          PROVE  i = j
      BY <1>1, <2>1, <3>1
    <3>2. QED
      BY <1>1, <3>1 DEF Distinct
  <2>2. CASE j <= Len(s)
    <3>1. i \in 1 .. Len(s) /\ j \in 1 .. Len(s)
      BY <1>1, <2>1, <2>2
    <3>2. s[i] = s[j]
      BY <1>2, <2>1, <3>1
    <3>3. i = j
      BY <1>6, <3>1, <3>2 DEF Distinct
    <3>4. QED
      BY <2>1, <3>3
  <2>3. CASE i > Len(s)
    <3>1. i - Len(s) \in 1 .. Len(t) /\ j - Len(s) \in 1 .. Len(t)
      BY <1>1, <2>1, <2>3
    <3>2. t[i - Len(s)] = t[j - Len(s)]
      BY <1>1, <2>1, <2>3
    <3>3. i - Len(s) = j - Len(s)
      BY <1>6, <3>1, <3>2 DEF Distinct
    <3>4. QED
      BY <1>1, <2>1, <3>3
  <2>4. CASE i <= Len(s) /\ j > Len(s)
    <3>1. i \in 1 .. Len(s) /\ j - Len(s) \in 1 .. Len(t)
      BY <1>1, <2>1, <2>4
    <3>2. u[i] = s[i] /\ u[j] = t[j - Len(s)]
      BY <1>1, <2>1, <2>4
    <3>3. s[i] \in Listed(s) /\ t[j - Len(s)] \in Listed(t)
      BY <3>1 DEF Listed
    <3>4. QED
      BY <1>6, <2>1, <3>2, <3>3
  <2>5. QED
    BY <1>1, <2>2, <2>3, <2>4
<1>7. QED
  BY <1>1, <1>3, <1>4, <1>5, <1>6 DEF u

(* A list of one. *)
LEMMA ListedOne ==
  ASSUME NEW S, NEW x \in S
  PROVE  /\ <<x>> \in Seq(S) /\ Len(<<x>>) = 1 /\ <<x>>[1] = x
         /\ Listed(<<x>>) = {x} /\ Distinct(<<x>>)
  BY DEF Listed, Distinct

(* An element added at the end of a list. *)
LEMMA ListedAppend ==
  ASSUME NEW S, NEW s \in Seq(S), NEW x \in S
  PROVE  /\ Append(s, x) \in Seq(S) /\ Len(Append(s, x)) = Len(s) + 1
         /\ Listed(Append(s, x)) = Listed(s) \cup {x}
         /\ Distinct(s) /\ x \notin Listed(s) => Distinct(Append(s, x))
<1>1. Append(s, x) = s \o <<x>>
  OBVIOUS
<1>2. /\ <<x>> \in Seq(S) /\ Len(<<x>>) = 1
      /\ Listed(<<x>>) = {x} /\ Distinct(<<x>>)
  BY ListedOne
<1> DEFINE t == <<x>>
<1> HIDE DEF t
<1>3. /\ s \o t \in Seq(S) /\ Len(s \o t) = Len(s) + Len(t)
      /\ Listed(s \o t) = Listed(s) \cup Listed(t)
      /\ Distinct(s) /\ Distinct(t) /\ Listed(s) \cap Listed(t) = {} =>
           Distinct(s \o t)
  BY <1>2, ListedConcat DEF t
<1>4. QED
  BY <1>1, <1>2, <1>3 DEF t

(* The free list page_init has made after n pages. *)
LEMMA FreePagesUpTo ==
  ASSUME NEW mc, NEW nextfree, NPages(mc) \in Nat
  PROVE  \E f : /\ f = [n \in 0 .. NPages(mc) |->
                          IF n = 0 THEN <<>>
                          ELSE IF PageUsed(mc, nextfree, n - 1) THEN f[n - 1]
                          ELSE <<n - 1>> \o f[n - 1]]
                /\ FreePages(mc, nextfree) = f[NPages(mc)]
<1> DEFINE np == NPages(mc)
           Is(f) == f = [n \in 0 .. np |->
                           IF n = 0 THEN <<>>
                           ELSE IF PageUsed(mc, nextfree, n - 1) THEN f[n - 1]
                           ELSE <<n - 1>> \o f[n - 1]]
           Step == [x \in (1 .. np) \X Seq(Nat) |->
                      IF PageUsed(mc, nextfree, x[1] - 1) THEN x[2]
                      ELSE <<x[1] - 1>> \o x[2]]
<1>1. Step \in [(1 .. np) \X Seq(Nat) -> Seq(Nat)]
  <2>1. \A n \in 1 .. np, v \in Seq(Nat) : <<n - 1>> \o v \in Seq(Nat)
    <3>1. ASSUME NEW n \in 1 .. np, NEW v \in Seq(Nat)
          PROVE  <<n - 1>> \o v \in Seq(Nat)
      <4> DEFINE w == <<n - 1>>
      <4>1. n - 1 \in Nat
        OBVIOUS
      <4>2. w \in Seq(Nat)
        BY <4>1
      <4> HIDE DEF w
      <4>3. w \o v \in Seq(Nat)
        BY <4>2
      <4>4. QED
        BY <4>3 DEF w
    <3>2. QED
      BY <3>1
  <2>2. QED
    BY <2>1
<1>2. \A n \in 1 .. np, v \in Seq(Nat) :
        Step[<<n, v>>] = IF PageUsed(mc, nextfree, n - 1) THEN v
                         ELSE <<n - 1>> \o v
  OBVIOUS
<1>3. <<>> \in Seq(Nat) /\ np \in Nat
  OBVIOUS
<1> HIDE DEF Step
<1>4. PICK f \in [0 .. np -> Seq(Nat)] :
        f[0] = <<>> /\ \A n \in 1 .. np : f[n] = Step[<<n, f[n - 1]>>]
  <2> DEFINE S == Seq(Nat)
             e == <<>>
  <2>1. e \in S /\ np \in Nat
    OBVIOUS
  <2>2. Step \in Steps(np, S)
    BY <1>1 DEF Steps
  <2> HIDE DEF S, np, e
  <2>3. \E f : DefinedBy(f, e, Step, np, S)
    BY <2>1, <2>2, RecursionUpTo
  <2>4. QED
    BY <2>3 DEF S, e, DefinedBy
<1>5. Is(f)
  <2>1. ASSUME NEW n \in 0 .. np, n # 0
        PROVE  f[n] = IF PageUsed(mc, nextfree, n - 1) THEN f[n - 1]
                      ELSE <<n - 1>> \o f[n - 1]
    <3>1. n \in 1 .. np /\ n - 1 \in 0 .. np
      BY <1>3, <2>1
    <3>2. f[n] = Step[<<n, f[n - 1]>>] /\ f[n - 1] \in Seq(Nat)
      BY <1>4, <2>1, <3>1
    <3>3. QED
      BY <1>2, <3>1, <3>2
  <2>2. f[0] = <<>>
    BY <1>3, <1>4
  <2>3. QED
    BY <1>4, <2>1, <2>2
<1>6. FreePages(mc, nextfree) = (CHOOSE g : Is(g))[np]
  BY DEF FreePages
<1>7. Is(CHOOSE g : Is(g))
  <2> HIDE DEF Is
  <2>1. QED
    BY <1>5
<1>8. QED
  BY <1>6, <1>7

(* The free list of page_init: the pages not in use, each once. *)
LEMMA FreePagesFacts ==
  ASSUME NEW mc, NEW nextfree, NPages(mc) \in Nat,
         0 .. NPages(mc) - 1 \in SUBSET Page
  PROVE  LET L == FreePages(mc, nextfree)
         IN  /\ L \in Seq(Page) /\ Distinct(L)
             /\ Listed(L) = {i \in 0 .. NPages(mc) - 1 :
                               ~PageUsed(mc, nextfree, i)}
<1> DEFINE np == NPages(mc)
           used(i) == PageUsed(mc, nextfree, i)
           Right(n, L) == /\ L \in Seq(Page) /\ Distinct(L)
                          /\ Listed(L) = {i \in 0 .. n - 1 : ~used(i)}
<1>1. PICK f : /\ f = [n \in 0 .. np |->
                         IF n = 0 THEN <<>>
                         ELSE IF used(n - 1) THEN f[n - 1]
                         ELSE <<n - 1>> \o f[n - 1]]
               /\ FreePages(mc, nextfree) = f[np]
  BY FreePagesUpTo
<1> HIDE DEF used
<1> DEFINE T == {n \in 0 .. np : Right(n, f[n])}
<1>2. 0 \in T
  <2>1. f[0] = <<>>
    BY <1>1
  <2>2. Right(0, <<>>)
    BY DEF Distinct, Listed
  <2>3. 0 \in 0 .. np
    OBVIOUS
  <2> HIDE DEF Right, np
  <2>4. QED
    BY <2>1, <2>2, <2>3
<1>3. ASSUME NEW n \in 0 .. np - 1, n \in T PROVE n + 1 \in T
  <2>1. n + 1 \in 0 .. np /\ n + 1 # 0 /\ (n + 1) - 1 = n /\ n \in Page
        /\ np \in Nat
    OBVIOUS
  <2>2. f[n + 1] = IF used(n) THEN f[n] ELSE <<n>> \o f[n]
    BY <1>1, <2>1
  <2>3. Right(n, f[n])
    BY <1>3
  <2>4. CASE used(n)
    <3>1. {i \in 0 .. (n + 1) - 1 : ~used(i)} = {i \in 0 .. n - 1 : ~used(i)}
      BY <2>1, <2>4
    <3>2. Right(n + 1, f[n])
      BY <2>3, <3>1
    <3> HIDE DEF Right
    <3>3. QED
      BY <2>1, <2>2, <2>4, <3>2
  <2>5. CASE ~used(n)
    <3> DEFINE L == f[n]
               h == <<n>>
    <3>1. L \in Seq(Page) /\ Distinct(L)
          /\ Listed(L) = {i \in 0 .. n - 1 : ~used(i)}
      BY <2>3
    <3>2. h \in Seq(Page) /\ Listed(h) = {n} /\ Distinct(h)
      BY <2>1, ListedOne
    <3> HIDE DEF L, h
    <3>3. Listed(h) \cap Listed(L) = {}
      BY <2>1, <3>1, <3>2
    <3>4. h \o L \in Seq(Page) /\ Distinct(h \o L)
          /\ Listed(h \o L) = {n} \cup Listed(L)
      BY <3>1, <3>2, <3>3, ListedConcat
    <3>5. {i \in 0 .. (n + 1) - 1 : ~used(i)}
            = {n} \cup {i \in 0 .. n - 1 : ~used(i)}
      BY <2>1, <2>5
    <3>6. Right(n + 1, h \o L)
      BY <3>1, <3>4, <3>5
    <3> HIDE DEF Right
    <3>7. QED
      BY <2>1, <2>2, <2>5, <3>6 DEF L, h
  <2>6. QED
    BY <2>4, <2>5
<1>4. np \in T
  <2>1. np \in 0 .. np /\ np \in Nat
    OBVIOUS
  <2> HIDE DEF T
  <2>2. QED
    BY <1>2, <1>3, <2>1, UpTo
<1>5. QED
  BY <1>1, <1>4 DEF used

(* The two lists of check_page_free_list after k pages. *)
Halves == [low : Seq(Page), high : Seq(Page)]

HalvesOf(f, m, L) ==
  /\ f \in [0 .. Len(L) -> Halves]
  /\ f[0] = [low |-> <<>>, high |-> <<>>]
  /\ \A k \in 1 .. Len(L) :
       f[k] = IF EntryMaps(L[k])
              THEN [low |-> Append(f[k - 1].low, L[k]), high |-> f[k - 1].high]
              ELSE [low |-> f[k - 1].low, high |-> Append(f[k - 1].high, L[k])]
  /\ LowFirst(m) = f[Len(L)].low \o f[Len(L)].high

(* There is such a pair of lists for each k. *)
LEMMA LowFirstUpTo ==
  ASSUME NEW m, NEW L, L = m.page_free_list, L \in Seq(Page)
  PROVE  \E f : HalvesOf(f, m, L)
<1> DEFINE Next1(k, s) ==
             IF EntryMaps(L[k])
             THEN [low |-> Append(s.low, L[k]), high |-> s.high]
             ELSE [low |-> s.low, high |-> Append(s.high, L[k])]
           none == [low |-> <<>>, high |-> <<>>]
           Is(f) == f = [k \in 0 .. Len(L) |->
                           IF k = 0 THEN none ELSE Next1(k, f[k - 1])]
           Step == [x \in (1 .. Len(L)) \X Halves |-> Next1(x[1], x[2])]
           n == Len(L)
<1>1. n \in Nat /\ none \in Halves
  BY DEF Halves
<1>2. \A k \in 1 .. n, s \in Halves : Next1(k, s) \in Halves
  <2>1. ASSUME NEW k \in 1 .. n, NEW s \in Halves PROVE Next1(k, s) \in Halves
    <3>1. L[k] \in Page /\ s.low \in Seq(Page) /\ s.high \in Seq(Page)
      BY DEF Halves
    <3>2. Append(s.low, L[k]) \in Seq(Page) /\ Append(s.high, L[k]) \in Seq(Page)
      BY <3>1
    <3>3. QED
      BY <3>1, <3>2 DEF Halves
  <2>2. QED
    BY <2>1
<1> HIDE DEF Next1, none
<1>3. Step \in [(1 .. n) \X Halves -> Halves]
  BY <1>2
<1>4. \A k \in 1 .. n, s \in Halves : Step[<<k, s>>] = Next1(k, s)
  OBVIOUS
<1> HIDE DEF Step, n
<1>5. PICK f \in [0 .. n -> Halves] :
        f[0] = none /\ \A k \in 1 .. n : f[k] = Step[<<k, f[k - 1]>>]
  <2>1. Step \in Steps(n, Halves)
    BY <1>3 DEF Steps
  <2>2. \E f : DefinedBy(f, none, Step, n, Halves)
    BY <1>1, <2>1, RecursionUpTo
  <2>3. QED
    BY <2>2 DEF DefinedBy
<1>6. \A k \in 1 .. n : f[k - 1] \in Halves
  BY <1>1, <1>5
<1>7. Is(f)
  <2>1. ASSUME NEW k \in 0 .. n, k # 0 PROVE f[k] = Next1(k, f[k - 1])
    <3>1. k \in 1 .. n
      BY <1>1, <2>1
    <3>2. QED
      BY <1>4, <1>5, <1>6, <3>1
  <2>2. QED
    BY <1>5, <2>1 DEF n
<1> DEFINE g == CHOOSE h : Is(h)
<1>8. LowFirst(m) = g[n].low \o g[n].high
  BY DEF LowFirst, Next1, none, n
<1>9. Is(g)
  <2> HIDE DEF Is
  <2>1. QED
    BY <1>7
<1> HIDE DEF g
<1>10. DOMAIN g = 0 .. n /\ g[0] = none
       /\ \A k \in 1 .. n : g[k] = Next1(k, g[k - 1])
  <2>1. g = [k \in 0 .. n |-> IF k = 0 THEN none ELSE Next1(k, g[k - 1])]
    BY <1>9 DEF n
  <2>2. DOMAIN g = 0 .. n
    BY <2>1
  <2>3. 0 \in 0 .. n
    BY <1>1
  <2>4. g[0] = none
    BY <2>1, <2>3
  <2>5. ASSUME NEW k \in 1 .. n PROVE g[k] = Next1(k, g[k - 1])
    <3>1. k \in 0 .. n /\ k # 0
      BY <1>1
    <3>2. QED
      BY <2>1, <3>1
  <2>6. QED
    BY <2>2, <2>4, <2>5
<1>11. g \in [0 .. n -> Halves]
  <2> DEFINE T == {k \in 0 .. n : g[k] \in Halves}
  <2>1. 0 \in T
    BY <1>1, <1>10
  <2>2. ASSUME NEW k \in 0 .. n - 1, k \in T PROVE k + 1 \in T
    <3>1. k + 1 \in 1 .. n /\ (k + 1) - 1 = k /\ k + 1 \in 0 .. n
      BY <1>1
    <3>2. g[k + 1] = Next1(k + 1, g[k])
      BY <1>10, <3>1
    <3>3. g[k] \in Halves
      BY <2>2
    <3>4. g[k + 1] \in Halves
      BY <1>2, <3>1, <3>2, <3>3
    <3>5. QED
      BY <3>1, <3>4
  <2>3. \A k \in 0 .. n : k \in T
    <3> HIDE DEF T
    <3>1. QED
      BY <1>1, <2>1, <2>2, UpTo
  <2>4. \A k \in 0 .. n : g[k] \in Halves
    BY <2>3
  <2>5. g = [k \in 0 .. n |-> g[k]]
    <3>1. g = [k \in 0 .. n |-> IF k = 0 THEN none ELSE Next1(k, g[k - 1])]
      BY <1>9 DEF n
    <3>2. QED
      BY <1>10, <3>1
  <2>6. QED
    BY <2>4, <2>5
<1>12. HalvesOf(g, m, L)
  BY <1>8, <1>10, <1>11 DEF Next1, none, n, HalvesOf
<1>13. QED
  BY <1>12

(* check_page_free_list(1) puts the pages entry_pgdir maps first, and      *)
(* loses or doubles none.                                                  *)
LEMMA LowFirstFacts ==
  ASSUME NEW m, m.page_free_list \in Seq(Page), Distinct(m.page_free_list)
  PROVE  \E low, high \in Seq(Page) :
           /\ LowFirst(m) = low \o high
           /\ \A p \in Listed(low) : EntryMaps(p)
           /\ Listed(low) = {p \in Listed(m.page_free_list) : EntryMaps(p)}
           /\ Listed(low) \cup Listed(high) = Listed(m.page_free_list)
           /\ Listed(low) \cap Listed(high) = {}
           /\ Distinct(low) /\ Distinct(high)
           /\ Len(low) + Len(high) = Len(m.page_free_list)
<1> DEFINE L == m.page_free_list
           n == Len(L)
<1>1. L \in Seq(Page) /\ n \in Nat /\ \A k \in 1 .. n : L[k] \in Page
  OBVIOUS
<1> HIDE DEF L
<1>2. PICK f : /\ f \in [0 .. n -> Halves]
               /\ f[0] = [low |-> <<>>, high |-> <<>>]
               /\ \A k \in 1 .. n :
                    f[k] = IF EntryMaps(L[k])
                           THEN [low |-> Append(f[k - 1].low, L[k]),
                                 high |-> f[k - 1].high]
                           ELSE [low |-> f[k - 1].low,
                                 high |-> Append(f[k - 1].high, L[k])]
               /\ LowFirst(m) = f[n].low \o f[n].high
  <2>1. L = m.page_free_list
    BY DEF L
  <2>2. PICK f : HalvesOf(f, m, L)
    BY <1>1, <2>1, LowFirstUpTo
  <2>3. QED
    BY <2>2 DEF HalvesOf
<1> HIDE DEF n
<1> DEFINE Seen(k) == {L[i] : i \in 1 .. k}
           Good(k, low, high) ==
             /\ low \in Seq(Page) /\ high \in Seq(Page)
             /\ \A p \in Listed(low) : EntryMaps(p)
             /\ \A p \in Listed(high) : ~EntryMaps(p)
             /\ Listed(low) \cup Listed(high) = Seen(k)
             /\ Distinct(low) /\ Distinct(high)
             /\ Len(low) + Len(high) = k
           T == {k \in 0 .. n : Good(k, f[k].low, f[k].high)}
<1>3. 0 \in T
  <2>1. f[0].low = <<>> /\ f[0].high = <<>> /\ 0 \in 0 .. n
    BY <1>1, <1>2
  <2>2. Good(0, <<>>, <<>>)
    BY DEF Listed, Distinct
  <2> HIDE DEF Good
  <2>3. QED
    BY <2>1, <2>2
<1>4. ASSUME NEW k \in 0 .. n - 1, k \in T PROVE k + 1 \in T
  <2> DEFINE low == f[k].low
             high == f[k].high
             x == L[k + 1]
  <2>1. /\ k + 1 \in 1 .. n /\ k + 1 \in 0 .. n /\ (k + 1) - 1 = k /\ x \in Page
        /\ k \in Nat
    BY <1>1
  <2>2. Good(k, low, high)
    BY <1>4
  <2>3. f[k + 1] = IF EntryMaps(x) THEN [low |-> Append(low, x), high |-> high]
                   ELSE [low |-> low, high |-> Append(high, x)]
    BY <1>2, <2>1
  <2>4. Seen(k + 1) = Seen(k) \cup {x}
    <3>1. 1 .. k + 1 = (1 .. k) \cup {k + 1}
      BY <2>1
    <3>2. QED
      BY <3>1
  <2>5. x \notin Seen(k)
    <3>1. Distinct(L) /\ n = Len(L)
      BY DEF L, n
    <3>2. ASSUME NEW i \in 1 .. k, x = L[i] PROVE FALSE
      <4>1. i \in 1 .. n /\ i # k + 1
        BY <1>1, <2>1
      <4>2. QED
        BY <2>1, <3>1, <3>2, <4>1 DEF Distinct
    <3>3. QED
      BY <3>2
  <2> HIDE DEF low, high, x, Seen
  <2>6. CASE EntryMaps(x)
    <3>1. f[k + 1].low = Append(low, x) /\ f[k + 1].high = high
      BY <2>3, <2>6
    <3>2. x \notin Listed(low) /\ x \in Page /\ low \in Seq(Page) /\ Distinct(low)
      BY <2>1, <2>2, <2>5
    <3>3. /\ Append(low, x) \in Seq(Page) /\ Len(Append(low, x)) = Len(low) + 1
          /\ Listed(Append(low, x)) = Listed(low) \cup {x}
          /\ Distinct(Append(low, x))
      BY <3>2, ListedAppend
    <3>4. Len(low) \in Nat /\ Len(high) \in Nat
      BY <2>2
    <3>5. Good(k + 1, Append(low, x), high)
      BY <2>1, <2>2, <2>4, <2>6, <3>3, <3>4
    <3> HIDE DEF Good
    <3>6. QED
      BY <2>1, <3>1, <3>5
  <2>7. CASE ~EntryMaps(x)
    <3>1. f[k + 1].low = low /\ f[k + 1].high = Append(high, x)
      BY <2>3, <2>7
    <3>2. x \notin Listed(high) /\ x \in Page /\ high \in Seq(Page)
          /\ Distinct(high)
      BY <2>1, <2>2, <2>5
    <3>3. /\ Append(high, x) \in Seq(Page) /\ Len(Append(high, x)) = Len(high) + 1
          /\ Listed(Append(high, x)) = Listed(high) \cup {x}
          /\ Distinct(Append(high, x))
      BY <3>2, ListedAppend
    <3>4. Len(low) \in Nat /\ Len(high) \in Nat
      BY <2>2
    <3>5. Good(k + 1, low, Append(high, x))
      BY <2>1, <2>2, <2>4, <2>7, <3>3, <3>4
    <3> HIDE DEF Good
    <3>6. QED
      BY <2>1, <3>1, <3>5
  <2>8. QED
    BY <2>6, <2>7
<1>5. n \in T
  <2>1. n \in 0 .. n
    BY <1>1
  <2> HIDE DEF T
  <2>2. QED
    BY <1>1, <1>3, <1>4, <2>1, UpTo
<1> DEFINE lw == f[n].low
           hg == f[n].high
<1>6. Good(n, lw, hg)
  BY <1>5
<1>7. Seen(n) = Listed(L)
  BY DEF Listed, n
<1> HIDE DEF lw, hg, Seen
<1>8. LowFirst(m) = lw \o hg
  BY <1>2 DEF lw, hg
<1>9. Listed(lw) = {p \in Listed(L) : EntryMaps(p)}
      /\ Listed(lw) \cap Listed(hg) = {}
  BY <1>6, <1>7
<1>10. QED
  BY <1>6, <1>7, <1>8, <1>9 DEF L, n

------------------------------------------------------------------------------
(* Memory while the tests run: they write entries with other permissions.  *)
Pte == [pp : Page, perm : {"U", "UW", "W", "none"}]
PteOrNull == Pte \cup {NULL}

BootMemory ==
  [pp_ref : [Page -> 0 .. RefMod - 1], page_free_list : Seq(Page),
   frame : [Page -> [Ptx -> PteOrNull]], panic : {"none", "page_free"}]

(* A memory that no panic has stopped. *)
Running(m) == m \in BootMemory /\ m.panic = "none"

(* An entry is not NULL, and a cleared page is full of NULLs. *)
LEMMA EntryFacts ==
  /\ NULL \notin Pte
  /\ Zero \in [Ptx -> PteOrNull] /\ \A j \in Ptx : Zero[j] = NULL
  /\ 0 \in Ptx /\ 1 \in Ptx /\ Pdx \subseteq Ptx
<1>1. ASSUME NULL \in Pte PROVE FALSE
  <2>1. PICK p \in Page, b \in {"U", "UW", "W", "none"} :
          NULL = [pp |-> p, perm |-> b]
    BY <1>1 DEF Pte
  <2>2. QED
    BY <2>1, BootMemAssumption DEF Perm
<1>2. 0 \in Ptx /\ 1 \in Ptx /\ Pdx \subseteq Ptx
  BY BootConstants DEF Ptx, Pdx
<1>3. QED
  BY <1>1, <1>2 DEF Zero, PteOrNull

(* The fields of a memory. *)
LEMMA MemoryFields ==
  ASSUME NEW m, m \in BootMemory
  PROVE  /\ m.pp_ref \in [Page -> 0 .. RefMod - 1]
         /\ m.page_free_list \in Seq(Page)
         /\ m.frame \in [Page -> [Ptx -> PteOrNull]]
  BY DEF BootMemory

(* A count wraps around within its range. *)
LEMMA CountRange ==
  ASSUME NEW r \in 0 .. RefMod - 1
  PROVE  Succ(r) \in 0 .. RefMod - 1 /\ Pred(r) \in 0 .. RefMod - 1
         /\ Succ(0) = 1 /\ Succ(1) = 2 /\ Pred(1) = 0 /\ Pred(2) = 1
  BY BootConstants DEF Succ, Pred

(* page_free of a page that is neither on the list nor in use. *)
LEMMA FreeRuns ==
  ASSUME NEW m, Running(m), NEW p \in Page, m.pp_ref[p] = 0,
         p \notin Listed(m.page_free_list)
  PROVE  LET n == page_free(m, p)
         IN  /\ Running(n) /\ n.page_free_list = <<p>> \o m.page_free_list
             /\ n.pp_ref = m.pp_ref /\ n.frame = m.frame
<1> DEFINE L == m.page_free_list
           n == page_free(m, p)
           K == <<p>> \o L
<1>1. L \in Seq(Page) /\ m \in BootMemory
  BY MemoryFields DEF Running
<1>2. ~Linked(m, p)
  <2>1. ASSUME NEW k \in 1 .. Len(L) - 1, L[k] = p PROVE FALSE
    <3>1. k \in 1 .. Len(L)
      BY <1>1
    <3>2. QED
      BY <2>1, <3>1 DEF Listed
  <2>2. QED
    BY <2>1 DEF Linked
<1>3. n = [m EXCEPT !.page_free_list = <<p>> \o @]
  BY <1>2 DEF page_free
<1>4. n = [m EXCEPT !.page_free_list = K]
  BY <1>1, <1>3 DEF BootMemory
<1>5. K \in Seq(Page)
  BY <1>1
<1> HIDE DEF K, n, L
<1>6. /\ n \in BootMemory /\ n.page_free_list = K /\ n.pp_ref = m.pp_ref
      /\ n.frame = m.frame /\ n.panic = m.panic
  BY <1>1, <1>4, <1>5 DEF BootMemory
<1>7. QED
  BY <1>6 DEF Running, n, K, L

(* page_alloc of the only free page. *)
LEMMA AllocRuns ==
  ASSUME NEW m, Running(m), NEW p \in Page, m.page_free_list = <<p>>
  PROVE  /\ CanAlloc(m) /\ Allocated(m) = p
         /\ LET n == page_alloc(m, FALSE)
            IN  /\ Running(n) /\ n.page_free_list = <<>>
                /\ n.pp_ref = m.pp_ref /\ n.frame = m.frame
         /\ LET n == page_alloc(m, TRUE)
            IN  /\ Running(n) /\ n.page_free_list = <<>>
                /\ n.pp_ref = m.pp_ref /\ n.frame = [m.frame EXCEPT ![p] = Zero]
<1>1. CanAlloc(m) /\ Allocated(m) = p /\ Tail(m.page_free_list) = <<>>
  BY DEF CanAlloc, Allocated
<1>2. m \in BootMemory /\ m.panic = "none" /\ <<>> \in Seq(Page)
  BY DEF Running
<1> DEFINE n == [m EXCEPT !.page_free_list = Tail(@)]
           f == [m.frame EXCEPT ![p] = Zero]
           z == [n EXCEPT !.frame[p] = Zero]
<1>3. n = [m EXCEPT !.page_free_list = <<>>]
  BY <1>1, <1>2 DEF BootMemory
<1> HIDE DEF n
<1>4. /\ n \in BootMemory /\ n.page_free_list = <<>> /\ n.pp_ref = m.pp_ref
      /\ n.frame = m.frame /\ n.panic = "none"
  BY <1>2, <1>3 DEF BootMemory
<1>5. f \in [Page -> [Ptx -> PteOrNull]]
  BY <1>2, MemoryFields, EntryFacts
<1>6. z = [n EXCEPT !.frame = f]
  BY <1>4 DEF BootMemory
<1> HIDE DEF f, z
<1>7. /\ z \in BootMemory /\ z.page_free_list = <<>> /\ z.pp_ref = m.pp_ref
      /\ z.frame = f /\ z.panic = "none"
  BY <1>4, <1>5, <1>6 DEF BootMemory
<1>8. page_alloc(m, FALSE) = n /\ page_alloc(m, TRUE) = z
  BY <1>1 DEF page_alloc, n, z
<1>9. QED
  BY <1>1, <1>4, <1>7, <1>8 DEF Running, f

(* page_incref. *)
LEMMA IncrefRuns ==
  ASSUME NEW m, Running(m), NEW p \in Page
  PROVE  LET n == page_incref(m, p)
         IN  /\ Running(n) /\ n.page_free_list = m.page_free_list
             /\ n.frame = m.frame
             /\ n.pp_ref = [m.pp_ref EXCEPT ![p] = Succ(m.pp_ref[p])]
<1> DEFINE R == [m.pp_ref EXCEPT ![p] = Succ(m.pp_ref[p])]
           n == page_incref(m, p)
<1>1. m \in BootMemory /\ m.panic = "none"
  BY DEF Running
<1>2. R \in [Page -> 0 .. RefMod - 1]
  BY <1>1, MemoryFields, CountRange
<1>3. n = [m EXCEPT !.pp_ref = R]
  BY <1>1 DEF page_incref, BootMemory
<1> HIDE DEF R, n
<1>4. /\ n \in BootMemory /\ n.page_free_list = m.page_free_list
      /\ n.pp_ref = R /\ n.frame = m.frame /\ n.panic = "none"
  BY <1>1, <1>2, <1>3 DEF BootMemory
<1>5. QED
  BY <1>4 DEF Running, R, n

(* The frames when slot j of page t is written. *)
Written(frame, t, j, slot) ==
  [frame EXCEPT ![t] = [frame[t] EXCEPT ![j] = slot]]

(* One slot of one page is written. *)
LEMMA SetRuns ==
  ASSUME NEW m, Running(m), NEW t \in Page, NEW j \in Ptx,
         NEW slot \in PteOrNull
  PROVE  LET n == set_pte(m, t, j, slot)
         IN  /\ Running(n) /\ n.page_free_list = m.page_free_list
             /\ n.pp_ref = m.pp_ref
             /\ n.frame = Written(m.frame, t, j, slot)
<1> DEFINE G == Written(m.frame, t, j, slot)
           n == set_pte(m, t, j, slot)
<1>1. m \in BootMemory /\ m.panic = "none"
  BY DEF Running
<1>2. G \in [Page -> [Ptx -> PteOrNull]]
  <2>1. m.frame[t] \in [Ptx -> PteOrNull]
    BY <1>1, MemoryFields
  <2>2. [m.frame[t] EXCEPT ![j] = slot] \in [Ptx -> PteOrNull]
    BY <2>1
  <2>3. QED
    BY <1>1, <2>2, MemoryFields DEF Written
<1>3. n = [m EXCEPT !.frame = G]
  BY <1>1 DEF BootMemory, set_pte, Written
<1> HIDE DEF G, n
<1>4. /\ n \in BootMemory /\ n.page_free_list = m.page_free_list
      /\ n.pp_ref = m.pp_ref /\ n.frame = G /\ n.panic = "none"
  BY <1>1, <1>2, <1>3 DEF BootMemory
<1>5. QED
  BY <1>4 DEF Running, G, n

(* What the frames are, slot by slot, once one slot is written. *)
LEMMA WrittenFacts ==
  ASSUME NEW F \in [Page -> [Ptx -> PteOrNull]], NEW t \in Page,
         NEW j \in Ptx, NEW slot \in PteOrNull,
         NEW W, W = Written(F, t, j, slot)
  PROVE  /\ W[t][j] = slot
         /\ \A k \in Ptx : k # j => W[t][k] = F[t][k]
         /\ \A p \in Page : p # t => W[p] = F[p]
<1>1. F[t] \in [Ptx -> PteOrNull]
  OBVIOUS
<1> DEFINE g == [F[t] EXCEPT ![j] = slot]
<1>2. g[j] = slot /\ \A k \in Ptx : k # j => g[k] = F[t][k]
  BY <1>1
<1>3. W = [F EXCEPT ![t] = g]
  BY DEF Written
<1> HIDE DEF g
<1>4. W[t] = g /\ \A p \in Page : p # t => W[p] = F[p]
  BY <1>3
<1>5. QED
  BY <1>2, <1>4

(* The free list after a count has gone down: a page nobody uses is freed. *)
AfterDecref(count, p, list) == IF Pred(count) = 0 THEN <<p>> \o list ELSE list

(* page_decref. *)
LEMMA DecrefRuns ==
  ASSUME NEW m, Running(m), NEW p \in Page, p \notin Listed(m.page_free_list)
  PROVE  LET n == page_decref(m, p)
         IN  /\ Running(n) /\ n.frame = m.frame
             /\ n.pp_ref = [m.pp_ref EXCEPT ![p] = Pred(m.pp_ref[p])]
             /\ n.page_free_list
                  = AfterDecref(m.pp_ref[p], p, m.page_free_list)
<1> DEFINE R == [m.pp_ref EXCEPT ![p] = Pred(m.pp_ref[p])]
           n == [m EXCEPT !.pp_ref[p] = Pred(@)]
<1>1. m \in BootMemory /\ m.panic = "none"
  BY DEF Running
<1>2. R \in [Page -> 0 .. RefMod - 1] /\ R[p] = Pred(m.pp_ref[p])
  BY <1>1, MemoryFields, CountRange
<1>3. n = [m EXCEPT !.pp_ref = R]
  BY <1>1 DEF BootMemory
<1>4. page_decref(m, p) = IF n.pp_ref[p] = 0 THEN page_free(n, p) ELSE n
  BY DEF page_decref
<1> HIDE DEF R, n
<1>5. /\ n \in BootMemory /\ n.page_free_list = m.page_free_list
      /\ n.pp_ref = R /\ n.frame = m.frame /\ n.panic = "none"
  BY <1>1, <1>2, <1>3 DEF BootMemory
<1>6. CASE R[p] = 0
  <2>1. page_decref(m, p) = page_free(n, p)
    BY <1>4, <1>5, <1>6
  <2> DEFINE k == page_free(n, p)
  <2>2. /\ Running(k) /\ k.page_free_list = <<p>> \o n.page_free_list
        /\ k.pp_ref = n.pp_ref /\ k.frame = n.frame
    BY <1>5, <1>6, FreeRuns DEF Running
  <2> HIDE DEF k
  <2>3. AfterDecref(m.pp_ref[p], p, m.page_free_list)
          = <<p>> \o n.page_free_list
    BY <1>2, <1>5, <1>6 DEF AfterDecref
  <2>4. QED
    BY <1>5, <2>1, <2>2, <2>3 DEF R, k
<1>7. CASE R[p] # 0
  <2>1. page_decref(m, p) = n
    BY <1>4, <1>5, <1>7
  <2>2. AfterDecref(m.pp_ref[p], p, m.page_free_list) = n.page_free_list
    BY <1>2, <1>5, <1>7 DEF AfterDecref
  <2>3. QED
    BY <1>5, <2>1, <2>2 DEF R, Running
<1>8. QED
  BY <1>6, <1>7

(* n is m with its last free page, p, the table for slot i of d. *)
Walked(n, m, d, i, p) ==
  /\ Running(n) /\ n.page_free_list = <<>>
  /\ n.pp_ref = [m.pp_ref EXCEPT ![p] = Succ(m.pp_ref[p])]
  /\ n.frame = Written([m.frame EXCEPT ![p] = Zero], d, i,
                       [pp |-> p, perm |-> "UW"])

(* pgdir_walk where there is no table yet, and one page is left for it. *)
LEMMA WalkRuns ==
  ASSUME NEW m, Running(m), NEW d \in Page, NEW i \in Ptx, NEW p \in Page,
         m.page_free_list = <<p>>, m.frame[d][i] = NULL, p # d
  PROVE  CanWalk(m, d, i) /\ Walked(pgdir_walk(m, d, i), m, d, i, p)
<1> DEFINE a == page_alloc(m, TRUE)
           b == page_incref(a, p)
           e == [pp |-> p, perm |-> "UW"]
<1>1. /\ CanAlloc(m) /\ Allocated(m) = p
      /\ Running(a) /\ a.page_free_list = <<>>
      /\ a.pp_ref = m.pp_ref /\ a.frame = [m.frame EXCEPT ![p] = Zero]
  BY AllocRuns
<1>2. pgdir_walk(m, d, i) = set_pte(b, d, i, e)
  BY <1>1, Zenon DEF pgdir_walk, HasTable, set_pte
<1>3. CanWalk(m, d, i)
  BY <1>1 DEF CanWalk
<1> HIDE DEF a
<1>4. /\ Running(b) /\ b.page_free_list = a.page_free_list
      /\ b.frame = a.frame
      /\ b.pp_ref = [a.pp_ref EXCEPT ![p] = Succ(a.pp_ref[p])]
  BY <1>1, IncrefRuns
<1>5. e \in PteOrNull
  BY DEF Pte, PteOrNull
<1> HIDE DEF b, e
<1> DEFINE n == set_pte(b, d, i, e)
<1>6. /\ Running(n) /\ n.page_free_list = b.page_free_list
      /\ n.pp_ref = b.pp_ref /\ n.frame = Written(b.frame, d, i, e)
  BY <1>4, <1>5, SetRuns
<1> HIDE DEF n
<1>7. QED
  BY <1>1, <1>2, <1>3, <1>4, <1>6 DEF e, n, Walked

(* Slot j of page t leads to page q. *)
LeadsTo(m, t, j, q) == m.frame[t][j] \in Pte /\ m.frame[t][j].pp = q

(* page_remove of a page that is mapped, q, by the table t. *)
LEMMA RemoveRuns ==
  ASSUME NEW m, Running(m), NEW d \in Page, NEW i \in Ptx, NEW j \in Ptx,
         NEW t, LeadsTo(m, d, i, t), NEW q, LeadsTo(m, t, j, q),
         q \notin Listed(m.page_free_list)
  PROVE  LET n == page_remove(m, d, i, j)
         IN  /\ Running(n) /\ n.frame = Written(m.frame, t, j, NULL)
             /\ n.pp_ref = [m.pp_ref EXCEPT ![q] = Pred(m.pp_ref[q])]
             /\ n.page_free_list
                  = AfterDecref(m.pp_ref[q], q, m.page_free_list)
<1>1. t \in Page /\ q \in Page
  BY DEF Pte, LeadsTo
<1>2. m.frame[d][i] # NULL /\ m.frame[t][j] # NULL
  BY EntryFacts DEF LeadsTo
<1>3. HasTable(m, d, i) /\ Table(m, d, i) = t
      /\ page_lookup(m, d, i, j) = m.frame[t][j]
      /\ page_lookup(m, d, i, j).pp = q
  BY <1>2 DEF HasTable, Table, page_lookup, LeadsTo
<1> DEFINE s == set_pte(m, t, j, NULL)
<1>4. page_remove(m, d, i, j) = page_decref(s, q)
  BY <1>2, <1>3, Zenon DEF page_remove
<1>5. NULL \in PteOrNull
  BY DEF PteOrNull
<1>6. /\ Running(s) /\ s.page_free_list = m.page_free_list
      /\ s.pp_ref = m.pp_ref /\ s.frame = Written(m.frame, t, j, NULL)
  BY <1>1, <1>5, SetRuns
<1> HIDE DEF s
<1> DEFINE n == page_decref(s, q)
<1>7. /\ Running(n) /\ n.frame = s.frame
      /\ n.pp_ref = [s.pp_ref EXCEPT ![q] = Pred(s.pp_ref[q])]
      /\ n.page_free_list = AfterDecref(s.pp_ref[q], q, s.page_free_list)
  BY <1>1, <1>6, DecrefRuns
<1> HIDE DEF n
<1>8. QED
  BY <1>4, <1>6, <1>7 DEF n

(* What page_insert is; x is memory after page_remove. *)
LEMMA InsertParts ==
  ASSUME NEW m, NEW d, NEW p, NEW i, NEW j, NEW perm, CanWalk(m, d, i),
         NEW x,
         x = page_remove(page_incref(pgdir_walk(m, d, i), p), d, i, j)
  PROVE  page_insert(m, d, p, i, j, perm)
           = set_pte(x, Table(x, d, i), j, [pp |-> p, perm |-> perm])
  BY DEF page_insert

(* n is w with p mapped in slot j of the table t. *)
Inserted(n, w, t, j, p, perm) ==
  /\ Running(n) /\ n.page_free_list = w.page_free_list
  /\ n.pp_ref = [w.pp_ref EXCEPT ![p] = Succ(w.pp_ref[p])]
  /\ n.frame = Written(w.frame, t, j, [pp |-> p, perm |-> perm])

(* page_insert where nothing was mapped; w is memory after pgdir_walk. *)
LEMMA InsertRuns ==
  ASSUME NEW m, NEW d \in Page, NEW p \in Page, NEW i \in Ptx, NEW j \in Ptx,
         NEW perm \in {"U", "UW", "W", "none"}, CanWalk(m, d, i),
         NEW w, w = pgdir_walk(m, d, i), Running(w),
         NEW t, LeadsTo(w, d, i, t), t # d, w.frame[t][j] = NULL
  PROVE  Inserted(page_insert(m, d, p, i, j, perm), w, t, j, p, perm)
<1> DEFINE c == page_incref(w, p)
           e == [pp |-> p, perm |-> perm]
<1>1. /\ Running(c) /\ c.page_free_list = w.page_free_list
      /\ c.frame = w.frame
      /\ c.pp_ref = [w.pp_ref EXCEPT ![p] = Succ(w.pp_ref[p])]
  BY IncrefRuns
<1>2. t \in Page /\ w.frame[d][i] # NULL /\ e \in PteOrNull
  BY EntryFacts DEF Pte, PteOrNull, LeadsTo
<1> HIDE DEF c
<1>3. page_lookup(c, d, i, j) = NULL /\ Table(c, d, i) = t
  BY <1>1, <1>2 DEF page_lookup, HasTable, Table, LeadsTo
<1>4. page_remove(c, d, i, j) = c
  BY <1>3 DEF page_remove
<1>5. page_insert(m, d, p, i, j, perm) = set_pte(c, t, j, e)
  <2>1. c = page_remove(page_incref(pgdir_walk(m, d, i), p), d, i, j)
    BY <1>4 DEF c
  <2>2. page_insert(m, d, p, i, j, perm)
          = set_pte(c, Table(c, d, i), j, [pp |-> p, perm |-> perm])
    BY <2>1, InsertParts
  <2>3. QED
    BY <1>3, <2>2, Zenon
<1> HIDE DEF e
<1> DEFINE n == set_pte(c, t, j, e)
<1>6. /\ Running(n) /\ n.page_free_list = c.page_free_list
      /\ n.pp_ref = c.pp_ref /\ n.frame = Written(c.frame, t, j, e)
  BY <1>1, <1>2, SetRuns
<1> HIDE DEF n
<1>7. QED
  BY <1>1, <1>5, <1>6 DEF e, n, Inserted

(* n is m with q replaced by p, in slot j of the table t. *)
Replaced(n, m, t, j, q, p, perm) ==
  LET R == [m.pp_ref EXCEPT ![p] = Succ(m.pp_ref[p])]
  IN  /\ Running(n)
      /\ n.page_free_list = AfterDecref(R[q], q, m.page_free_list)
      /\ n.pp_ref = [R EXCEPT ![q] = Pred(R[q])]
      /\ n.frame = Written(m.frame, t, j, [pp |-> p, perm |-> perm])

(* page_insert over page q, through a table that is there. *)
LEMMA InsertOverRuns ==
  ASSUME NEW m, Running(m), NEW d \in Page, NEW p \in Page, NEW i \in Ptx,
         NEW j \in Ptx, NEW perm \in {"U", "UW", "W", "none"},
         NEW t, LeadsTo(m, d, i, t), t # d, NEW q, LeadsTo(m, t, j, q),
         q \notin Listed(m.page_free_list)
  PROVE  Replaced(page_insert(m, d, p, i, j, perm), m, t, j, q, p, perm)
<1> DEFINE c == page_incref(m, p)
           e == [pp |-> p, perm |-> perm]
           R == [m.pp_ref EXCEPT ![p] = Succ(m.pp_ref[p])]
<1>1. /\ Running(c) /\ c.page_free_list = m.page_free_list
      /\ c.frame = m.frame /\ c.pp_ref = R
  BY IncrefRuns
<1>2. t \in Page /\ m.frame[d][i] # NULL /\ e \in PteOrNull /\ q \in Page
  BY EntryFacts DEF Pte, PteOrNull, LeadsTo
<1>3. pgdir_walk(m, d, i) = m /\ CanWalk(m, d, i)
  BY <1>2 DEF pgdir_walk, HasTable, CanWalk
<1> DEFINE x == page_remove(c, d, i, j)
<1> HIDE DEF c, e, R
<1>4. /\ Running(c) /\ LeadsTo(c, d, i, t) /\ LeadsTo(c, t, j, q)
      /\ q \notin Listed(c.page_free_list)
  BY <1>1 DEF LeadsTo
<1>5. /\ Running(x) /\ x.frame = Written(c.frame, t, j, NULL)
      /\ x.pp_ref = [c.pp_ref EXCEPT ![q] = Pred(c.pp_ref[q])]
      /\ x.page_free_list = AfterDecref(c.pp_ref[q], q, c.page_free_list)
  BY <1>4, RemoveRuns
<1> HIDE DEF x
<1>6. /\ m.frame \in [Page -> [Ptx -> PteOrNull]]
      /\ m.frame[t] \in [Ptx -> PteOrNull]
  BY <1>2, MemoryFields DEF Running
<1>7. x.frame = Written(m.frame, t, j, NULL)
  BY <1>1, <1>5
<1>8. Table(x, d, i) = t
  <2>1. x.frame[d] = m.frame[d]
    <3>1. NULL \in PteOrNull /\ d # t
      BY DEF PteOrNull
    <3>2. \A r \in Page : r # t => x.frame[r] = m.frame[r]
      <4>1. t \in Page /\ m.frame \in [Page -> [Ptx -> PteOrNull]]
        BY <1>2, <1>6
      <4>2. QED
        BY <1>7, <3>1, <4>1, WrittenFacts
    <3>3. QED
      BY <3>1, <3>2
  <2>2. QED
    BY <2>1 DEF Table, LeadsTo
<1> DEFINE n == set_pte(x, t, j, e)
<1>9. /\ Running(n) /\ n.page_free_list = x.page_free_list
      /\ n.pp_ref = x.pp_ref /\ n.frame = Written(x.frame, t, j, e)
  <2>1. Running(x) /\ t \in Page /\ e \in PteOrNull
    BY <1>2, <1>5
  <2>2. QED
    BY <2>1, SetRuns
<1>10. page_insert(m, d, p, i, j, perm) = n
  <2>1. x = page_remove(page_incref(pgdir_walk(m, d, i), p), d, i, j)
    BY <1>3 DEF c, x
  <2>2. page_insert(m, d, p, i, j, perm)
          = set_pte(x, Table(x, d, i), j, [pp |-> p, perm |-> perm])
    BY <1>3, <2>1, InsertParts
  <2>3. QED
    BY <1>8, <2>2, Zenon DEF e
<1> HIDE DEF n
<1>11. Written(x.frame, t, j, e) = Written(m.frame, t, j, e)
  <2>1. x.frame = [m.frame EXCEPT ![t] = [m.frame[t] EXCEPT ![j] = NULL]]
    BY <1>7 DEF Written
  <2>2. x.frame[t] = [m.frame[t] EXCEPT ![j] = NULL]
    BY <1>2, <1>6, <2>1
  <2>3. [x.frame[t] EXCEPT ![j] = e] = [m.frame[t] EXCEPT ![j] = e]
    BY <1>6, <2>2
  <2> DEFINE g == [m.frame[t] EXCEPT ![j] = e]
             h == [m.frame[t] EXCEPT ![j] = NULL]
  <2> HIDE DEF g, h
  <2>4. x.frame = [m.frame EXCEPT ![t] = h]
    BY <2>1 DEF h
  <2>5. [x.frame EXCEPT ![t] = g] = [m.frame EXCEPT ![t] = g]
    BY <1>6, <2>4
  <2>6. QED
    BY <2>3, <2>5 DEF Written, g
<1>12. QED
  BY <1>1, <1>5, <1>9, <1>10, <1>11 DEF e, R, n, Replaced

------------------------------------------------------------------------------
(* check_page.  Three different pages, and a directory that is none. *)
Three(pp, d) ==
  /\ pp[1] \in Page /\ pp[2] \in Page /\ pp[3] \in Page /\ d \in Page
  /\ pp[1] # pp[2] /\ pp[1] # pp[3] /\ pp[2] # pp[3]
  /\ d # pp[1] /\ d # pp[2] /\ d # pp[3]

(* The counts of the other pages are what they were in m. *)
OtherCounts(n, m, pp) ==
  \A p \in Page : p # pp[1] /\ p # pp[2] /\ p # pp[3] =>
    n.pp_ref[p] = m.pp_ref[p]

(* No other page was written, and no other slot of the directory is used. *)
OtherFrames(n, m, d, pp) ==
  /\ \A p \in Page : p # d /\ p # pp[1] => n.frame[p] = m.frame[p]
  /\ \A i \in Ptx : i # 0 => n.frame[d][i] = NULL

(* pp0 is the table for slot 0, with x0 and x1 in its first slots. *)
TableHas(n, m, d, pp, x0, x1) ==
  /\ OtherFrames(n, m, d, pp)
  /\ n.frame[d][0] = [pp |-> pp[1], perm |-> "UW"]
  /\ n.frame[pp[1]][0] = x0 /\ n.frame[pp[1]][1] = x1

(* ... and pp1 and pp2 are counted c1 and c2 times. *)
Tabled(n, m, d, pp, c1, c2, list, x0, x1) ==
  /\ Running(n) /\ OtherCounts(n, m, pp) /\ n.page_free_list = list
  /\ n.pp_ref[pp[1]] = 1 /\ n.pp_ref[pp[2]] = c1 /\ n.pp_ref[pp[3]] = c2
  /\ TableHas(n, m, d, pp, x0, x1)

(* Counts far from their limits. *)
LEMMA SmallCounts ==
  Succ(0) = 1 /\ Succ(1) = 2 /\ Pred(1) = 0 /\ Pred(2) = 1
  BY BootConstants DEF Succ, Pred

(* The slots that check_page uses are different ones. *)
LEMMA DistinctSlots ==
  0 \in Ptx /\ 1 \in Ptx /\ 0 # 1
  BY EntryFacts

(* The table of slot 0 leads where its slots say. *)
LEMMA TabledLeads ==
  ASSUME NEW n, NEW m, NEW d, NEW pp, NEW c1, NEW c2, NEW list, NEW x0,
         NEW x1, Three(pp, d), Tabled(n, m, d, pp, c1, c2, list, x0, x1)
  PROVE  /\ LeadsTo(n, d, 0, pp[1])
         /\ x0 \in PteOrNull /\ x1 \in PteOrNull
         /\ x0 \in Pte => LeadsTo(n, pp[1], 0, x0.pp)
         /\ x1 \in Pte => LeadsTo(n, pp[1], 1, x1.pp)
         /\ HasTable(n, d, 0) /\ Table(n, d, 0) = pp[1]
         /\ page_lookup(n, d, 0, 0) = x0 /\ page_lookup(n, d, 0, 1) = x1
         /\ CanWalk(n, d, 0) /\ pgdir_walk(n, d, 0) = n
<1>1. [pp |-> pp[1], perm |-> "UW"] \in Pte
  BY DEF Three, Pte
<1>2. LeadsTo(n, d, 0, pp[1])
  BY <1>1 DEF Tabled, TableHas, LeadsTo
<1>3. n.frame[d][0] # NULL
  BY <1>1, EntryFacts DEF Tabled, TableHas
<1>4. HasTable(n, d, 0) /\ Table(n, d, 0) = pp[1]
  BY <1>2, <1>3 DEF HasTable, Table, LeadsTo
<1>5. pgdir_walk(n, d, 0) = n /\ CanWalk(n, d, 0)
  BY <1>4 DEF pgdir_walk, CanWalk
<1>6. x0 \in PteOrNull /\ x1 \in PteOrNull
  <2>1. n.frame \in [Page -> [Ptx -> PteOrNull]] /\ pp[1] \in Page
    BY MemoryFields DEF Tabled, Running, Three
  <2>2. QED
    BY <2>1, DistinctSlots DEF Tabled, TableHas
<1>7. QED
  BY <1>2, <1>4, <1>5, <1>6 DEF LeadsTo, page_lookup, Tabled, TableHas

(* Slot j of the table is written, and nothing else. *)
LEMMA TableWritten ==
  ASSUME NEW n, NEW m, NEW d, NEW pp, NEW c1, NEW c2, NEW list, NEW x0,
         NEW x1, Three(pp, d), Tabled(n, m, d, pp, c1, c2, list, x0, x1),
         NEW j \in {0, 1}, NEW slot \in PteOrNull, NEW w,
         w.frame = Written(n.frame, pp[1], j, slot)
  PROVE  /\ j = 0 => TableHas(w, m, d, pp, slot, x1)
         /\ j = 1 => TableHas(w, m, d, pp, x0, slot)
<1>1. /\ n.frame \in [Page -> [Ptx -> PteOrNull]] /\ pp[1] \in Page
      /\ d \in Page /\ d # pp[1] /\ j \in Ptx
  BY MemoryFields, DistinctSlots DEF Tabled, Running, Three
<1> DEFINE W == w.frame
<1>2. W = Written(n.frame, pp[1], j, slot)
  OBVIOUS
<1> HIDE DEF W
<1>3. /\ W[pp[1]][j] = slot
      /\ \A k \in Ptx : k # j => W[pp[1]][k] = n.frame[pp[1]][k]
      /\ \A p \in Page : p # pp[1] => W[p] = n.frame[p]
  BY <1>1, <1>2, WrittenFacts
<1>4. W[d] = n.frame[d]
  BY <1>1, <1>3
<1>5. /\ j = 0 => W[pp[1]][0] = slot /\ W[pp[1]][1] = x1
      /\ j = 1 => W[pp[1]][0] = x0 /\ W[pp[1]][1] = slot
  BY <1>3, DistinctSlots DEF Tabled, TableHas
<1>6. QED
  BY <1>3, <1>4, <1>5 DEF Tabled, TableHas, OtherFrames, W

(* A page that is mapped once, at slot 1, is mapped there again. *)
LEMMA MappedAgain ==
  ASSUME NEW n, NEW m, NEW d, NEW pp, NEW c1, NEW c2, NEW x0, NEW x1,
         Three(pp, d), Tabled(n, m, d, pp, c1, c2, <<>>, x0, x1),
         NEW p, p = pp[2] \/ p = pp[3], n.pp_ref[p] = 1, x1 \in Pte,
         x1.pp = p, NEW perm \in {"U", "UW", "W", "none"}
  PROVE  Tabled(page_insert(n, d, p, 0, 1, perm), m, d, pp, c1, c2, <<>>,
                x0, [pp |-> p, perm |-> perm])
<1> DEFINE w == page_insert(n, d, p, 0, 1, perm)
           e == [pp |-> p, perm |-> perm]
           R == [n.pp_ref EXCEPT ![p] = Succ(n.pp_ref[p])]
<1>1. /\ Running(n) /\ d \in Page /\ p \in Page /\ pp[1] # d
      /\ n.page_free_list = <<>> /\ n.pp_ref \in [Page -> 0 .. RefMod - 1]
  BY MemoryFields DEF Tabled, Three, Running
<1>2. LeadsTo(n, d, 0, pp[1]) /\ LeadsTo(n, pp[1], 1, p)
  BY TabledLeads
<1>3. p \notin Listed(n.page_free_list)
  BY <1>1 DEF Listed
<1>4. /\ Running(w)
      /\ w.page_free_list = AfterDecref(R[p], p, n.page_free_list)
      /\ w.pp_ref = [R EXCEPT ![p] = Pred(R[p])]
      /\ w.frame = Written(n.frame, pp[1], 1, e)
  <2>1. 0 \in Ptx /\ 1 \in Ptx /\ Running(n) /\ d \in Page /\ p \in Page
    BY <1>1, DistinctSlots
  <2>2. Replaced(w, n, pp[1], 1, p, p, perm)
    BY <1>1, <1>2, <1>3, <2>1, InsertOverRuns
  <2>3. QED
    BY <2>2 DEF Replaced
<1>5. /\ R[p] = 2 /\ \A q \in Page : q # p => R[q] = n.pp_ref[q]
      /\ R \in [Page -> 0 .. RefMod - 1]
  BY <1>1, SmallCounts, CountRange
<1> HIDE DEF w, R
<1>6. w.page_free_list = <<>>
  BY <1>1, <1>4, <1>5, SmallCounts DEF AfterDecref
<1>7. \A q \in Page : w.pp_ref[q] = n.pp_ref[q]
  <2>1. w.pp_ref = [R EXCEPT ![p] = 1]
    BY <1>4, <1>5, SmallCounts
  <2>2. QED
    BY <1>1, <1>5, <2>1
<1>8. e \in PteOrNull
  BY <1>1 DEF PteOrNull, Pte
<1> HIDE DEF e
<1>9. TableHas(w, m, d, pp, x0, e)
  BY <1>4, <1>8, TableWritten
<1>10. Tabled(w, m, d, pp, c1, c2, <<>>, x0, e)
  BY <1>4, <1>6, <1>7, <1>9 DEF Tabled, OtherCounts, Three
<1>11. QED
  BY <1>10 DEF w, e

(* What the tests see through the table. *)
LEMMA TabledSees ==
  ASSUME NEW n, NEW m, NEW d, NEW pp, NEW c1, NEW c2, NEW list, NEW x0,
         NEW x1, Three(pp, d), Tabled(n, m, d, pp, c1, c2, list, x0, x1)
  PROVE  /\ x0 = NULL => VaToPa(n, d, 0) = NULL
         /\ x1 = NULL => VaToPa(n, d, 1) = NULL
         /\ x0 \in Pte => VaToPa(n, d, 0) = x0.pp
         /\ x1 \in Pte => VaToPa(n, d, 1) = x1.pp
         /\ \A perms : x1.perm \in perms => PteHas(n, d, 1, perms)
         /\ list = <<>> => ~CanAlloc(n) /\ ~CanWalk(n, d, 1)
         /\ n.frame[d][0].perm = "UW"
         /\ n.pp_ref[pp[1]] = 1 /\ n.pp_ref[pp[2]] = c1
         /\ n.pp_ref[pp[3]] = c2
<1>1. page_lookup(n, d, 0, 0) = x0 /\ page_lookup(n, d, 0, 1) = x1
  BY TabledLeads
<1>2. /\ x0 = NULL => VaToPa(n, d, 0) = NULL
      /\ x1 = NULL => VaToPa(n, d, 1) = NULL
  BY <1>1 DEF VaToPa
<1>3. /\ x0 \in Pte => VaToPa(n, d, 0) = x0.pp
      /\ x1 \in Pte => VaToPa(n, d, 1) = x1.pp
  BY <1>1, EntryFacts DEF VaToPa
<1>4. \A perms : x1.perm \in perms => PteHas(n, d, 1, perms)
  BY <1>1 DEF PteHas
<1>5. list = <<>> => ~CanAlloc(n)
  BY DEF CanAlloc, Tabled
<1>6. ~HasTable(n, d, 1)
  BY DistinctSlots DEF Tabled, TableHas, OtherFrames, HasTable
<1>7. n.frame[d][0].perm = "UW"
  BY DEF Tabled, TableHas
<1>8. QED
  BY <1>2, <1>3, <1>4, <1>5, <1>6, <1>7 DEF CanWalk, Tabled

(* pp2 is mapped again, and with other permissions. *)
LEMMA CheckAgainOK ==
  ASSUME NEW n, NEW m, NEW d, NEW pp, NEW x0, NEW x1, Three(pp, d),
         Tabled(n, m, d, pp, 1, 1, <<>>, x0, x1), x1 \in Pte, x1.pp = pp[3]
  PROVE  LET r == CheckAgain(n, d, pp)
         IN  /\ r.asserts
             /\ Tabled(r.m, m, d, pp, 1, 1, <<>>, x0,
                       [pp |-> pp[3], perm |-> "W"])
<1> DEFINE again == page_insert(n, d, pp[3], 0, 1, "W")
           more == page_insert(again, d, pp[3], 0, 1, "UW")
           fewer == page_insert(more, d, pp[3], 0, 1, "W")
           w == [pp |-> pp[3], perm |-> "W"]
           uw == [pp |-> pp[3], perm |-> "UW"]
<1>1. /\ w \in Pte /\ uw \in Pte /\ w.pp = pp[3] /\ uw.pp = pp[3]
      /\ w.perm = "W" /\ uw.perm = "UW"
  BY DEF Pte, Three
<1>2. n.pp_ref[pp[3]] = 1
  BY TabledSees
<1>3. Tabled(again, m, d, pp, 1, 1, <<>>, x0, w)
  BY <1>2, MappedAgain
<1> HIDE DEF again, w, uw
<1>4. again.pp_ref[pp[3]] = 1
  BY <1>3, TabledSees
<1>5. Tabled(more, m, d, pp, 1, 1, <<>>, x0, uw)
  BY <1>1, <1>3, <1>4, MappedAgain DEF uw
<1> HIDE DEF more
<1>6. more.pp_ref[pp[3]] = 1
  BY <1>5, TabledSees
<1>7. Tabled(fewer, m, d, pp, 1, 1, <<>>, x0, w)
  BY <1>1, <1>5, <1>6, MappedAgain DEF w
<1> HIDE DEF fewer
<1>8. VaToPa(again, d, 1) = pp[3] /\ ~CanAlloc(again)
  BY <1>1, <1>3, TabledSees
<1>9. /\ VaToPa(more, d, 1) = pp[3] /\ PteHas(more, d, 1, {"U", "UW"})
      /\ more.frame[d][0].perm \in {"U", "UW"}
  <2>1. uw.perm \in {"U", "UW"}
    BY <1>1
  <2>2. QED
    BY <1>1, <1>5, <2>1, TabledSees
<1>10. PteHas(fewer, d, 1, {"W"}) /\ ~CanWalk(fewer, d, 1)
  <2>1. w.perm \in {"W"}
    BY <1>1
  <2>2. QED
    BY <1>7, <2>1, TabledSees
<1>11. CheckAgain(n, d, pp).m = fewer
  BY DEF CheckAgain, fewer, more, again
<1>12. CheckAgain(n, d, pp).asserts
  <2>1. \A x \in {again, more} : VaToPa(x, d, 1) = pp[3] /\ x.pp_ref[pp[3]] = 1
    BY <1>4, <1>6, <1>8, <1>9
  <2>2. QED
    BY <1>8, <1>9, <1>10, <2>1, Zenon DEF CheckAgain, fewer, more, again
<1>13. QED
  BY <1>7, <1>11, <1>12 DEF w

(* pp1, mapped at slot 0, takes the place of pp2 at slot 1. *)
LEMMA MappedInstead ==
  ASSUME NEW n, NEW m, NEW d, NEW pp, NEW x0, NEW x1, Three(pp, d),
         Tabled(n, m, d, pp, 1, 1, <<>>, x0, x1), x1 \in Pte, x1.pp = pp[3],
         NEW perm \in {"U", "UW", "W", "none"}
  PROVE  Tabled(page_insert(n, d, pp[2], 0, 1, perm), m, d, pp, 2, 0,
                <<pp[3]>>, x0, [pp |-> pp[2], perm |-> perm])
<1> DEFINE w == page_insert(n, d, pp[2], 0, 1, perm)
           e == [pp |-> pp[2], perm |-> perm]
           R == [n.pp_ref EXCEPT ![pp[2]] = Succ(n.pp_ref[pp[2]])]
<1>1. /\ Running(n) /\ d \in Page /\ pp[1] # d
      /\ n.page_free_list = <<>> /\ n.pp_ref \in [Page -> 0 .. RefMod - 1]
      /\ pp[1] \in Page /\ pp[2] \in Page /\ pp[3] \in Page
      /\ pp[2] # pp[1] /\ pp[3] # pp[1] /\ pp[2] # pp[3]
  BY MemoryFields DEF Tabled, Three, Running
<1>2. LeadsTo(n, d, 0, pp[1]) /\ LeadsTo(n, pp[1], 1, pp[3])
  BY TabledLeads
<1>3. pp[3] \notin Listed(n.page_free_list)
  BY <1>1 DEF Listed
<1>4. /\ Running(w)
      /\ w.page_free_list = AfterDecref(R[pp[3]], pp[3], n.page_free_list)
      /\ w.pp_ref = [R EXCEPT ![pp[3]] = Pred(R[pp[3]])]
      /\ w.frame = Written(n.frame, pp[1], 1, e)
  <2>1. 0 \in Ptx /\ 1 \in Ptx
    BY DistinctSlots
  <2>2. Replaced(w, n, pp[1], 1, pp[3], pp[2], perm)
    BY <1>1, <1>2, <1>3, <2>1, InsertOverRuns
  <2>3. QED
    BY <2>2 DEF Replaced
<1>5. n.pp_ref[pp[1]] = 1 /\ n.pp_ref[pp[2]] = 1 /\ n.pp_ref[pp[3]] = 1
  BY DEF Tabled
<1>6. /\ R[pp[2]] = 2 /\ \A q \in Page : q # pp[2] => R[q] = n.pp_ref[q]
      /\ R \in [Page -> 0 .. RefMod - 1]
  BY <1>1, <1>5, SmallCounts, CountRange
<1> HIDE DEF w, R
<1>7. R[pp[3]] = 1
  BY <1>1, <1>5, <1>6
<1>8. w.page_free_list = <<pp[3]>>
  <2>1. w.page_free_list = <<pp[3]>> \o <<>>
    BY <1>1, <1>4, <1>7, SmallCounts DEF AfterDecref
  <2>2. QED
    BY <2>1
<1>9. /\ w.pp_ref[pp[3]] = 0
      /\ \A q \in Page : q # pp[3] => w.pp_ref[q] = R[q]
  <2>1. w.pp_ref = [R EXCEPT ![pp[3]] = 0]
    BY <1>4, <1>7, SmallCounts
  <2>2. QED
    BY <1>1, <1>6, <2>1
<1>10. e \in PteOrNull
  BY <1>1 DEF PteOrNull, Pte
<1> HIDE DEF e
<1>11. TableHas(w, m, d, pp, x0, e)
  BY <1>4, <1>10, TableWritten
<1>12. OtherCounts(w, m, pp)
  BY <1>6, <1>9 DEF OtherCounts, Tabled
<1>13. w.pp_ref[pp[1]] = 1 /\ w.pp_ref[pp[2]] = 2
  BY <1>1, <1>5, <1>6, <1>9
<1>14. Tabled(w, m, d, pp, 2, 0, <<pp[3]>>, x0, e)
  BY <1>4, <1>8, <1>9, <1>11, <1>12, <1>13 DEF Tabled
<1>15. QED
  BY <1>14 DEF w, e

(* The only free page is taken. *)
LEMMA LastTaken ==
  ASSUME NEW n, NEW m, NEW d, NEW pp, NEW c1, NEW c2, NEW x0, NEW x1,
         Three(pp, d), NEW p \in Page,
         Tabled(n, m, d, pp, c1, c2, <<p>>, x0, x1)
  PROVE  /\ CanAlloc(n) /\ Allocated(n) = p
         /\ Tabled(page_alloc(n, FALSE), m, d, pp, c1, c2, <<>>, x0, x1)
<1> DEFINE w == page_alloc(n, FALSE)
<1>1. Running(n) /\ n.page_free_list = <<p>>
  BY DEF Tabled
<1>2. /\ CanAlloc(n) /\ Allocated(n) = p
      /\ Running(w) /\ w.page_free_list = <<>>
      /\ w.pp_ref = n.pp_ref /\ w.frame = n.frame
  BY <1>1, AllocRuns
<1> HIDE DEF w
<1>3. Tabled(w, m, d, pp, c1, c2, <<>>, x0, x1)
  BY <1>2 DEF Tabled, OtherCounts, TableHas, OtherFrames
<1>4. QED
  BY <1>2, <1>3 DEF w

(* pp1 is unmapped at slot j: at the last of its slots it becomes free. *)
LEMMA Unmapped ==
  ASSUME NEW n, NEW m, NEW d, NEW pp, NEW c1 \in {1, 2}, NEW x0, NEW x1,
         Three(pp, d), Tabled(n, m, d, pp, c1, 0, <<>>, x0, x1),
         NEW j \in {0, 1}, NEW x, x \in Pte, x.pp = pp[2],
         j = 0 => x = x0, j = 1 => x = x1
  PROVE  LET w == page_remove(n, d, 0, j)
             list == IF c1 = 1 THEN <<pp[2]>> ELSE <<>>
         IN  /\ j = 0 => Tabled(w, m, d, pp, c1 - 1, 0, list, NULL, x1)
             /\ j = 1 => Tabled(w, m, d, pp, c1 - 1, 0, list, x0, NULL)
<1> DEFINE w == page_remove(n, d, 0, j)
           list == IF c1 = 1 THEN <<pp[2]>> ELSE <<>>
<1>1. /\ Running(n) /\ d \in Page /\ pp[1] # d
      /\ n.page_free_list = <<>> /\ n.pp_ref \in [Page -> 0 .. RefMod - 1]
      /\ pp[1] \in Page /\ pp[2] \in Page /\ pp[3] \in Page
      /\ pp[2] # pp[1] /\ pp[3] # pp[1] /\ pp[2] # pp[3]
  BY MemoryFields DEF Tabled, Three, Running
<1>2. LeadsTo(n, d, 0, pp[1]) /\ LeadsTo(n, pp[1], j, pp[2])
  BY TabledLeads
<1>3. pp[2] \notin Listed(n.page_free_list)
  BY <1>1 DEF Listed
<1>4. /\ Running(w) /\ w.frame = Written(n.frame, pp[1], j, NULL)
      /\ w.pp_ref = [n.pp_ref EXCEPT ![pp[2]] = Pred(n.pp_ref[pp[2]])]
      /\ w.page_free_list
           = AfterDecref(n.pp_ref[pp[2]], pp[2], n.page_free_list)
  <2>1. 0 \in Ptx /\ j \in Ptx
    BY DistinctSlots
  <2>2. QED
    BY <1>1, <1>2, <1>3, <2>1, RemoveRuns
<1> HIDE DEF w
<1>5. n.pp_ref[pp[1]] = 1 /\ n.pp_ref[pp[2]] = c1 /\ n.pp_ref[pp[3]] = 0
  BY DEF Tabled
<1>6. Pred(c1) = c1 - 1
  BY SmallCounts
<1>7. w.page_free_list = list
  <2>1. <<pp[2]>> \o <<>> = <<pp[2]>>
    OBVIOUS
  <2>2. w.page_free_list = AfterDecref(c1, pp[2], <<>>)
    BY <1>1, <1>4, <1>5
  <2>3. QED
    BY <1>6, <2>1, <2>2 DEF AfterDecref
<1>8. /\ w.pp_ref[pp[2]] = c1 - 1
      /\ \A q \in Page : q # pp[2] => w.pp_ref[q] = n.pp_ref[q]
  <2>1. w.pp_ref = [n.pp_ref EXCEPT ![pp[2]] = c1 - 1]
    BY <1>4, <1>5, <1>6
  <2>2. QED
    BY <1>1, <2>1
<1>9. /\ j = 0 => TableHas(w, m, d, pp, NULL, x1)
      /\ j = 1 => TableHas(w, m, d, pp, x0, NULL)
  <2>1. NULL \in PteOrNull
    BY DEF PteOrNull
  <2>2. QED
    BY <1>4, <2>1, TableWritten
<1>10. OtherCounts(w, m, pp)
  BY <1>8 DEF OtherCounts, Tabled
<1>11. w.pp_ref[pp[1]] = 1 /\ w.pp_ref[pp[3]] = 0
  BY <1>1, <1>5, <1>8
<1> HIDE DEF list
<1>12. /\ j = 0 => Tabled(w, m, d, pp, c1 - 1, 0, list, NULL, x1)
       /\ j = 1 => Tabled(w, m, d, pp, c1 - 1, 0, list, x0, NULL)
  BY <1>4, <1>7, <1>8, <1>9, <1>10, <1>11 DEF Tabled
<1>13. QED
  BY <1>12 DEF w, list

(* pp1 takes the place of pp2, and is unmapped at its two addresses. *)
LEMMA CheckReplaceOK ==
  ASSUME NEW n, NEW m, NEW d, NEW pp, NEW x0, NEW x1, Three(pp, d),
         Tabled(n, m, d, pp, 1, 1, <<>>, x0, x1),
         x0 \in Pte, x0.pp = pp[2], x1 \in Pte, x1.pp = pp[3]
  PROVE  LET r == CheckReplace(n, d, pp)
         IN  r.asserts /\ Tabled(r.m, m, d, pp, 0, 0, <<>>, NULL, NULL)
<1> DEFINE replaced == page_insert(n, d, pp[2], 0, 1, "W")
           got2 == page_alloc(replaced, FALSE)
           one == page_remove(got2, d, 0, 0)
           same == page_insert(one, d, pp[2], 0, 1, "none")
           gone == page_remove(same, d, 0, 1)
           got1 == page_alloc(gone, FALSE)
           w == [pp |-> pp[2], perm |-> "W"]
           o == [pp |-> pp[2], perm |-> "none"]
<1>1. /\ w \in Pte /\ o \in Pte /\ w.pp = pp[2] /\ o.pp = pp[2]
      /\ w.perm = "W" /\ pp[2] \in Page /\ pp[3] \in Page
  BY DEF Pte, Three
<1>2. Tabled(replaced, m, d, pp, 2, 0, <<pp[3]>>, x0, w)
  BY MappedInstead
<1> HIDE DEF replaced, w, o
<1>3. /\ CanAlloc(replaced) /\ Allocated(replaced) = pp[3]
      /\ Tabled(got2, m, d, pp, 2, 0, <<>>, x0, w)
  BY <1>1, <1>2, LastTaken
<1> HIDE DEF got2
<1>4. Tabled(one, m, d, pp, 1, 0, <<>>, NULL, w)
  <2>1. 0 \in {0, 1} /\ 2 \in {1, 2} /\ 2 - 1 = 1 /\ 0 # 1
        /\ (IF 2 = 1 THEN <<pp[2]>> ELSE <<>>) = <<>>
    OBVIOUS
  <2>2. QED
    BY <1>3, <2>1, Unmapped
<1> HIDE DEF one
<1>5. one.pp_ref[pp[2]] = 1
  BY <1>4, TabledSees
<1>6. Tabled(same, m, d, pp, 1, 0, <<>>, NULL, o)
  BY <1>1, <1>4, <1>5, MappedAgain DEF o
<1> HIDE DEF same
<1>7. Tabled(gone, m, d, pp, 0, 0, <<pp[2]>>, NULL, NULL)
  BY <1>1, <1>6, Unmapped
<1> HIDE DEF gone
<1>8. /\ CanAlloc(gone) /\ Allocated(gone) = pp[2]
      /\ Tabled(got1, m, d, pp, 0, 0, <<>>, NULL, NULL)
  BY <1>1, <1>7, LastTaken
<1> HIDE DEF got1
<1>9. /\ PteHas(replaced, d, 1, {"W", "none"})
      /\ VaToPa(replaced, d, 0) = pp[2] /\ VaToPa(replaced, d, 1) = pp[2]
      /\ replaced.pp_ref[pp[2]] = 2 /\ replaced.pp_ref[pp[3]] = 0
  <2>1. w.perm \in {"W", "none"}
    BY <1>1
  <2>2. QED
    BY <1>1, <1>2, <2>1, TabledSees
<1>10. /\ VaToPa(one, d, 0) = NULL /\ VaToPa(one, d, 1) = pp[2]
       /\ one.pp_ref[pp[3]] = 0
  BY <1>1, <1>4, TabledSees
<1>11. same.pp_ref[pp[2]] # 0 /\ ~Linked(same, pp[2])
  <2>1. same.page_free_list = <<>>
    BY <1>6 DEF Tabled
  <2>2. ~Linked(same, pp[2])
    BY <2>1 DEF Linked
  <2>3. same.pp_ref[pp[2]] = 1
    BY <1>6, TabledSees
  <2>4. QED
    BY <2>2, <2>3
<1>12. /\ VaToPa(gone, d, 0) = NULL /\ VaToPa(gone, d, 1) = NULL
       /\ gone.pp_ref[pp[2]] = 0 /\ gone.pp_ref[pp[3]] = 0
  BY <1>7, TabledSees
<1>13. ~CanAlloc(got1)
  BY <1>8, TabledSees
<1>14. CheckReplace(n, d, pp).m = got1
  BY DEF CheckReplace, got1, gone, same, one, got2, replaced
<1>15. CheckReplace(n, d, pp).asserts
  BY <1>3, <1>5, <1>8, <1>9, <1>10, <1>11, <1>12, <1>13, Zenon
     DEF CheckReplace, got1, gone, same, one, got2, replaced
<1>16. QED
  BY <1>8, <1>14, <1>15

(* The directory maps nothing; pp0 is counted c0 times. *)
Bare(n, m, d, pp, c0, list) ==
  /\ Running(n) /\ OtherCounts(n, m, pp) /\ n.page_free_list = list
  /\ n.pp_ref[pp[1]] = c0 /\ n.pp_ref[pp[2]] = 0 /\ n.pp_ref[pp[3]] = 0
  /\ OtherFrames(n, m, d, pp) /\ n.frame[d][0] = NULL

(* pp0 is freed while the list is put aside. *)
LEMMA BareFreed ==
  ASSUME NEW n, NEW m, NEW d, NEW pp, Three(pp, d),
         Bare(n, m, d, pp, 0, <<>>)
  PROVE  Bare(page_free(n, pp[1]), m, d, pp, 0, <<pp[1]>>)
<1> DEFINE w == page_free(n, pp[1])
<1>1. /\ Running(n) /\ pp[1] \in Page /\ n.pp_ref[pp[1]] = 0
      /\ n.page_free_list = <<>>
  BY DEF Bare, Three
<1>2. pp[1] \notin Listed(n.page_free_list)
  BY <1>1 DEF Listed
<1>3. /\ Running(w) /\ w.page_free_list = <<pp[1]>> \o n.page_free_list
      /\ w.pp_ref = n.pp_ref /\ w.frame = n.frame
  BY <1>1, <1>2, FreeRuns
<1> HIDE DEF w
<1>4. w.page_free_list = <<pp[1]>>
  <2>1. <<pp[1]>> \o <<>> = <<pp[1]>>
    OBVIOUS
  <2>2. QED
    BY <1>1, <1>3, <2>1
<1>5. Bare(w, m, d, pp, 0, <<pp[1]>>)
  BY <1>3, <1>4 DEF Bare, OtherCounts, OtherFrames
<1>6. QED
  BY <1>5 DEF w

(* pgdir_walk makes pp0 a page table, and an empty one. *)
LEMMA BareWalked ==
  ASSUME NEW n, NEW m, NEW d, NEW pp, Three(pp, d),
         Bare(n, m, d, pp, 0, <<pp[1]>>)
  PROVE  LET w == pgdir_walk(n, d, 0)
         IN  /\ CanWalk(n, d, 0) /\ w.frame[pp[1]] = Zero
             /\ Tabled(w, m, d, pp, 0, 0, <<>>, NULL, NULL)
<1> DEFINE w == pgdir_walk(n, d, 0)
           e == [pp |-> pp[1], perm |-> "UW"]
           Z == [n.frame EXCEPT ![pp[1]] = Zero]
<1>1. /\ Running(n) /\ pp[1] \in Page /\ d \in Page /\ d # pp[1]
      /\ n.pp_ref[pp[1]] = 0 /\ n.page_free_list = <<pp[1]>>
      /\ n.frame[d][0] = NULL /\ n.pp_ref \in [Page -> 0 .. RefMod - 1]
      /\ n.frame \in [Page -> [Ptx -> PteOrNull]]
  BY MemoryFields DEF Bare, Three, Running
<1>2. /\ CanWalk(n, d, 0) /\ Running(w) /\ w.page_free_list = <<>>
      /\ w.pp_ref = [n.pp_ref EXCEPT ![pp[1]] = Succ(n.pp_ref[pp[1]])]
      /\ w.frame = Written(Z, d, 0, e)
  <2>1. CanWalk(n, d, 0) /\ Walked(w, n, d, 0, pp[1])
    BY <1>1, DistinctSlots, WalkRuns
  <2>2. QED
    BY <2>1 DEF Walked
<1> HIDE DEF w
<1>3. /\ w.pp_ref[pp[1]] = 1
      /\ \A q \in Page : q # pp[1] => w.pp_ref[q] = n.pp_ref[q]
  BY <1>1, <1>2, SmallCounts
<1>4. /\ Z \in [Page -> [Ptx -> PteOrNull]] /\ Z[pp[1]] = Zero
      /\ \A q \in Page : q # pp[1] => Z[q] = n.frame[q]
  BY <1>1, EntryFacts
<1>5. e \in PteOrNull
  BY <1>1 DEF Pte, PteOrNull
<1> HIDE DEF Z, e
<1>6. /\ w.frame[d][0] = e
      /\ \A k \in Ptx : k # 0 => w.frame[d][k] = Z[d][k]
      /\ \A q \in Page : q # d => w.frame[q] = Z[q]
  <2> DEFINE W == w.frame
  <2>1. /\ W = Written(Z, d, 0, e) /\ 0 \in Ptx /\ d \in Page
        /\ Z \in [Page -> [Ptx -> PteOrNull]] /\ e \in PteOrNull
    BY <1>1, <1>2, <1>4, <1>5, DistinctSlots
  <2> HIDE DEF W
  <2>2. /\ W[d][0] = e /\ \A k \in Ptx : k # 0 => W[d][k] = Z[d][k]
        /\ \A q \in Page : q # d => W[q] = Z[q]
    BY <2>1, WrittenFacts
  <2>3. QED
    BY <2>2 DEF W
<1>7. w.frame[pp[1]] = Zero
  BY <1>1, <1>4, <1>6
<1>8. w.frame[pp[1]][0] = NULL /\ w.frame[pp[1]][1] = NULL
  BY <1>7, EntryFacts
<1>9. OtherFrames(w, m, d, pp)
  BY <1>1, <1>4, <1>6 DEF Bare, OtherFrames
<1>10. TableHas(w, m, d, pp, NULL, NULL)
  BY <1>6, <1>8, <1>9 DEF TableHas, e
<1>11. OtherCounts(w, m, pp) /\ w.pp_ref[pp[2]] = 0 /\ w.pp_ref[pp[3]] = 0
  BY <1>3 DEF Bare, OtherCounts, Three
<1>12. Tabled(w, m, d, pp, 0, 0, <<>>, NULL, NULL)
  BY <1>2, <1>3, <1>10, <1>11 DEF Tabled
<1>13. QED
  BY <1>2, <1>7, <1>12 DEF w

(* A page that is not mapped is mapped, pp1 at slot 0 or pp2 at slot 1; w  *)
(* is memory after pgdir_walk.                                             *)
LEMMA MappedNew ==
  ASSUME NEW b, NEW w, NEW m, NEW d, NEW pp, NEW c1, NEW c2, NEW x0, NEW x1,
         Three(pp, d), CanWalk(b, d, 0), w = pgdir_walk(b, d, 0),
         Tabled(w, m, d, pp, c1, c2, <<>>, x0, x1),
         NEW j \in {0, 1}, NEW p, w.pp_ref[p] = 0,
         j = 0 => p = pp[2] /\ x0 = NULL, j = 1 => p = pp[3] /\ x1 = NULL
  PROVE  LET n == page_insert(b, d, p, 0, j, "W")
             e == [pp |-> p, perm |-> "W"]
         IN  /\ j = 0 => Tabled(n, m, d, pp, 1, c2, <<>>, e, x1)
             /\ j = 1 => Tabled(n, m, d, pp, c1, 1, <<>>, x0, e)
<1> DEFINE n == page_insert(b, d, p, 0, j, "W")
           e == [pp |-> p, perm |-> "W"]
<1>1. /\ Running(w) /\ d \in Page /\ pp[1] # d /\ p \in Page
      /\ w.page_free_list = <<>> /\ w.pp_ref \in [Page -> 0 .. RefMod - 1]
      /\ j \in Ptx
  BY MemoryFields, DistinctSlots DEF Tabled, Three, Running
<1>2. LeadsTo(w, d, 0, pp[1])
  BY TabledLeads
<1>3. w.frame[pp[1]][j] = NULL
  BY DEF Tabled, TableHas
<1>4. Inserted(n, w, pp[1], j, p, "W")
  BY <1>1, <1>2, <1>3, DistinctSlots, InsertRuns
<1> HIDE DEF n
<1>5. e \in PteOrNull
  BY <1>1 DEF Pte, PteOrNull
<1>6. /\ Running(n) /\ n.page_free_list = <<>>
      /\ n.pp_ref = [w.pp_ref EXCEPT ![p] = Succ(w.pp_ref[p])]
      /\ n.frame = Written(w.frame, pp[1], j, e)
  BY <1>1, <1>4 DEF Inserted
<1>7. n.pp_ref[p] = 1 /\ \A q \in Page : q # p => n.pp_ref[q] = w.pp_ref[q]
  BY <1>1, <1>6, SmallCounts
<1> HIDE DEF e
<1>8. /\ j = 0 => TableHas(n, m, d, pp, e, x1)
      /\ j = 1 => TableHas(n, m, d, pp, x0, e)
  BY <1>5, <1>6, TableWritten
<1>9. OtherCounts(n, m, pp) /\ n.pp_ref[pp[1]] = 1
  BY <1>7 DEF Tabled, OtherCounts, Three
<1>10. /\ j = 0 => n.pp_ref[pp[2]] = 1 /\ n.pp_ref[pp[3]] = c2
       /\ j = 1 => n.pp_ref[pp[2]] = c1 /\ n.pp_ref[pp[3]] = 1
  BY <1>7 DEF Tabled, Three
<1>11. /\ j = 0 => Tabled(n, m, d, pp, 1, c2, <<>>, e, x1)
       /\ j = 1 => Tabled(n, m, d, pp, c1, 1, <<>>, x0, e)
  BY <1>6, <1>8, <1>9, <1>10 DEF Tabled
<1>12. QED
  BY <1>11 DEF n, e

(* The first mappings. *)
LEMMA CheckMapOK ==
  ASSUME NEW n, NEW m, NEW d, NEW pp, Three(pp, d),
         Bare(n, m, d, pp, 0, <<>>)
  PROVE  LET r == CheckMap(n, d, pp)
         IN  /\ r.asserts
             /\ Tabled(r.m, m, d, pp, 1, 1, <<>>,
                       [pp |-> pp[2], perm |-> "W"],
                       [pp |-> pp[3], perm |-> "W"])
<1> DEFINE noTable == page_insert(n, d, pp[2], 0, 0, "W")
           freed == page_free(noTable, pp[1])
           first == page_insert(freed, d, pp[2], 0, 0, "W")
           second == page_insert(first, d, pp[3], 0, 1, "W")
           e1 == [pp |-> pp[2], perm |-> "W"]
           e2 == [pp |-> pp[3], perm |-> "W"]
<1>1. /\ e1 \in Pte /\ e2 \in Pte /\ e1.pp = pp[2] /\ e2.pp = pp[3]
  BY DEF Pte, Three
<1>2. ~HasTable(n, d, 0) /\ ~CanAlloc(n)
  BY DEF Bare, HasTable, CanAlloc
<1>3. ~CanWalk(n, d, 0) /\ page_lookup(n, d, 0, 0) = NULL
  BY <1>2 DEF CanWalk, page_lookup
<1>4. noTable = n
  BY <1>3 DEF page_insert
<1> HIDE DEF noTable, e1, e2
<1>5. Bare(freed, m, d, pp, 0, <<pp[1]>>)
  BY <1>4, BareFreed
<1> HIDE DEF freed
<1> DEFINE w == pgdir_walk(freed, d, 0)
<1>6. CanWalk(freed, d, 0) /\ Tabled(w, m, d, pp, 0, 0, <<>>, NULL, NULL)
  BY <1>5, BareWalked
<1>7. Tabled(first, m, d, pp, 1, 0, <<>>, e1, NULL)
  <2>1. w.pp_ref[pp[2]] = 0 /\ 0 \in {0, 1} /\ 0 # 1
    BY <1>6 DEF Tabled
  <2>2. QED
    BY <1>6, <2>1, MappedNew DEF e1
<1> HIDE DEF first, w
<1>8. CanWalk(first, d, 0) /\ pgdir_walk(first, d, 0) = first
      /\ Table(first, d, 0) = pp[1]
  BY <1>7, TabledLeads
<1>9. Tabled(second, m, d, pp, 1, 1, <<>>, e1, e2)
  <2>1. first.pp_ref[pp[3]] = 0 /\ 1 \in {0, 1} /\ 0 # 1
    BY <1>7 DEF Tabled
  <2>2. QED
    BY <1>7, <1>8, <2>1, MappedNew DEF e2
<1> HIDE DEF second
<1>10. /\ VaToPa(first, d, 0) = pp[2]
       /\ first.pp_ref[pp[2]] = 1 /\ first.pp_ref[pp[1]] = 1
  BY <1>1, <1>7, TabledSees
<1>11. /\ VaToPa(second, d, 1) = pp[3] /\ second.pp_ref[pp[3]] = 1
       /\ ~CanAlloc(second)
  BY <1>1, <1>9, TabledSees
<1>12. CheckMap(n, d, pp).m = second
  BY DEF CheckMap, second, first, freed, noTable
<1>13. CheckMap(n, d, pp).asserts
  BY <1>3, <1>8, <1>10, <1>11, Zenon
     DEF CheckMap, second, first, freed, noTable
<1>14. QED
  BY <1>9, <1>12, <1>13 DEF e1, e2

(* The directory uses slot i only, and only pp0 may be counted. *)
OneSlot(n, m, d, pp, i) ==
  /\ Running(n) /\ OtherCounts(n, m, pp) /\ n.page_free_list = <<>>
  /\ n.pp_ref[pp[2]] = 0 /\ n.pp_ref[pp[3]] = 0
  /\ \A p \in Page : p # d /\ p # pp[1] => n.frame[p] = m.frame[p]
  /\ \A k \in Ptx : k # i => n.frame[d][k] = NULL

(* A directory's slot, and the count of a page, set to nothing. *)
Dropped(n, d, i, p) == [n EXCEPT !.frame[d][i] = NULL, !.pp_ref[p] = 0]

(* What is left as it was when a slot and a count are set to nothing. *)
LEMMA DroppedRuns ==
  ASSUME NEW n, Running(n), NEW d \in Page, NEW i \in Ptx, NEW p \in Page
  PROVE  LET c == Dropped(n, d, i, p)
         IN  /\ Running(c) /\ c.page_free_list = n.page_free_list
             /\ c.pp_ref = [n.pp_ref EXCEPT ![p] = 0]
             /\ c.frame = Written(n.frame, d, i, NULL)
<1> DEFINE s == set_pte(n, d, i, NULL)
           R == [n.pp_ref EXCEPT ![p] = 0]
           c == Dropped(n, d, i, p)
<1>1. NULL \in PteOrNull
  BY DEF PteOrNull
<1>2. /\ Running(s) /\ s.page_free_list = n.page_free_list
      /\ s.pp_ref = n.pp_ref /\ s.frame = Written(n.frame, d, i, NULL)
  BY <1>1, SetRuns
<1>3. R \in [Page -> 0 .. RefMod - 1]
  <2>1. n.pp_ref \in [Page -> 0 .. RefMod - 1] /\ 0 \in 0 .. RefMod - 1
    BY MemoryFields, BootConstants DEF Running
  <2>2. QED
    BY <2>1
<1>4. c = [s EXCEPT !.pp_ref = R]
  <2>1. c = [s EXCEPT !.pp_ref[p] = 0]
    BY Zenon DEF Dropped, set_pte
  <2> HIDE DEF s, c
  <2>2. QED
    BY <1>2, <2>1 DEF Running, BootMemory
<1> HIDE DEF s, R, c
<1>5. s \in BootMemory /\ s.panic = "none"
  BY <1>2 DEF Running
<1>6. /\ c \in BootMemory /\ c.page_free_list = s.page_free_list
      /\ c.pp_ref = R /\ c.frame = s.frame /\ c.panic = "none"
  BY <1>3, <1>4, <1>5 DEF BootMemory
<1>7. QED
  BY <1>2, <1>6 DEF Running, R, c

(* The only slot in use is cleared, and pp0 no longer counted. *)
LEMMA SlotDropped ==
  ASSUME NEW n, NEW m, NEW d, NEW pp, NEW i \in Ptx, Three(pp, d),
         OneSlot(n, m, d, pp, i)
  PROVE  /\ Bare(Dropped(n, d, i, pp[1]), m, d, pp, 0, <<>>)
         /\ Bare(TakeBack(n, d, i, pp[1]), m, d, pp, 0, <<pp[1]>>)
<1> DEFINE c == Dropped(n, d, i, pp[1])
<1>1. /\ Running(n) /\ pp[1] \in Page /\ d \in Page /\ d # pp[1]
      /\ n.page_free_list = <<>> /\ n.pp_ref \in [Page -> 0 .. RefMod - 1]
      /\ n.frame \in [Page -> [Ptx -> PteOrNull]]
  BY MemoryFields DEF OneSlot, Three, Running
<1>2. /\ Running(c) /\ c.page_free_list = n.page_free_list
      /\ c.pp_ref = [n.pp_ref EXCEPT ![pp[1]] = 0]
      /\ c.frame = Written(n.frame, d, i, NULL)
  BY <1>1, DroppedRuns
<1>3. TakeBack(n, d, i, pp[1]) = page_free(c, pp[1])
  BY Zenon DEF TakeBack, Dropped
<1> HIDE DEF c
<1>4. /\ c.pp_ref[pp[1]] = 0
      /\ \A q \in Page : q # pp[1] => c.pp_ref[q] = n.pp_ref[q]
  BY <1>1, <1>2
<1>5. /\ c.frame[d][i] = NULL
      /\ \A k \in Ptx : k # i => c.frame[d][k] = n.frame[d][k]
      /\ \A q \in Page : q # d => c.frame[q] = n.frame[q]
  <2> DEFINE W == c.frame
  <2>1. /\ W = Written(n.frame, d, i, NULL) /\ d \in Page
        /\ n.frame \in [Page -> [Ptx -> PteOrNull]] /\ NULL \in PteOrNull
    BY <1>1, <1>2 DEF PteOrNull
  <2> HIDE DEF W
  <2>2. /\ W[d][i] = NULL /\ \A k \in Ptx : k # i => W[d][k] = n.frame[d][k]
        /\ \A q \in Page : q # d => W[q] = n.frame[q]
    BY <2>1, WrittenFacts
  <2>3. QED
    BY <2>2 DEF W
<1>6. \A k \in Ptx : c.frame[d][k] = NULL
  BY <1>5 DEF OneSlot
<1>7. OtherFrames(c, m, d, pp) /\ c.frame[d][0] = NULL
  BY <1>5, <1>6, DistinctSlots DEF OneSlot, OtherFrames
<1>8. /\ OtherCounts(c, m, pp) /\ c.pp_ref[pp[2]] = 0 /\ c.pp_ref[pp[3]] = 0
  BY <1>4 DEF OneSlot, OtherCounts, Three
<1>9. Bare(c, m, d, pp, 0, <<>>)
  BY <1>1, <1>2, <1>4, <1>7, <1>8 DEF Bare
<1>10. Bare(page_free(c, pp[1]), m, d, pp, 0, <<pp[1]>>)
  BY <1>9, BareFreed
<1>11. QED
  BY <1>3, <1>9, <1>10 DEF c

(* A table without mappings is all that is left. *)
LEMMA TabledOneSlot ==
  ASSUME NEW n, NEW m, NEW d, NEW pp, NEW x0, NEW x1, Three(pp, d),
         Tabled(n, m, d, pp, 0, 0, <<>>, x0, x1)
  PROVE  OneSlot(n, m, d, pp, 0)
  BY DEF Tabled, TableHas, OtherFrames, OneSlot

(* pp0 made the table for slot 1, and filled with ones. *)
LEMMA WalkedSecond ==
  ASSUME NEW n, NEW m, NEW d, NEW pp, Three(pp, d),
         Bare(n, m, d, pp, 0, <<pp[1]>>)
  PROVE  LET w == pgdir_walk(n, d, 1)
         IN  /\ Table(w, d, 1) = pp[1]
             /\ OneSlot([w EXCEPT !.frame[pp[1]] = Junk], m, d, pp, 1)
<1> DEFINE w == pgdir_walk(n, d, 1)
           e == [pp |-> pp[1], perm |-> "UW"]
           Z == [n.frame EXCEPT ![pp[1]] = Zero]
           u == [w EXCEPT !.frame[pp[1]] = Junk]
           J == [w.frame EXCEPT ![pp[1]] = Junk]
<1>1. /\ Running(n) /\ pp[1] \in Page /\ d \in Page /\ d # pp[1]
      /\ n.pp_ref[pp[1]] = 0 /\ n.page_free_list = <<pp[1]>>
      /\ n.pp_ref \in [Page -> 0 .. RefMod - 1]
      /\ n.frame \in [Page -> [Ptx -> PteOrNull]]
  BY MemoryFields DEF Bare, Three, Running
<1>2. n.frame[d][1] = NULL
  BY DistinctSlots DEF Bare, OtherFrames
<1>3. Walked(w, n, d, 1, pp[1])
  BY <1>1, <1>2, DistinctSlots, WalkRuns
<1> HIDE DEF w
<1>4. /\ Running(w) /\ w.page_free_list = <<>>
      /\ w.pp_ref = [n.pp_ref EXCEPT ![pp[1]] = Succ(n.pp_ref[pp[1]])]
      /\ w.frame = Written(Z, d, 1, e)
  BY <1>3 DEF Walked
<1>5. \A q \in Page : q # pp[1] => w.pp_ref[q] = n.pp_ref[q]
  BY <1>1, <1>4
<1>6. /\ Z \in [Page -> [Ptx -> PteOrNull]]
      /\ \A q \in Page : q # pp[1] => Z[q] = n.frame[q]
  BY <1>1, EntryFacts
<1>7. e \in PteOrNull
  BY <1>1 DEF Pte, PteOrNull
<1> HIDE DEF Z, e
<1>8. /\ w.frame[d][1] = e
      /\ \A k \in Ptx : k # 1 => w.frame[d][k] = Z[d][k]
      /\ \A q \in Page : q # d => w.frame[q] = Z[q]
  <2> DEFINE W == w.frame
  <2>1. /\ W = Written(Z, d, 1, e) /\ 1 \in Ptx /\ d \in Page
        /\ Z \in [Page -> [Ptx -> PteOrNull]] /\ e \in PteOrNull
    BY <1>1, <1>4, <1>6, <1>7, DistinctSlots
  <2> HIDE DEF W
  <2>2. /\ W[d][1] = e /\ \A k \in Ptx : k # 1 => W[d][k] = Z[d][k]
        /\ \A q \in Page : q # d => W[q] = Z[q]
    BY <2>1, WrittenFacts
  <2>3. QED
    BY <2>2 DEF W
<1>9. Table(w, d, 1) = pp[1]
  BY <1>8 DEF Table, e
<1>10. Junk \in [Ptx -> PteOrNull]
  <2>1. 0 \in Page
    <3>1. Page = 0 .. Cardinality(Page) - 1 /\ pp[1] \in Page
      BY <1>1, BootMemAssumption
    <3>2. Cardinality(Page) \in Nat
      BY PageAssumption, FS_CardinalityType
    <3>3. QED
      BY <3>1, <3>2
  <2>2. [pp |-> 0, perm |-> "UW"] \in PteOrNull
    BY <2>1 DEF Pte, PteOrNull
  <2>3. QED
    BY <2>2 DEF Junk
<1>11. w.frame \in [Page -> [Ptx -> PteOrNull]] /\ w \in BootMemory
       /\ w.panic = "none"
  BY <1>4, MemoryFields DEF Running
<1>12. /\ J \in [Page -> [Ptx -> PteOrNull]]
       /\ \A q \in Page : q # pp[1] => J[q] = w.frame[q]
  BY <1>1, <1>10, <1>11
<1>13. u = [w EXCEPT !.frame = J]
  BY <1>11 DEF BootMemory
<1> HIDE DEF u, J
<1>14. /\ u \in BootMemory /\ u.page_free_list = w.page_free_list
       /\ u.pp_ref = w.pp_ref /\ u.frame = J /\ u.panic = "none"
  BY <1>11, <1>12, <1>13 DEF BootMemory
<1>15. /\ OtherCounts(u, m, pp) /\ u.pp_ref[pp[2]] = 0 /\ u.pp_ref[pp[3]] = 0
  BY <1>5, <1>14 DEF Bare, OtherCounts, Three
<1>16. \A q \in Page : q # d /\ q # pp[1] => u.frame[q] = m.frame[q]
  BY <1>6, <1>8, <1>12, <1>14 DEF Bare, OtherFrames
<1>17. \A k \in Ptx : k # 1 => u.frame[d][k] = NULL
  <2>1. u.frame[d] = w.frame[d] /\ Z[d] = n.frame[d]
    BY <1>1, <1>6, <1>12, <1>14
  <2>2. \A k \in Ptx : n.frame[d][k] = NULL
    BY DEF Bare, OtherFrames
  <2>3. QED
    BY <1>8, <2>1, <2>2
<1>18. OneSlot(u, m, d, pp, 1)
  BY <1>4, <1>14, <1>15, <1>16, <1>17 DEF OneSlot, Running
<1>19. QED
  BY <1>9, <1>18 DEF w, u

(* pp0 is a clean page table every time. *)
LEMMA CheckTableOK ==
  ASSUME NEW n, NEW m, NEW d, NEW pp, NEW x0, NEW x1, Three(pp, d),
         Tabled(n, m, d, pp, 0, 0, <<>>, x0, x1)
  PROVE  LET r == CheckTable(n, d, pp)
         IN  r.asserts /\ Bare(r.m, m, d, pp, 0, <<>>)
<1> DEFINE back == TakeBack(n, d, 0, pp[1])
           walked == pgdir_walk(back, d, 1)
           junk == [walked EXCEPT !.frame[pp[1]] = Junk]
           dirty == TakeBack(junk, d, 1, pp[1])
           cleared == pgdir_walk(dirty, d, 0)
           end == Dropped(cleared, d, 0, pp[1])
<1>1. OneSlot(n, m, d, pp, 0)
  BY TabledOneSlot
<1>2. Bare(back, m, d, pp, 0, <<pp[1]>>)
  BY <1>1, SlotDropped, DistinctSlots
<1> HIDE DEF back
<1>3. Table(walked, d, 1) = pp[1] /\ OneSlot(junk, m, d, pp, 1)
  BY <1>2, WalkedSecond
<1> HIDE DEF junk, walked
<1>4. Bare(dirty, m, d, pp, 0, <<pp[1]>>)
  BY <1>3, SlotDropped, DistinctSlots
<1> HIDE DEF dirty
<1>5. /\ cleared.frame[pp[1]] = Zero
      /\ Tabled(cleared, m, d, pp, 0, 0, <<>>, NULL, NULL)
  BY <1>4, BareWalked
<1> HIDE DEF cleared
<1>6. OneSlot(cleared, m, d, pp, 0)
  BY <1>5, TabledOneSlot
<1>7. Bare(end, m, d, pp, 0, <<>>)
  BY <1>6, SlotDropped, DistinctSlots
<1>8. Table(n, d, 0) = pp[1] /\ n.pp_ref[pp[1]] = 1
  BY TabledLeads DEF Tabled
<1>9. CheckTable(n, d, pp).m = end
  BY Zenon DEF CheckTable, Dropped, cleared, dirty, junk, walked, back
<1>10. CheckTable(n, d, pp).asserts
  BY <1>3, <1>5, <1>8, Zenon
     DEF CheckTable, cleared, dirty, junk, walked, back
<1>11. QED
  BY <1>7, <1>9, <1>10

------------------------------------------------------------------------------
(* A page put at the head of a list. *)
LEMMA PutFirst ==
  ASSUME NEW s \in Seq(Page), NEW p \in Page, p \notin Listed(s), Distinct(s)
  PROVE  /\ <<p>> \o s \in Seq(Page) /\ Len(<<p>> \o s) = Len(s) + 1
         /\ Listed(<<p>> \o s) = Listed(s) \cup {p} /\ Distinct(<<p>> \o s)
<1> DEFINE h == <<p>>
<1>1. h \in Seq(Page) /\ Len(h) = 1 /\ Listed(h) = {p} /\ Distinct(h)
  BY ListedOne
<1> HIDE DEF h
<1>2. /\ h \o s \in Seq(Page) /\ Len(h \o s) = Len(h) + Len(s)
      /\ Listed(h \o s) = Listed(h) \cup Listed(s)
      /\ Distinct(h) /\ Distinct(s) /\ Listed(h) \cap Listed(s) = {} =>
           Distinct(h \o s)
  BY <1>1, ListedConcat
<1>3. Len(s) \in Nat
  OBVIOUS
<1>4. QED
  BY <1>1, <1>2, <1>3 DEF h

(* Three pages at the head of list s. *)
ThreeOn(pp, s) == <<pp[3]>> \o (<<pp[2]>> \o (<<pp[1]>> \o s))

(* Three different pages, none of them on list s. *)
Loose(pp, s) ==
  /\ pp[1] \in Page /\ pp[2] \in Page /\ pp[3] \in Page
  /\ pp[1] # pp[2] /\ pp[1] # pp[3] /\ pp[2] # pp[3]
  /\ s \in Seq(Page) /\ Distinct(s)
  /\ pp[1] \notin Listed(s) /\ pp[2] \notin Listed(s) /\ pp[3] \notin Listed(s)

(* The list of three pages pushed on a list. *)
LEMMA ThreeOnFacts ==
  ASSUME NEW pp, NEW s, Loose(pp, s)
  PROVE  /\ <<pp[1]>> \o s \in Seq(Page)
         /\ pp[2] \notin Listed(<<pp[1]>> \o s)
         /\ <<pp[2]>> \o (<<pp[1]>> \o s) \in Seq(Page)
         /\ pp[3] \notin Listed(<<pp[2]>> \o (<<pp[1]>> \o s))
         /\ ThreeOn(pp, s) \in Seq(Page)
         /\ Len(ThreeOn(pp, s)) = Len(s) + 3
         /\ Listed(ThreeOn(pp, s)) = Listed(s) \cup {pp[1], pp[2], pp[3]}
         /\ Distinct(ThreeOn(pp, s))
<1> DEFINE a == <<pp[1]>> \o s
           b == <<pp[2]>> \o a
           c == <<pp[3]>> \o b
<1>1. /\ a \in Seq(Page) /\ Len(a) = Len(s) + 1 /\ Distinct(a)
      /\ Listed(a) = Listed(s) \cup {pp[1]}
  BY PutFirst DEF Loose
<1> HIDE DEF a
<1>2. pp[2] \in Page /\ pp[2] \notin Listed(a)
  BY <1>1 DEF Loose
<1>3. /\ b \in Seq(Page) /\ Len(b) = Len(a) + 1 /\ Distinct(b)
      /\ Listed(b) = Listed(a) \cup {pp[2]}
  BY <1>1, <1>2, PutFirst
<1> HIDE DEF b
<1>4. pp[3] \in Page /\ pp[3] \notin Listed(b)
  BY <1>1, <1>3 DEF Loose
<1>5. /\ c \in Seq(Page) /\ Len(c) = Len(b) + 1 /\ Distinct(c)
      /\ Listed(c) = Listed(b) \cup {pp[3]}
  BY <1>3, <1>4, PutFirst
<1> HIDE DEF c
<1>6. Len(s) \in Nat
  BY DEF Loose
<1>7. ThreeOn(pp, s) = c
  BY DEF ThreeOn, a, b, c
<1>8. Len(c) = Len(s) + 3
  BY <1>1, <1>3, <1>5, <1>6
<1>9. Listed(c) = Listed(s) \cup {pp[1], pp[2], pp[3]}
  BY <1>1, <1>3, <1>5
<1>10. QED
  BY <1>1, <1>2, <1>3, <1>4, <1>5, <1>7, <1>8, <1>9 DEF a, b

(* The list put back, and pp0, pp1 and pp2 freed. *)
LEMMA GivenBackRuns ==
  ASSUME NEW n, Running(n), NEW t, Loose(t.pp, t.fl),
         n.pp_ref[t.pp[1]] = 0, n.pp_ref[t.pp[2]] = 0, n.pp_ref[t.pp[3]] = 0
  PROVE  LET g == GivenBack(n, t)
         IN  /\ Running(g) /\ g.page_free_list = ThreeOn(t.pp, t.fl)
             /\ g.pp_ref = n.pp_ref /\ g.frame = n.frame
<1> DEFINE a == [n EXCEPT !.page_free_list = t.fl]
           b == page_free(a, t.pp[1])
           c == page_free(b, t.pp[2])
           e == page_free(c, t.pp[3])
<1>1. /\ Running(a) /\ a.page_free_list = t.fl
      /\ a.pp_ref = n.pp_ref /\ a.frame = n.frame
  BY DEF Running, BootMemory, Loose
<1>2. GivenBack(n, t) = e
  BY DEF GivenBack
<1> HIDE DEF a
<1>3. /\ Running(b) /\ b.page_free_list = <<t.pp[1]>> \o t.fl
      /\ b.pp_ref = n.pp_ref /\ b.frame = n.frame
  <2>1. /\ t.pp[1] \in Page /\ a.pp_ref[t.pp[1]] = 0
        /\ t.pp[1] \notin Listed(a.page_free_list)
    BY <1>1 DEF Loose
  <2>2. /\ Running(b) /\ b.page_free_list = <<t.pp[1]>> \o a.page_free_list
        /\ b.pp_ref = a.pp_ref /\ b.frame = a.frame
    BY <1>1, <2>1, FreeRuns
  <2>3. QED
    BY <1>1, <2>2
<1> HIDE DEF b
<1>4. /\ Running(c)
      /\ c.page_free_list = <<t.pp[2]>> \o (<<t.pp[1]>> \o t.fl)
      /\ c.pp_ref = n.pp_ref /\ c.frame = n.frame
  <2>1. /\ t.pp[2] \in Page /\ b.pp_ref[t.pp[2]] = 0
        /\ t.pp[2] \notin Listed(b.page_free_list)
    BY <1>3, ThreeOnFacts DEF Loose
  <2>2. /\ Running(c) /\ c.page_free_list = <<t.pp[2]>> \o b.page_free_list
        /\ c.pp_ref = b.pp_ref /\ c.frame = b.frame
    BY <1>3, <2>1, FreeRuns
  <2>3. QED
    BY <1>3, <2>2
<1> HIDE DEF c
<1>5. /\ Running(e) /\ e.page_free_list = ThreeOn(t.pp, t.fl)
      /\ e.pp_ref = n.pp_ref /\ e.frame = n.frame
  <2>1. /\ t.pp[3] \in Page /\ c.pp_ref[t.pp[3]] = 0
        /\ t.pp[3] \notin Listed(c.page_free_list)
    BY <1>4, ThreeOnFacts DEF Loose
  <2>2. /\ Running(e) /\ e.page_free_list = <<t.pp[3]>> \o c.page_free_list
        /\ e.pp_ref = c.pp_ref /\ e.frame = c.frame
    BY <1>4, <2>1, FreeRuns
  <2>3. QED
    BY <1>4, <2>2 DEF ThreeOn
<1> HIDE DEF e
<1>6. QED
  BY <1>2, <1>5

(* Pages for a test: at least three, no page twice, none of them in use. *)
Testable(m) ==
  /\ Running(m) /\ Len(m.page_free_list) >= 3 /\ Distinct(m.page_free_list)
  /\ \A p \in Listed(m.page_free_list) : m.pp_ref[p] = 0

(* The three pages a test takes. *)
LEMMA TakenFacts ==
  ASSUME NEW m, Testable(m)
  PROVE  LET t == Taken(m)
             L == m.page_free_list
         IN  /\ t.pp = SubSeq(L, 1, 3) /\ t.fl = SubSeq(L, 4, Len(L))
             /\ Len(t.pp) = 3 /\ Loose(t.pp, t.fl)
             /\ t.pp[1] = L[1] /\ t.pp[2] = L[2] /\ t.pp[3] = L[3]
             /\ Listed(L) = Listed(t.fl) \cup {L[1], L[2], L[3]}
             /\ Len(L) = Len(t.fl) + 3
             /\ \A k \in 4 .. Len(L) : t.fl[k - 3] = L[k]
             /\ Running(t.m) /\ t.m.page_free_list = <<>>
             /\ t.m.pp_ref = m.pp_ref /\ t.m.frame = m.frame
<1> DEFINE t == Taken(m)
           L == m.page_free_list
           s == SubSeq(L, 1, 3)
           u == SubSeq(L, 4, Len(L))
           n == [m EXCEPT !.page_free_list = <<>>]
<1>1. /\ L \in Seq(Page) /\ Len(L) \in Nat /\ Len(L) >= 3 /\ Distinct(L)
      /\ m \in BootMemory /\ m.panic = "none"
  <2>1. m \in BootMemory /\ m.panic = "none"
    BY DEF Testable, Running
  <2>2. L \in Seq(Page)
    BY <2>1, MemoryFields
  <2>3. QED
    BY <2>1, <2>2 DEF Testable
<1>2. /\ Running(n) /\ n.page_free_list = <<>>
      /\ n.pp_ref = m.pp_ref /\ n.frame = m.frame
  <2>1. <<>> \in Seq(Page)
    OBVIOUS
  <2>2. QED
    BY <1>1, <2>1 DEF Running, BootMemory
<1>3. t.pp = s /\ t.fl = u /\ t.m = n
  BY DEF Taken
<1> HIDE DEF t, L, n
<1>4. Len(s) = 3 /\ s[1] = L[1] /\ s[2] = L[2] /\ s[3] = L[3]
  <2>1. 1 \in 1 .. Len(L) + 1 /\ 3 \in 1 - 1 .. Len(L)
    BY <1>1
  <2>2. /\ Len(s) = IF 1 <= 3 THEN 3 - 1 + 1 ELSE 0
        /\ \A k \in 1 .. 3 - 1 + 1 : s[k] = L[1 + k - 1]
    BY <1>1, <2>1, SubSeqProperties
  <2> HIDE DEF s
  <2>3. QED
    BY <2>2
<1>5. /\ u \in Seq(Page) /\ Len(u) = Len(L) - 3
      /\ \A k \in 1 .. Len(L) - 3 : u[k] = L[k + 3]
  <2>1. 4 \in 1 .. Len(L) + 1 /\ Len(L) \in 4 - 1 .. Len(L)
    BY <1>1
  <2>2. /\ u \in Seq(Page)
        /\ Len(u) = IF 4 <= Len(L) THEN Len(L) - 4 + 1 ELSE 0
        /\ \A k \in 1 .. Len(L) - 4 + 1 : u[k] = L[4 + k - 1]
    BY <1>1, <2>1, SubSeqProperties
  <2> HIDE DEF u
  <2>3. Len(u) = Len(L) - 3
    <3>1. CASE 4 <= Len(L)
      BY <1>1, <2>2, <3>1
    <3>2. CASE ~(4 <= Len(L))
      <4>1. Len(L) = 3
        <5> DEFINE n3 == Len(L)
        <5>1. n3 \in Nat /\ n3 >= 3 /\ ~(4 <= n3)
          BY <1>1, <3>2
        <5> HIDE DEF n3
        <5>2. n3 = 3
          BY <5>1
        <5>3. QED
          BY <5>2 DEF n3
      <4>2. Len(u) = 0
        BY <2>2, <3>2
      <4>3. QED
        BY <4>1, <4>2
    <3>3. QED
      BY <3>1, <3>2
  <2>4. ASSUME NEW k \in 1 .. Len(L) - 3 PROVE u[k] = L[k + 3]
    <3>1. k \in 1 .. Len(L) - 4 + 1 /\ 4 + k - 1 = k + 3
      BY <1>1, <2>4
    <3>2. QED
      BY <2>2, <3>1
  <2>5. QED
    BY <2>2, <2>3, <2>4
<1> HIDE DEF s, u
<1>6. /\ L[1] \in Page /\ L[2] \in Page /\ L[3] \in Page
      /\ L[1] # L[2] /\ L[1] # L[3] /\ L[2] # L[3]
  <2>1. 1 \in 1 .. Len(L) /\ 2 \in 1 .. Len(L) /\ 3 \in 1 .. Len(L)
    BY <1>1
  <2>2. QED
    BY <1>1, <2>1, ElementOfSeq DEF Distinct
<1>7. ASSUME NEW x \in Listed(u)
      PROVE  \E i \in 4 .. Len(L) : x = L[i]
  <2>1. PICK k \in 1 .. Len(u) : x = u[k]
    BY DEF Listed
  <2>2. k \in 1 .. Len(L) - 3 /\ k + 3 \in 4 .. Len(L)
    BY <1>1, <1>5
  <2>3. QED
    BY <1>5, <2>1, <2>2
<1>8. L[1] \notin Listed(u) /\ L[2] \notin Listed(u) /\ L[3] \notin Listed(u)
  <2>1. ASSUME NEW j \in 1 .. 3, L[j] \in Listed(u) PROVE FALSE
    <3>1. PICK i \in 4 .. Len(L) : L[j] = L[i]
      BY <1>7, <2>1
    <3>2. i \in 1 .. Len(L) /\ j \in 1 .. Len(L) /\ i # j
      BY <1>1
    <3>3. QED
      BY <1>1, <3>1, <3>2 DEF Distinct
  <2>2. 1 \in 1 .. 3 /\ 2 \in 1 .. 3 /\ 3 \in 1 .. 3
    OBVIOUS
  <2>3. QED
    BY <2>1, <2>2
<1>9. Distinct(u)
  <2>1. SUFFICES ASSUME NEW i \in 1 .. Len(u), NEW j \in 1 .. Len(u),
                        u[i] = u[j]
                 PROVE  i = j
    BY DEF Distinct
  <2>2. /\ i \in 1 .. Len(L) - 3 /\ j \in 1 .. Len(L) - 3
        /\ i + 3 \in 1 .. Len(L) /\ j + 3 \in 1 .. Len(L)
    BY <1>1, <1>5
  <2>3. L[i + 3] = L[j + 3]
    BY <1>5, <2>1, <2>2
  <2>4. i + 3 = j + 3
    BY <1>1, <2>2, <2>3 DEF Distinct
  <2>5. QED
    BY <2>2, <2>4
<1>10. \A k \in 4 .. Len(L) : u[k - 3] = L[k]
  <2>1. SUFFICES ASSUME NEW k \in 4 .. Len(L) PROVE u[k - 3] = L[k]
    OBVIOUS
  <2>2. k - 3 \in 1 .. Len(L) - 3 /\ (k - 3) + 3 = k
    BY <1>1
  <2>3. QED
    BY <1>5, <2>2
<1>11. Listed(L) = Listed(u) \cup {L[1], L[2], L[3]}
  <2>1. ASSUME NEW x \in Listed(L) PROVE x \in Listed(u) \cup {L[1], L[2], L[3]}
    <3>1. PICK k \in 1 .. Len(L) : x = L[k]
      BY DEF Listed
    <3>2. CASE k \in 1 .. 3
      BY <3>1, <3>2
    <3>3. CASE k \in 4 .. Len(L)
      <4>1. k - 3 \in 1 .. Len(u)
        BY <1>1, <1>5, <3>3
      <4>2. QED
        BY <1>10, <3>1, <3>3, <4>1 DEF Listed
    <3>4. QED
      BY <1>1, <3>2, <3>3
  <2>2. Listed(u) \subseteq Listed(L)
    <3>1. ASSUME NEW x \in Listed(u) PROVE x \in Listed(L)
      <4>1. PICK i \in 4 .. Len(L) : x = L[i]
        BY <1>7
      <4>2. i \in 1 .. Len(L)
        BY <1>1
      <4>3. QED
        BY <4>1, <4>2 DEF Listed
    <3>2. QED
      BY <3>1
  <2>3. {L[1], L[2], L[3]} \subseteq Listed(L)
    <3>1. 1 \in 1 .. Len(L) /\ 2 \in 1 .. Len(L) /\ 3 \in 1 .. Len(L)
      BY <1>1
    <3>2. QED
      BY <3>1 DEF Listed
  <2>4. QED
    BY <2>1, <2>2, <2>3
<1>12. Loose(s, u)
  BY <1>4, <1>5, <1>6, <1>8, <1>9 DEF Loose
<1>13. Len(L) = Len(u) + 3
  BY <1>1, <1>5
<1>14. QED
  BY <1>2, <1>3, <1>4, <1>10, <1>11, <1>12, <1>13 DEF t, L, s, u

(* Everything check_page asserts holds, and it leaves no trace. *)
LEMMA CheckPageOK ==
  ASSUME NEW m, Testable(m), NEW d \in Page,
         d \notin Listed(m.page_free_list), \A k \in Ptx : m.frame[d][k] = NULL
  PROVE  LET r == check_page(m, d)
         IN  /\ r.asserts /\ r.touched = {m.page_free_list[1], d}
             /\ Running(r.m) /\ r.m.pp_ref = m.pp_ref
             /\ Listed(r.m.page_free_list) = Listed(m.page_free_list)
             /\ Len(r.m.page_free_list) = Len(m.page_free_list)
             /\ \A k \in Ptx : r.m.frame[d][k] = NULL
<1> DEFINE L == m.page_free_list
           t == Taken(m)
           pp == t.pp
           mapped == CheckMap(t.m, d, pp)
           again == CheckAgain(mapped.m, d, pp)
           replaced == CheckReplace(again.m, d, pp)
           table == CheckTable(replaced.m, d, pp)
           end == GivenBack(table.m, t)
           e1 == [pp |-> pp[2], perm |-> "W"]
           e2 == [pp |-> pp[3], perm |-> "W"]
<1>1. /\ Len(pp) = 3 /\ Loose(pp, t.fl)
      /\ pp[1] = L[1] /\ pp[2] = L[2] /\ pp[3] = L[3]
      /\ Listed(L) = Listed(t.fl) \cup {L[1], L[2], L[3]}
      /\ Len(L) = Len(t.fl) + 3
      /\ Running(t.m) /\ t.m.page_free_list = <<>>
      /\ t.m.pp_ref = m.pp_ref /\ t.m.frame = m.frame
  BY TakenFacts
<1>2. /\ Running(m) /\ m.pp_ref \in [Page -> 0 .. RefMod - 1]
      /\ \A p \in Listed(L) : m.pp_ref[p] = 0
  BY MemoryFields DEF Testable, Running
<1>3. check_page(m, d).m = end /\ check_page(m, d).touched = {pp[1], d}
  BY Zenon DEF check_page
<1>4. ASSUME Len(pp) = 3, mapped.asserts, again.asserts, replaced.asserts,
             table.asserts, end.panic = "none"
      PROVE  check_page(m, d).asserts
  BY <1>4, Zenon DEF check_page
<1> HIDE DEF L, t, pp, mapped, again, replaced, table, end
<1>5. Three(pp, d)
  BY <1>1 DEF Loose, Three, L
<1>6. m.pp_ref[pp[1]] = 0 /\ m.pp_ref[pp[2]] = 0 /\ m.pp_ref[pp[3]] = 0
  BY <1>1, <1>2
<1>7. Bare(t.m, m, d, pp, 0, <<>>)
  BY <1>1, <1>6, DistinctSlots DEF Bare, OtherCounts, OtherFrames
<1>8. mapped.asserts /\ Tabled(mapped.m, m, d, pp, 1, 1, <<>>, e1, e2)
  BY <1>5, <1>7, CheckMapOK DEF mapped
<1>9. e1 \in Pte /\ e1.pp = pp[2] /\ e2 \in Pte /\ e2.pp = pp[3]
  BY <1>5 DEF Pte, Three
<1>10. again.asserts /\ Tabled(again.m, m, d, pp, 1, 1, <<>>, e1, e2)
  <2> HIDE DEF e1
  <2>1. QED
    BY <1>5, <1>8, <1>9, CheckAgainOK DEF again
<1> HIDE DEF e1, e2
<1>11. replaced.asserts
       /\ Tabled(replaced.m, m, d, pp, 0, 0, <<>>, NULL, NULL)
  BY <1>5, <1>9, <1>10, CheckReplaceOK DEF replaced
<1>12. table.asserts /\ Bare(table.m, m, d, pp, 0, <<>>)
  BY <1>5, <1>11, CheckTableOK DEF table
<1>13. /\ Running(table.m) /\ table.m.pp_ref[pp[1]] = 0
       /\ table.m.pp_ref[pp[2]] = 0 /\ table.m.pp_ref[pp[3]] = 0
  BY <1>12 DEF Bare
<1>14. /\ Running(end) /\ end.page_free_list = ThreeOn(pp, t.fl)
       /\ end.pp_ref = table.m.pp_ref /\ end.frame = table.m.frame
  <2>1. Loose(t.pp, t.fl) /\ table.m.pp_ref[t.pp[1]] = 0
        /\ table.m.pp_ref[t.pp[2]] = 0 /\ table.m.pp_ref[t.pp[3]] = 0
    BY <1>1, <1>13 DEF pp
  <2>2. QED
    BY <1>13, <2>1, GivenBackRuns DEF end, pp
<1>15. /\ Listed(end.page_free_list) = Listed(L)
       /\ Len(end.page_free_list) = Len(L)
  <2>1. /\ Len(ThreeOn(pp, t.fl)) = Len(t.fl) + 3
        /\ Listed(ThreeOn(pp, t.fl))
             = Listed(t.fl) \cup {pp[1], pp[2], pp[3]}
    BY <1>1, ThreeOnFacts
  <2>2. QED
    BY <1>1, <1>14, <2>1
<1>16. end.pp_ref = m.pp_ref
  <2>1. end.pp_ref \in [Page -> 0 .. RefMod - 1]
    BY <1>14, MemoryFields DEF Running
  <2>2. \A p \in Page : end.pp_ref[p] = m.pp_ref[p]
    BY <1>6, <1>12, <1>13, <1>14 DEF Bare, OtherCounts
  <2>3. QED
    BY <1>2, <2>1, <2>2
<1>17. \A k \in Ptx : end.frame[d][k] = NULL
  BY <1>12, <1>14 DEF Bare, OtherFrames
<1>18. check_page(m, d).asserts
  <2>1. end.panic = "none"
    BY <1>14 DEF Running
  <2>2. QED
    BY <1>1, <1>4, <1>8, <1>10, <1>11, <1>12, <2>1
<1>19. QED
  BY <1>1, <1>3, <1>14, <1>15, <1>16, <1>17, <1>18 DEF L

(* The elements of a list with a page put at its head. *)
LEMMA FirstAndRest ==
  ASSUME NEW s \in Seq(Page), NEW p \in Page
  PROVE  LET r == <<p>> \o s
         IN  /\ r \in Seq(Page) /\ Len(r) = Len(s) + 1 /\ r[1] = p
             /\ \A k \in 1 .. Len(s) : r[k + 1] = s[k]
<1> DEFINE h == <<p>>
           r == h \o s
<1>1. h \in Seq(Page) /\ Len(h) = 1 /\ h[1] = p
  BY ListedOne
<1> HIDE DEF h
<1>2. /\ r \in Seq(Page) /\ Len(r) = Len(h) + Len(s)
      /\ Len(s) \in Nat
      /\ \A i \in 1 .. Len(h) + Len(s) :
           r[i] = IF i <= Len(h) THEN h[i] ELSE s[i - Len(h)]
  <2>1. Len(s) \in Nat /\ h \in Seq(Page)
    BY <1>1
  <2>2. /\ r \in Seq(Page) /\ Len(r) = Len(h) + Len(s)
        /\ \A i \in 1 .. Len(h) + Len(s) :
             r[i] = IF i <= Len(h) THEN h[i] ELSE s[i - Len(h)]
    BY <2>1, ConcatProperties
  <2>3. QED
    BY <2>1, <2>2
<1> HIDE DEF r
<1>3. r[1] = p
  <2>1. 1 \in 1 .. Len(h) + Len(s) /\ 1 <= Len(h)
    BY <1>1, <1>2
  <2>2. QED
    BY <1>1, <1>2, <2>1
<1>4. ASSUME NEW k \in 1 .. Len(s) PROVE r[k + 1] = s[k]
  <2>1. /\ k + 1 \in 1 .. Len(h) + Len(s) /\ ~(k + 1 <= Len(h))
        /\ (k + 1) - Len(h) = k
    BY <1>1, <1>2
  <2>2. QED
    BY <1>2, <2>1
<1>5. Len(r) = Len(s) + 1
  BY <1>1, <1>2
<1>6. QED
  BY <1>2, <1>3, <1>4, <1>5 DEF r, h

(* Three pages that a test puts on an empty list are in the other order. *)
LEMMA Turned ==
  ASSUME NEW pp, Loose(pp, <<>>)
  PROVE  LET q == ThreeOn(pp, <<>>)
         IN  Len(q) = 3 /\ q[1] = pp[3] /\ q[2] = pp[2] /\ q[3] = pp[1]
<1> DEFINE z == <<>>
           a == <<pp[1]>> \o z
           b == <<pp[2]>> \o a
           c == <<pp[3]>> \o b
<1>1. /\ pp[1] \in Page /\ pp[2] \in Page /\ pp[3] \in Page
      /\ z \in Seq(Page) /\ Len(z) = 0
  BY DEF Loose
<1> HIDE DEF z
<1>2. a \in Seq(Page) /\ Len(a) = Len(z) + 1 /\ a[1] = pp[1]
  BY <1>1, FirstAndRest
<1> HIDE DEF a
<1>3. /\ b \in Seq(Page) /\ Len(b) = Len(a) + 1 /\ b[1] = pp[2]
      /\ \A k \in 1 .. Len(a) : b[k + 1] = a[k]
  BY <1>1, <1>2, FirstAndRest
<1> HIDE DEF b
<1>4. /\ Len(c) = Len(b) + 1 /\ c[1] = pp[3]
      /\ \A k \in 1 .. Len(b) : c[k + 1] = b[k]
  BY <1>1, <1>3, FirstAndRest
<1> HIDE DEF c
<1>5. Len(a) = 1 /\ Len(b) = 2 /\ Len(c) = 3
  BY <1>1, <1>2, <1>3, <1>4
<1>6. b[1 + 1] = a[1] /\ c[1 + 1] = b[1] /\ c[2 + 1] = b[2]
  <2>1. 1 \in 1 .. Len(a) /\ 1 \in 1 .. Len(b) /\ 2 \in 1 .. Len(b)
    BY <1>5
  <2>2. QED
    BY <1>3, <1>4, <2>1
<1>7. c[2] = pp[2] /\ c[3] = pp[1]
  <2>1. 1 + 1 = 2 /\ 2 + 1 = 3
    OBVIOUS
  <2>2. QED
    BY <1>2, <1>3, <1>6, <2>1
<1>8. ThreeOn(pp, <<>>) = c
  BY DEF ThreeOn, z, a, b, c
<1>9. QED
  BY <1>4, <1>5, <1>7, <1>8

(* The last page put on a list is its first. *)
LEMMA ThreeOnHead ==
  ASSUME NEW pp, NEW s, Loose(pp, s)
  PROVE  ThreeOn(pp, s)[1] = pp[3]
<1> DEFINE b == <<pp[2]>> \o (<<pp[1]>> \o s)
<1>1. b \in Seq(Page) /\ pp[3] \in Page
  BY ThreeOnFacts DEF Loose
<1>2. ThreeOn(pp, s) = <<pp[3]>> \o b
  BY DEF ThreeOn
<1> HIDE DEF b
<1>3. QED
  BY <1>1, <1>2, FirstAndRest

(* A page filled with something while the list is put aside. *)
Filled(n, p) == [n EXCEPT !.page_free_list = <<>>, !.frame[p] = Junk]

(* Filling a page keeps the memory one that runs. *)
LEMMA FilledRuns ==
  ASSUME NEW n, Running(n), NEW p \in Page
  PROVE  LET u == Filled(n, p)
         IN  /\ Running(u) /\ u.page_free_list = <<>>
             /\ u.pp_ref = n.pp_ref
             /\ u.frame = [n.frame EXCEPT ![p] = Junk]
<1> DEFINE u == Filled(n, p)
           J == [n.frame EXCEPT ![p] = Junk]
<1>1. n \in BootMemory /\ n.panic = "none" /\ <<>> \in Seq(Page)
  BY DEF Running
<1>2. Junk \in [Ptx -> PteOrNull]
  <2>1. 0 \in Page
    <3>1. Page = 0 .. Cardinality(Page) - 1 /\ p \in Page
      BY BootMemAssumption
    <3>2. Cardinality(Page) \in Nat
      BY PageAssumption, FS_CardinalityType
    <3>3. QED
      BY <3>1, <3>2
  <2>2. [pp |-> 0, perm |-> "UW"] \in PteOrNull
    BY <2>1 DEF Pte, PteOrNull
  <2>3. QED
    BY <2>2 DEF Junk
<1>3. J \in [Page -> [Ptx -> PteOrNull]]
  BY <1>1, <1>2, MemoryFields
<1>4. u = [n EXCEPT !.page_free_list = <<>>, !.frame = J]
  BY <1>1 DEF BootMemory, Filled
<1> HIDE DEF u, J
<1>5. /\ u \in BootMemory /\ u.page_free_list = <<>> /\ u.pp_ref = n.pp_ref
      /\ u.frame = J /\ u.panic = "none"
  BY <1>1, <1>3, <1>4 DEF BootMemory
<1>6. QED
  BY <1>5 DEF Running, u, J

(* Everything check_page_alloc asserts holds; the list is what it was, and *)
(* only a free page was written.                                           *)
LEMMA CheckAllocOK ==
  ASSUME NEW m, Testable(m)
  PROVE  LET r == check_page_alloc(m)
         IN  /\ r.asserts /\ r.touched = {m.page_free_list[3]}
             /\ Testable(r.m) /\ r.m.pp_ref = m.pp_ref
             /\ Listed(r.m.page_free_list) = Listed(m.page_free_list)
             /\ Len(r.m.page_free_list) = Len(m.page_free_list)
             /\ r.m.page_free_list[1] = m.page_free_list[1]
             /\ \A p \in Page \ Listed(m.page_free_list) :
                  r.m.frame[p] = m.frame[p]
<1> DEFINE L == m.page_free_list
           t == Taken(m)
           t0 == [t EXCEPT !.fl = <<>>]
           freed == GivenBack(t.m, t0)
           q == freed.page_free_list
           ones == Filled(freed, q[1])
           filled == page_free(ones, q[1])
           zeroed == page_alloc(filled, TRUE)
           tq == [t EXCEPT !.pp = q]
           end == GivenBack(zeroed, tq)
<1>1. /\ Len(t.pp) = 3 /\ Loose(t.pp, t.fl)
      /\ t.pp[1] = L[1] /\ t.pp[2] = L[2] /\ t.pp[3] = L[3]
      /\ Listed(L) = Listed(t.fl) \cup {L[1], L[2], L[3]}
      /\ Len(L) = Len(t.fl) + 3
      /\ Running(t.m) /\ t.m.page_free_list = <<>>
      /\ t.m.pp_ref = m.pp_ref /\ t.m.frame = m.frame
  BY TakenFacts
<1>2. /\ Running(m) /\ m.pp_ref \in [Page -> 0 .. RefMod - 1]
      /\ \A p \in Listed(L) : m.pp_ref[p] = 0
      /\ m.frame \in [Page -> [Ptx -> PteOrNull]]
  BY MemoryFields DEF Testable, Running
<1>3. t0.pp = t.pp /\ t0.fl = <<>> /\ tq.pp = q /\ tq.fl = t.fl
  BY DEF Taken
<1>4. check_page_alloc(m).m = end /\ check_page_alloc(m).touched = {q[1]}
  BY Zenon DEF check_page_alloc, Filled
<1>5. ASSUME Len(t.pp) = 3,
             \A i, k \in 1 .. 3 : i # k => t.pp[i] # t.pp[k] /\ q[i] # q[k],
             Len(q) = 3, Allocated(filled) = q[1],
             zeroed.frame[q[1]] = Zero, ~CanAlloc(zeroed),
             end.panic = "none", Len(end.page_free_list) = Len(L)
      PROVE  check_page_alloc(m).asserts
  BY <1>5, Zenon DEF check_page_alloc, Filled
<1> HIDE DEF L, t, t0, freed, q, ones, filled, zeroed, tq, end
<1>6. Loose(t0.pp, t0.fl) /\ Loose(t.pp, <<>>)
  BY <1>1, <1>3 DEF Loose, Listed, Distinct
<1>7. /\ Running(freed) /\ freed.page_free_list = ThreeOn(t0.pp, t0.fl)
      /\ freed.pp_ref = m.pp_ref /\ freed.frame = m.frame
  <2>1. /\ t.m.pp_ref[t0.pp[1]] = 0 /\ t.m.pp_ref[t0.pp[2]] = 0
        /\ t.m.pp_ref[t0.pp[3]] = 0 /\ Running(t.m)
    BY <1>1, <1>2, <1>3
  <2>2. /\ Running(freed) /\ freed.page_free_list = ThreeOn(t0.pp, t0.fl)
        /\ freed.pp_ref = t.m.pp_ref /\ freed.frame = t.m.frame
    BY <1>6, <2>1, GivenBackRuns DEF freed
  <2>3. QED
    BY <1>1, <2>2
<1>8. Len(q) = 3 /\ q[1] = L[3] /\ q[2] = L[2] /\ q[3] = L[1]
  <2>1. q = ThreeOn(t.pp, <<>>)
    BY <1>3, <1>7 DEF q
  <2>2. QED
    BY <1>1, <1>6, <2>1, Turned
<1>9. Loose(q, t.fl) /\ q[1] \in Page
  BY <1>1, <1>8 DEF Loose
<1>10. /\ Running(ones) /\ ones.page_free_list = <<>>
       /\ ones.pp_ref = m.pp_ref
       /\ ones.frame = [m.frame EXCEPT ![q[1]] = Junk]
  <2>1. /\ Running(ones) /\ ones.page_free_list = <<>>
        /\ ones.pp_ref = freed.pp_ref
        /\ ones.frame = [freed.frame EXCEPT ![q[1]] = Junk]
    BY <1>7, <1>9, FilledRuns DEF ones
  <2>2. QED
    BY <1>7, <2>1
<1>11. m.pp_ref[q[1]] = 0 /\ m.pp_ref[q[2]] = 0 /\ m.pp_ref[q[3]] = 0
  BY <1>1, <1>2, <1>8
<1>12. /\ Running(filled) /\ filled.page_free_list = <<q[1]>>
       /\ filled.pp_ref = m.pp_ref /\ filled.frame = ones.frame
  <2>1. ones.pp_ref[q[1]] = 0 /\ q[1] \notin Listed(ones.page_free_list)
    BY <1>10, <1>11 DEF Listed
  <2>2. /\ Running(filled)
        /\ filled.page_free_list = <<q[1]>> \o ones.page_free_list
        /\ filled.pp_ref = ones.pp_ref /\ filled.frame = ones.frame
    BY <1>9, <1>10, <2>1, FreeRuns DEF filled
  <2>3. <<q[1]>> \o <<>> = <<q[1]>>
    OBVIOUS
  <2>4. QED
    BY <1>10, <2>2, <2>3
<1>13. /\ Allocated(filled) = q[1]
       /\ Running(zeroed) /\ zeroed.page_free_list = <<>>
       /\ zeroed.pp_ref = m.pp_ref
       /\ zeroed.frame = [ones.frame EXCEPT ![q[1]] = Zero]
  <2>1. /\ Allocated(filled) = q[1]
        /\ Running(zeroed) /\ zeroed.page_free_list = <<>>
        /\ zeroed.pp_ref = filled.pp_ref
        /\ zeroed.frame = [filled.frame EXCEPT ![q[1]] = Zero]
    BY <1>9, <1>12, AllocRuns DEF zeroed
  <2>2. QED
    BY <1>12, <2>1
<1>14. /\ zeroed.frame[q[1]] = Zero /\ ~CanAlloc(zeroed)
       /\ \A p \in Page : p # q[1] => zeroed.frame[p] = m.frame[p]
  <2>1. ones.frame \in [Page -> [Ptx -> PteOrNull]]
    BY <1>10, MemoryFields DEF Running
  <2>2. \A p \in Page : p # q[1] => ones.frame[p] = m.frame[p]
    BY <1>2, <1>9, <1>10
  <2>3. QED
    BY <1>9, <1>13, <2>1, <2>2 DEF CanAlloc
<1>15. /\ Running(end) /\ end.page_free_list = ThreeOn(q, t.fl)
       /\ end.pp_ref = m.pp_ref /\ end.frame = zeroed.frame
  <2>1. /\ Loose(tq.pp, tq.fl) /\ zeroed.pp_ref[tq.pp[1]] = 0
        /\ zeroed.pp_ref[tq.pp[2]] = 0 /\ zeroed.pp_ref[tq.pp[3]] = 0
    BY <1>3, <1>9, <1>11, <1>13
  <2>2. /\ Running(end) /\ end.page_free_list = ThreeOn(tq.pp, tq.fl)
        /\ end.pp_ref = zeroed.pp_ref /\ end.frame = zeroed.frame
    BY <1>13, <2>1, GivenBackRuns DEF end
  <2>3. QED
    BY <1>3, <1>13, <2>2
<1>16. /\ Listed(end.page_free_list) = Listed(L)
       /\ Len(end.page_free_list) = Len(L)
       /\ Distinct(end.page_free_list) /\ end.page_free_list[1] = L[1]
  <2>1. /\ Len(ThreeOn(q, t.fl)) = Len(t.fl) + 3
        /\ Listed(ThreeOn(q, t.fl)) = Listed(t.fl) \cup {q[1], q[2], q[3]}
        /\ Distinct(ThreeOn(q, t.fl))
    BY <1>9, ThreeOnFacts
  <2>2. ThreeOn(q, t.fl)[1] = q[3]
    BY <1>9, ThreeOnHead
  <2>3. QED
    BY <1>1, <1>8, <1>15, <2>1, <2>2
<1>17. \A i, k \in 1 .. 3 : i # k => t.pp[i] # t.pp[k] /\ q[i] # q[k]
  BY <1>1, <1>8 DEF Loose
<1>18. check_page_alloc(m).asserts
  <2>1. end.panic = "none"
    BY <1>15 DEF Running
  <2>2. QED
    BY <1>1, <1>5, <1>8, <1>13, <1>14, <1>16, <1>17, <2>1
<1>19. Testable(end)
  BY <1>2, <1>15, <1>16 DEF Testable, L
<1>20. \A p \in Page \ Listed(L) : end.frame[p] = m.frame[p]
  BY <1>1, <1>8, <1>14, <1>15
<1>21. QED
  BY <1>4, <1>8, <1>15, <1>16, <1>18, <1>19, <1>20 DEF L

------------------------------------------------------------------------------
(* A list with three different pages has at least three elements. *)
LEMMA ThreeMembers ==
  ASSUME NEW s \in Seq(Page), NEW x \in Listed(s), NEW y \in Listed(s),
         NEW z \in Listed(s), x # y, x # z, y # z
  PROVE  Len(s) >= 3
<1>1. PICK i \in 1 .. Len(s) : x = s[i]
  BY DEF Listed
<1>2. PICK j \in 1 .. Len(s) : y = s[j]
  BY DEF Listed
<1>3. PICK k \in 1 .. Len(s) : z = s[k]
  BY DEF Listed
<1>4. i # j /\ i # k /\ j # k
  BY <1>1, <1>2, <1>3
<1> DEFINE n == Len(s)
<1>5. n \in Nat
  OBVIOUS
<1> HIDE DEF n
<1>6. i \in 1 .. n /\ j \in 1 .. n /\ k \in 1 .. n
  BY DEF n
<1>7. n >= 3
  BY <1>4, <1>5, <1>6
<1>8. QED
  BY <1>7 DEF n

(* The pages page_init leaves free. *)
FreeAtBoot(mc) == Listed(FreePages(mc, FirstFree(mc)))

(* Free are the pages below the I/O hole but 0, and those from FirstFree. *)
LEMMA FreeAtBootFacts ==
  ASSUME NEW mc \in Machine, Supported(mc)
  PROVE  /\ FreeAtBoot(mc) \subseteq Page
         /\ \A p \in FreeAtBoot(mc) :
              /\ p \in Nat /\ p < NPages(mc)
              /\ ~PageUsed(mc, FirstFree(mc), p)
              /\ p # 0
              /\ p < BootPage(IOPHYSMEM) \/ p >= BootPage(FirstFree(mc))
         /\ \A p \in Nat :
              p # 0 /\ p < BootPage(IOPHYSMEM) => p \in FreeAtBoot(mc)
         /\ BootPage(FirstFree(mc)) \in FreeAtBoot(mc)
<1> DEFINE np == NPages(mc)
           io == BootPage(IOPHYSMEM)
           ff == BootPage(FirstFree(mc))
<1>1. /\ np \in Nat /\ 0 .. np - 1 \in SUBSET Page /\ io \in Nat /\ ff \in Nat
      /\ 4 <= io /\ io < ff /\ ff < np
  <2>1. BootPage(EXTPHYSMEM) \in Nat /\ io < BootPage(EXTPHYSMEM)
        /\ BootPage(EXTPHYSMEM) <= ff
    BY MachinePages
  <2>2. np \in Nat /\ io \in Nat /\ ff \in Nat /\ 4 <= io /\ ff < np
        /\ 0 .. np - 1 \in SUBSET Page
    BY MachinePages
  <2> HIDE DEF np, io, ff
  <2>3. QED
    BY <2>1, <2>2
<1>2. FreeAtBoot(mc) = {i \in 0 .. np - 1 : ~PageUsed(mc, FirstFree(mc), i)}
  BY <1>1, FreePagesFacts DEF FreeAtBoot
<1>3. \A i \in Nat : PageUsed(mc, FirstFree(mc), i) <=>
        (i = 0 \/ (io <= i /\ i < ff))
  BY UsedPages
<1> HIDE DEF np, io, ff
<1>4. ASSUME NEW p \in FreeAtBoot(mc)
      PROVE  /\ p \in Nat /\ p < np /\ ~PageUsed(mc, FirstFree(mc), p)
             /\ p # 0 /\ (p < io \/ p >= ff)
  <2>1. p \in 0 .. np - 1 /\ ~PageUsed(mc, FirstFree(mc), p)
    BY <1>2
  <2>2. p \in Nat /\ p < np
    BY <1>1, <2>1
  <2>3. ~(p = 0 \/ (io <= p /\ p < ff))
    BY <1>3, <2>1, <2>2
  <2>4. QED
    BY <1>1, <2>1, <2>2, <2>3
<1>5. ASSUME NEW p \in Nat, p < np, ~(p = 0 \/ (io <= p /\ p < ff))
      PROVE  p \in FreeAtBoot(mc)
  <2>1. p \in 0 .. np - 1
    BY <1>1, <1>5
  <2>2. ~PageUsed(mc, FirstFree(mc), p)
    BY <1>3, <1>5
  <2>3. QED
    BY <1>2, <2>1, <2>2
<1>6. \A p \in Nat : p # 0 /\ p < io => p \in FreeAtBoot(mc)
  <2>1. SUFFICES ASSUME NEW p \in Nat, p # 0, p < io
                 PROVE  p \in FreeAtBoot(mc)
    OBVIOUS
  <2>2. p < np /\ ~(p = 0 \/ (io <= p /\ p < ff))
    BY <1>1, <2>1
  <2>3. QED
    BY <1>5, <2>2
<1>7. ff \in FreeAtBoot(mc)
  <2>1. ~(ff = 0 \/ (io <= ff /\ ff < ff))
    BY <1>1
  <2>2. QED
    BY <1>1, <1>5, <2>1
<1>8. FreeAtBoot(mc) \subseteq Page
  BY <1>1, <1>2
<1>9. QED
  BY <1>4, <1>6, <1>7, <1>8 DEF np, io, ff

(* Memory as page_init makes it. *)
LEMMA PageInitOK ==
  ASSUME NEW mc \in Machine, Supported(mc)
  PROVE  LET f == page_init(mc, FirstFree(mc))
         IN  /\ Testable(f) /\ Listed(f.page_free_list) = FreeAtBoot(mc)
             /\ \A p \in Page : f.frame[p] = Zero
<1> DEFINE f == page_init(mc, FirstFree(mc))
           L == FreePages(mc, FirstFree(mc))
           R == [p \in Page |-> IF p < NPages(mc)
                                   /\ PageUsed(mc, FirstFree(mc), p)
                                THEN 1 ELSE 0]
           F == [p \in Page |-> Zero]
<1>1. L \in Seq(Page) /\ Distinct(L) /\ Listed(L) = FreeAtBoot(mc)
  <2>1. NPages(mc) \in Nat /\ 0 .. NPages(mc) - 1 \in SUBSET Page
    BY MachinePages
  <2>2. QED
    BY <2>1, FreePagesFacts DEF FreeAtBoot
<1>2. R \in [Page -> 0 .. RefMod - 1] /\ \A p \in FreeAtBoot(mc) : R[p] = 0
  <2>1. 0 \in 0 .. RefMod - 1 /\ 1 \in 0 .. RefMod - 1
    BY BootConstants
  <2>2. FreeAtBoot(mc) \subseteq Page
        /\ \A p \in FreeAtBoot(mc) : ~PageUsed(mc, FirstFree(mc), p)
    BY FreeAtBootFacts
  <2>3. QED
    BY <2>1, <2>2
<1>3. F \in [Page -> [Ptx -> PteOrNull]] /\ \A p \in Page : F[p] = Zero
  BY EntryFacts
<1>4. f = [pp_ref |-> R, page_free_list |-> L, frame |-> F, panic |-> "none"]
  <2>1. f = [Bss EXCEPT !.pp_ref = R, !.page_free_list = L]
    BY DEF page_init
  <2> DEFINE Q == [p \in Page |-> 0]
  <2>2. Bss = [pp_ref |-> Q, page_free_list |-> <<>>, frame |-> F,
               panic |-> "none"]
    BY DEF Bss
  <2> HIDE DEF f, R, L, F, Q
  <2>3. QED
    BY <2>1, <2>2
<1> HIDE DEF f, R, L, F
<1>5. /\ Running(f) /\ f.page_free_list = L /\ f.pp_ref = R /\ f.frame = F
  BY <1>1, <1>2, <1>3, <1>4 DEF Running, BootMemory
<1>6. Len(L) >= 3
  <2>1. 1 \in FreeAtBoot(mc) /\ 2 \in FreeAtBoot(mc) /\ 3 \in FreeAtBoot(mc)
    <3>1. BootPage(IOPHYSMEM) \in Nat /\ 4 <= BootPage(IOPHYSMEM)
      BY MachinePages
    <3>2. /\ 1 \in Nat /\ 1 # 0 /\ 1 < BootPage(IOPHYSMEM)
          /\ 2 \in Nat /\ 2 # 0 /\ 2 < BootPage(IOPHYSMEM)
          /\ 3 \in Nat /\ 3 # 0 /\ 3 < BootPage(IOPHYSMEM)
      BY <3>1
    <3>3. QED
      BY <3>2, FreeAtBootFacts
  <2>2. QED
    BY <1>1, <2>1, ThreeMembers
<1>7. Testable(f)
  BY <1>1, <1>2, <1>5, <1>6 DEF Testable
<1>8. QED
  BY <1>1, <1>3, <1>5, <1>7 DEF f

(* nextfree after the first boot_alloc, where the page directory is made. *)
AfterPages(mc) ==
  boot_alloc(RoundUp(mc.end, PGSIZE), PageInfoSize * NPages(mc))

(* A page's size is a whole page. *)
LEMMA WholePage == RoundUp(PGSIZE, PGSIZE) = PGSIZE
<1> DEFINE P == PGSIZE
           z == P + P - 1
           q == z \div P
<1>1. P \in Nat \ {0}
  BY BootConstants
<1> HIDE DEF P
<1>2. z \in Nat
  BY <1>1
<1> HIDE DEF z
<1>3. q \in Nat /\ z = P * q + (z % P) /\ z % P \in 0 .. P - 1
  BY <1>1, <1>2
<1> HIDE DEF q
<1>4. q = 1
  <2> DEFINE r == z % P
  <2>1. z = P * q + r /\ r \in 0 .. P - 1 /\ z = P + P - 1
    BY <1>3 DEF z
  <2> HIDE DEF r
  <2>2. q # 0
    BY <1>1, <2>1
  <2>3. ~(q >= 2)
    <3>1. SUFFICES ASSUME q >= 2 PROVE FALSE
      OBVIOUS
    <3>2. P * q >= P * 2 /\ P * 2 = P + P
      BY <1>1, <1>3, <3>1
    <3> DEFINE x == P * q
    <3>3. x \in Nat /\ x >= P + P /\ P + P - 1 = x + r
      BY <1>1, <1>3, <2>1, <3>2
    <3> HIDE DEF x
    <3>4. QED
      BY <1>1, <2>1, <3>3
  <2>4. QED
    BY <1>3, <2>2, <2>3
<1>5. QED
  BY <1>1, <1>4 DEF RoundUp, P, q, z

(* What boot_alloc gives out: nextfree goes up to FirstFree in three calls. *)
LEMMA BootAllocs ==
  ASSUME NEW mc \in Machine, Supported(mc)
  PROVE  LET e == RoundUp(mc.end, PGSIZE)
             n1 == AfterPages(mc)
             n2 == boot_alloc(n1, PGSIZE)
         IN  /\ e \in Nat /\ n1 \in Nat /\ n2 \in Nat
             /\ EXTPHYSMEM <= e /\ e <= n1 /\ n1 < n2 /\ n2 <= FirstFree(mc)
             /\ boot_alloc(n2, EnvsSize) = FirstFree(mc)
             /\ n1 % PGSIZE = 0
<1> DEFINE e == RoundUp(mc.end, PGSIZE)
           s == PageInfoSize * NPages(mc)
           a1 == RoundUp(s, PGSIZE)
           a2 == RoundUp(EnvsSize, PGSIZE)
           n1 == AfterPages(mc)
           n2 == boot_alloc(n1, PGSIZE)
<1>1. /\ e \in Nat /\ e % PGSIZE = 0 /\ EXTPHYSMEM <= e /\ s \in Nat
  BY MachinePages
<1>2. PGSIZE \in Nat \ {0} /\ PGSIZE \in Nat /\ EnvsSize \in Nat
      /\ EXTPHYSMEM \in Nat
  BY BootConstants
<1>3. FirstFree(mc) = e + a1 + PGSIZE + a2
  BY DEF FirstFree
<1>4. n1 = RoundUp(e + s, PGSIZE)
  BY DEF AfterPages, boot_alloc
<1> HIDE DEF e, s, n1
<1>5. n1 = e + a1 /\ a1 \in Nat /\ n1 % PGSIZE = 0
  <2>1. /\ RoundUp(e + s, PGSIZE) = e + RoundUp(s, PGSIZE)
        /\ RoundUp(s, PGSIZE) \in Nat
        /\ (e + RoundUp(s, PGSIZE)) % PGSIZE = 0
    BY <1>1, RoundedSum
  <2>2. QED
    BY <1>4, <2>1
<1> HIDE DEF a1
<1>6. n1 \in Nat
  BY <1>1, <1>5
<1>7. n2 = n1 + PGSIZE /\ n2 % PGSIZE = 0
  <2>1. /\ RoundUp(n1 + PGSIZE, PGSIZE) = n1 + RoundUp(PGSIZE, PGSIZE)
        /\ (n1 + RoundUp(PGSIZE, PGSIZE)) % PGSIZE = 0
    BY <1>2, <1>5, <1>6, RoundedSum
  <2>2. QED
    BY <2>1, WholePage DEF boot_alloc
<1> HIDE DEF n2
<1>8. n2 \in Nat
  BY <1>2, <1>6, <1>7
<1>9. boot_alloc(n2, EnvsSize) = n2 + a2 /\ a2 \in Nat
  BY <1>2, <1>7, <1>8, RoundedSum DEF boot_alloc
<1> HIDE DEF a2
<1>10. boot_alloc(n2, EnvsSize) = FirstFree(mc) /\ n2 <= FirstFree(mc)
  BY <1>1, <1>2, <1>3, <1>5, <1>7, <1>8, <1>9
<1>11. e <= n1 /\ n1 < n2
  BY <1>1, <1>2, <1>5, <1>7
<1>12. QED
  BY <1>1, <1>5, <1>6, <1>8, <1>10, <1>11 DEF e, n1, n2

(* The page directory is a page between the kernel and the free pages. *)
LEMMA PgdirPage ==
  ASSUME NEW mc \in Machine, Supported(mc)
  PROVE  LET d == BootPage(AfterPages(mc))
         IN  /\ d \in Page /\ d \notin FreeAtBoot(mc)
             /\ BootPage(EXTPHYSMEM) <= d /\ d < BootPage(FirstFree(mc))
             /\ d \in Nat
<1> DEFINE n1 == AfterPages(mc)
           d == BootPage(n1)
           ex == BootPage(EXTPHYSMEM)
           ff == BootPage(FirstFree(mc))
           io == BootPage(IOPHYSMEM)
<1>1. n1 \in Nat /\ n1 % PGSIZE = 0 /\ EXTPHYSMEM <= n1 /\ n1 < FirstFree(mc)
  <2> DEFINE e == RoundUp(mc.end, PGSIZE)
             n2 == boot_alloc(n1, PGSIZE)
  <2>1. /\ e \in Nat /\ n1 \in Nat /\ n2 \in Nat /\ n1 % PGSIZE = 0
        /\ EXTPHYSMEM <= e /\ e <= n1 /\ n1 < n2 /\ n2 <= FirstFree(mc)
    BY BootAllocs
  <2>2. FirstFree(mc) \in Nat /\ EXTPHYSMEM \in Nat
    BY MachinePages, BootConstants
  <2> HIDE DEF e, n1, n2
  <2>3. QED
    BY <2>1, <2>2
<1> HIDE DEF n1
<1>2. d \in Nat /\ d * PGSIZE = n1
  BY <1>1, PageOf
<1>3. /\ ex \in Nat /\ ff \in Nat /\ io \in Nat /\ io < ex
      /\ ex * PGSIZE = EXTPHYSMEM /\ ff * PGSIZE = FirstFree(mc)
      /\ ff < NPages(mc) /\ NPages(mc) \in Nat
      /\ 0 .. NPages(mc) - 1 \in SUBSET Page
  BY MachinePages
<1> HIDE DEF d, ex, ff, io
<1>4. ex <= d /\ d < ff
  <2>1. ex * PGSIZE <= d * PGSIZE /\ d * PGSIZE < ff * PGSIZE
    BY <1>1, <1>2, <1>3
  <2>2. QED
    BY <1>2, <1>3, <2>1, PageOrder
<1>5. d \in Page
  <2>1. d \in 0 .. NPages(mc) - 1
    BY <1>2, <1>3, <1>4
  <2>2. QED
    BY <1>3, <2>1
<1>6. d \notin FreeAtBoot(mc)
  <2>1. \A p \in FreeAtBoot(mc) : p < io \/ p >= ff
    BY FreeAtBootFacts DEF io, ff
  <2>2. ~(d < io \/ d >= ff)
    BY <1>2, <1>3, <1>4
  <2>3. QED
    BY <2>1, <2>2
<1>7. QED
  BY <1>2, <1>4, <1>5, <1>6 DEF d, n1, ex, ff

(* The free pages and the counts are those that page_init made, and the    *)
(* directory d maps nothing.                                               *)
AsMade(m, mc, d) ==
  LET fresh == page_init(mc, FirstFree(mc))
  IN  /\ Listed(m.page_free_list) = FreeAtBoot(mc)
      /\ Len(m.page_free_list) = Len(fresh.page_free_list)
      /\ m.pp_ref = fresh.pp_ref
      /\ \A k \in Ptx : m.frame[d][k] = NULL

Untouched(m, mc, d) == Testable(m) /\ AsMade(m, mc, d)

(* The assertions of check_page_free_list hold of what page_init made,     *)
(* unless the page at MPENTRY_PADDR is free.                               *)
LEMMA ListAsserts ==
  ASSUME NEW mc \in Machine, Supported(mc), NEW m,
         Listed(m.page_free_list) = FreeAtBoot(mc),
         BootPage(mc.mpentry) \notin FreeAtBoot(mc)
  PROVE  check_page_free_list(m, mc, FirstFree(mc)).asserts
<1> DEFINE free == OnFreeList(m)
           ex == BootPage(EXTPHYSMEM)
           io == BootPage(IOPHYSMEM)
           ff == BootPage(FirstFree(mc))
           below == {p \in free : p < ex}
<1>1. free = FreeAtBoot(mc)
  BY DEF OnFreeList, Listed
<1>2. ASSUME free # {},
             \A p \in free :
               /\ p \notin {0, io, ex - 1, ex, BootPage(mc.mpentry)}
               /\ p < ex \/ p >= ff,
             below # {}, free \ below # {}
      PROVE  check_page_free_list(m, mc, FirstFree(mc)).asserts
  BY <1>2, Zenon DEF check_page_free_list
<1> HIDE DEF free, io, ex, ff, below
<1>3. io \in Nat /\ ex \in Nat /\ ff \in Nat /\ 4 <= io /\ io < ex /\ ex < ff
  <2>1. io \in Nat /\ ex \in Nat /\ ff \in Nat /\ 4 <= io /\ io < ex
    BY MachinePages DEF io, ex, ff
  <2> DEFINE d == BootPage(AfterPages(mc))
  <2>2. d \in Nat /\ ex <= d /\ d < ff
    BY PgdirPage DEF ex, ff
  <2> HIDE DEF d
  <2>3. QED
    BY <2>1, <2>2
<1>4. /\ \A p \in free : p \in Nat /\ p # 0 /\ (p < io \/ p >= ff)
      /\ \A p \in Nat : p # 0 /\ p < io => p \in free
      /\ ff \in free
  BY <1>1, FreeAtBootFacts DEF io, ff
<1>5. 1 \in free
  <2>1. 1 \in Nat /\ 1 # 0 /\ 1 < io
    BY <1>3
  <2>2. QED
    BY <1>4, <2>1
<1>6. below # {}
  <2>1. 1 < ex
    BY <1>3
  <2>2. QED
    BY <1>5, <2>1 DEF below
<1>7. free \ below # {}
  <2>1. ~(ff < ex)
    BY <1>3
  <2>2. QED
    BY <1>4, <2>1 DEF below
<1>8. ASSUME NEW p \in free
      PROVE  /\ p \notin {0, io, ex - 1, ex, BootPage(mc.mpentry)}
             /\ p < ex \/ p >= ff
  <2>1. p \in Nat /\ p # 0 /\ (p < io \/ p >= ff)
    BY <1>4
  <2>2. p # io /\ p # ex - 1 /\ p # ex /\ (p < ex \/ p >= ff)
    BY <1>3, <2>1
  <2>3. p # BootPage(mc.mpentry)
    BY <1>1
  <2>4. QED
    BY <2>1, <2>2, <2>3
<1>9. QED
  BY <1>2, <1>5, <1>6, <1>7, <1>8

(* The first three pages of the new list are pages entry_pgdir maps. *)
LEMMA LowPagesFirst ==
  ASSUME NEW mc \in Machine, Supported(mc), NEW m, Testable(m),
         Listed(m.page_free_list) = FreeAtBoot(mc)
  PROVE  LET K == LowFirst(m)
         IN  /\ K \in Seq(Page) /\ Distinct(K) /\ Listed(K) = FreeAtBoot(mc)
             /\ Len(K) = Len(m.page_free_list)
             /\ EntryMaps(K[1]) /\ EntryMaps(K[3])
<1> DEFINE L == m.page_free_list
           K == LowFirst(m)
<1>1. L \in Seq(Page) /\ Distinct(L) /\ Len(L) >= 3
  BY MemoryFields DEF Testable, Running
<1>2. PICK low \in Seq(Page), high \in Seq(Page) :
        /\ K = low \o high
        /\ \A p \in Listed(low) : EntryMaps(p)
        /\ Listed(low) = {p \in Listed(L) : EntryMaps(p)}
        /\ Listed(low) \cup Listed(high) = Listed(L)
        /\ Listed(low) \cap Listed(high) = {}
        /\ Distinct(low) /\ Distinct(high)
        /\ Len(low) + Len(high) = Len(L)
  BY <1>1, LowFirstFacts
<1> HIDE DEF K, L
<1>3. Len(low) >= 3
  <2>1. BootPage(IOPHYSMEM) \in Nat /\ 4 <= BootPage(IOPHYSMEM)
        /\ BootPage(FirstFree(mc)) \in Nat
        /\ BootPage(EXTPHYSMEM) \in Nat
        /\ BootPage(IOPHYSMEM) < BootPage(EXTPHYSMEM)
        /\ BootPage(EXTPHYSMEM) <= BootPage(FirstFree(mc))
    BY MachinePages
  <2>2. ASSUME NEW p \in 1 .. 3 PROVE p \in Listed(low)
    <3>1. p \in Nat /\ p # 0 /\ p < BootPage(IOPHYSMEM)
          /\ p < BootPage(FirstFree(mc))
      BY <2>1
    <3>2. p \in FreeAtBoot(mc)
      BY <3>1, FreeAtBootFacts
    <3>3. EntryMaps(p)
      BY <3>1, LowMapped
    <3>4. QED
      BY <1>2, <3>2, <3>3 DEF L
  <2>3. 1 \in Listed(low) /\ 2 \in Listed(low) /\ 3 \in Listed(low)
    BY <2>2
  <2>4. QED
    BY <2>3, ThreeMembers
<1>4. /\ K \in Seq(Page) /\ Len(K) = Len(low) + Len(high)
      /\ Listed(K) = Listed(low) \cup Listed(high) /\ Distinct(K)
  BY <1>2, ListedConcat
<1>5. ASSUME NEW k \in {1, 3} PROVE EntryMaps(K[k])
  <2>1. Len(low) \in Nat /\ Len(high) \in Nat
    OBVIOUS
  <2>2. /\ k \in 1 .. Len(low) + Len(high) /\ k <= Len(low)
        /\ k \in 1 .. Len(low)
    BY <1>3, <2>1
  <2>3. \A i \in 1 .. Len(low) + Len(high) :
          (low \o high)[i] = IF i <= Len(low) THEN low[i]
                             ELSE high[i - Len(low)]
    BY ConcatProperties
  <2>4. (low \o high)[k] = low[k]
    BY <2>2, <2>3
  <2>5. low[k] \in Listed(low)
    BY <2>2 DEF Listed
  <2>6. QED
    BY <1>2, <2>4, <2>5
<1>6. EntryMaps(K[1]) /\ EntryMaps(K[3])
  BY <1>5
<1>7. QED
  BY <1>2, <1>4, <1>6 DEF K, L

(* check_page_free_list touches pages entry_pgdir maps, and keeps the      *)
(* free pages and the directory.                                           *)
LEMMA CheckListOK ==
  ASSUME NEW mc \in Machine, Supported(mc), NEW d \in Page,
         d \notin FreeAtBoot(mc), NEW m, Untouched(m, mc, d)
  PROVE  LET r == check_page_free_list(m, mc, FirstFree(mc))
         IN  /\ \A p \in r.touched : EntryMaps(p)
             /\ Untouched(r.m, mc, d)
             /\ EntryMaps(r.m.page_free_list[1])
             /\ EntryMaps(r.m.page_free_list[3])
<1> DEFINE free == OnFreeList(m)
           low == {p \in free : EntryMaps(p)}
           K == LowFirst(m)
           F == [p \in Page |-> IF p \in low THEN Junk ELSE m.frame[p]]
           n == [m EXCEPT !.page_free_list = K,
                          !.frame = [p \in Page |->
                                       IF p \in low THEN Junk ELSE @[p]]]
<1>1. /\ check_page_free_list(m, mc, FirstFree(mc)).m = n
      /\ check_page_free_list(m, mc, FirstFree(mc)).touched = low
  BY Zenon DEF check_page_free_list
<1>2. /\ Testable(m) /\ Listed(m.page_free_list) = FreeAtBoot(mc)
      /\ m \in BootMemory /\ m.panic = "none"
  BY DEF Untouched, AsMade, Testable, Running
<1>3. free = FreeAtBoot(mc)
  BY <1>2 DEF OnFreeList, Listed
<1>4. /\ K \in Seq(Page) /\ Distinct(K) /\ Listed(K) = FreeAtBoot(mc)
      /\ Len(K) = Len(m.page_free_list)
      /\ EntryMaps(K[1]) /\ EntryMaps(K[3])
  BY <1>2, LowPagesFirst
<1>5. Junk \in [Ptx -> PteOrNull]
  <2>1. 0 \in Page
    <3>1. Page = 0 .. Cardinality(Page) - 1 /\ d \in Page
      BY BootMemAssumption
    <3>2. Cardinality(Page) \in Nat
      BY PageAssumption, FS_CardinalityType
    <3>3. QED
      BY <3>1, <3>2
  <2>2. [pp |-> 0, perm |-> "UW"] \in PteOrNull
    BY <2>1 DEF Pte, PteOrNull
  <2>3. QED
    BY <2>2 DEF Junk
<1>6. d \notin low
  BY <1>3
<1>7. n = [m EXCEPT !.page_free_list = K, !.frame = F]
  BY <1>2 DEF BootMemory
<1> HIDE DEF low, K, free, n
<1>8. F \in [Page -> [Ptx -> PteOrNull]] /\ F[d] = m.frame[d]
  BY <1>2, <1>5, <1>6, MemoryFields
<1> HIDE DEF F
<1>9. /\ n \in BootMemory /\ n.page_free_list = K /\ n.pp_ref = m.pp_ref
      /\ n.frame = F /\ n.panic = "none"
  BY <1>2, <1>4, <1>7, <1>8 DEF BootMemory
<1>10. Testable(n)
  BY <1>2, <1>4, <1>9 DEF Testable, Running
<1>11. Untouched(n, mc, d)
  BY <1>4, <1>8, <1>9, <1>10 DEF Untouched, AsMade
<1>12. \A p \in low : EntryMaps(p)
  BY DEF low
<1>13. QED
  BY <1>1, <1>4, <1>9, <1>11, <1>12

------------------------------------------------------------------------------
(* mem_init.  The fields of its state. *)
IsBootState(s) ==
  s = [pc |-> s.pc, mc |-> s.mc, nextfree |-> s.nextfree, pgdir |-> s.pgdir,
       m |-> s.m, touched |-> s.touched, asserts |-> s.asserts]

(* boot_alloc and memset. *)
LEMMA AfterAllocFields ==
  ASSUME NEW s, IsBootState(s), NEW n, NEW next
  PROVE  LET a == AfterAlloc(s, n, next)
         IN  /\ IsBootState(a) /\ a.pc = next /\ a.mc = s.mc
             /\ a.nextfree = boot_alloc(s.nextfree, n)
             /\ a.pgdir = s.pgdir /\ a.m = s.m
             /\ a.touched = s.touched \cup
                              PagesOf(s.nextfree, boot_alloc(s.nextfree, n))
             /\ a.asserts = s.asserts
<1> DEFINE nf == boot_alloc(s.nextfree, n)
           more == PagesOf(s.nextfree, nf)
           a == AfterAlloc(s, n, next)
<1>1. a = [s EXCEPT !.pc = next, !.nextfree = nf, !.touched = @ \cup more]
  BY DEF AfterAlloc
<1> HIDE DEF nf, more, a
<1>2. a = [pc |-> next, mc |-> s.mc, nextfree |-> nf, pgdir |-> s.pgdir,
           m |-> s.m, touched |-> s.touched \cup more,
           asserts |-> s.asserts]
  BY <1>1 DEF IsBootState
<1>3. /\ IsBootState(a) /\ a.pc = next /\ a.mc = s.mc /\ a.nextfree = nf
      /\ a.pgdir = s.pgdir /\ a.m = s.m /\ a.touched = s.touched \cup more
      /\ a.asserts = s.asserts
  BY <1>2 DEF IsBootState
<1>4. QED
  BY <1>3 DEF a, nf, more

(* A self-test. *)
LEMMA AfterTestFields ==
  ASSUME NEW s, IsBootState(s), NEW r, NEW next
  PROVE  LET a == AfterTest(s, r, next)
         IN  /\ IsBootState(a) /\ a.mc = s.mc /\ a.nextfree = s.nextfree
             /\ a.pgdir = s.pgdir /\ a.touched = s.touched \cup r.touched
             /\ a.asserts = r.asserts
             /\ r.asserts => a.pc = next /\ a.m = r.m
             /\ ~r.asserts => a.pc = "done" /\ a.m = s.m
<1> DEFINE pc == IF r.asserts THEN next ELSE "done"
           m == IF r.asserts THEN r.m ELSE s.m
           a == AfterTest(s, r, next)
<1>1. a = [s EXCEPT !.pc = pc, !.m = IF r.asserts THEN r.m ELSE @,
                    !.touched = @ \cup r.touched, !.asserts = r.asserts]
  BY DEF AfterTest
<1>2. a = [s EXCEPT !.pc = pc, !.m = m, !.touched = s.touched \cup r.touched,
                    !.asserts = r.asserts]
  BY <1>1 DEF IsBootState
<1>3. /\ r.asserts => pc = next /\ m = r.m
      /\ ~r.asserts => pc = "done" /\ m = s.m
  OBVIOUS
<1> HIDE DEF pc, m, a
<1>4. a = [pc |-> pc, mc |-> s.mc, nextfree |-> s.nextfree,
           pgdir |-> s.pgdir, m |-> m, touched |-> s.touched \cup r.touched,
           asserts |-> r.asserts]
  BY <1>2 DEF IsBootState
<1>5. /\ IsBootState(a) /\ a.pc = pc /\ a.mc = s.mc
      /\ a.nextfree = s.nextfree /\ a.pgdir = s.pgdir /\ a.m = m
      /\ a.touched = s.touched \cup r.touched /\ a.asserts = r.asserts
  BY <1>4 DEF IsBootState
<1>6. QED
  BY <1>3, <1>5 DEF a

------------------------------------------------------------------------------
(* The inductive invariant of mem_init: where nextfree has got to, where   *)
(* the page directory is, and what the self-tests find and leave.          *)
BootPhase(s) ==
  LET mc == s.mc
      d == BootPage(AfterPages(mc))
      Laid == s.nextfree = FirstFree(mc) /\ s.pgdir = d
  IN  \/ /\ s.pc = "alloc_pages" /\ s.m = Bss /\ s.asserts
         /\ s.nextfree = RoundUp(mc.end, PGSIZE)
      \/ /\ s.pc = "alloc_pgdir" /\ s.m = Bss /\ s.asserts
         /\ s.nextfree = AfterPages(mc)
      \/ /\ s.pc = "alloc_envs" /\ s.m = Bss /\ s.asserts
         /\ s.nextfree = boot_alloc(AfterPages(mc), PGSIZE) /\ s.pgdir = d
      \/ s.pc = "page_init" /\ s.m = Bss /\ s.asserts /\ Laid
      \/ /\ s.pc = "check_page_free_list" /\ s.asserts /\ Laid
         /\ Untouched(s.m, mc, d)
      \/ /\ s.pc = "check_page_alloc" /\ s.asserts /\ Laid
         /\ Untouched(s.m, mc, d)
         /\ EntryMaps(s.m.page_free_list[1])
         /\ EntryMaps(s.m.page_free_list[3])
      \/ /\ s.pc = "check_page" /\ s.asserts /\ Laid
         /\ Untouched(s.m, mc, d)
         /\ EntryMaps(s.m.page_free_list[1])
      \/ /\ s.pc = "done" /\ Laid /\ AsMade(s.m, mc, d)
         /\ s.asserts \/ BootPage(mc.mpentry) \in FreeAtBoot(mc)

BootOK(s) ==
  /\ IsBootState(s) /\ s.mc \in Machine /\ Supported(s.mc)
  /\ \A p \in s.touched : EntryMaps(p)
  /\ BootPhase(s)

BootInv == job = "mem_init" /\ BootOK(st)

(* What boot_alloc gives out lies below FirstFree, and is mapped. *)
LEMMA GivenOutMapped ==
  ASSUME NEW mc \in Machine, Supported(mc), NEW a, NEW b \in Nat,
         b <= FirstFree(mc)
  PROVE  \A p \in PagesOf(a, b) : EntryMaps(p)
<1> DEFINE ff == FirstFree(mc)
<1>1. /\ ff \in Nat /\ ff < EntryMapped /\ EntryMapped \in Nat
      /\ PGSIZE \in Nat
  BY MachinePages, BootConstants DEF Supported
<1>2. Page \subseteq Nat
  <2>1. Page = 0 .. Cardinality(Page) - 1
    BY BootMemAssumption
  <2>2. Cardinality(Page) \in Nat
    BY PageAssumption, FS_CardinalityType
  <2>3. QED
    BY <2>1, <2>2
<1> HIDE DEF ff
<1>3. SUFFICES ASSUME NEW p \in Page, p * PGSIZE < b
               PROVE  p * PGSIZE < EntryMapped
  BY DEF PagesOf, EntryMaps
<1>4. p \in Nat
  BY <1>2
<1> DEFINE x == p * PGSIZE
<1>5. x \in Nat /\ x < b /\ b <= ff
  BY <1>1, <1>3, <1>4 DEF ff
<1> HIDE DEF x
<1>6. x < EntryMapped
  BY <1>1, <1>5
<1>7. QED
  BY <1>6 DEF x

(* The pages array. *)
LEMMA AllocPagesOK ==
  ASSUME NEW s, BootOK(s), s.pc = "alloc_pages"
  PROVE  BootOK(AfterAlloc(s, PageInfoSize * NPages(s.mc), "alloc_pgdir"))
<1> DEFINE mc == s.mc
           a == AfterAlloc(s, PageInfoSize * NPages(mc), "alloc_pgdir")
           n1 == AfterPages(mc)
<1>1. /\ IsBootState(s) /\ mc \in Machine /\ Supported(mc)
      /\ \A p \in s.touched : EntryMaps(p)
      /\ BootPhase(s)
  BY DEF BootOK
<1>2. /\ s.m = Bss /\ s.asserts /\ s.nextfree = RoundUp(mc.end, PGSIZE)
  BY <1>1 DEF BootPhase
<1>3. boot_alloc(s.nextfree, PageInfoSize * NPages(mc)) = n1
  BY <1>2 DEF AfterPages
<1>4. /\ IsBootState(a) /\ a.pc = "alloc_pgdir" /\ a.mc = mc
      /\ a.nextfree = n1 /\ a.m = s.m /\ a.asserts = s.asserts
      /\ a.touched = s.touched \cup PagesOf(s.nextfree, n1)
  BY <1>1, <1>3, AfterAllocFields
<1>5. n1 \in Nat /\ n1 <= FirstFree(mc)
  <2> DEFINE n2 == boot_alloc(n1, PGSIZE)
  <2>1. n1 \in Nat /\ n2 \in Nat /\ n1 < n2 /\ n2 <= FirstFree(mc)
    BY <1>1, BootAllocs
  <2>2. FirstFree(mc) \in Nat
    BY <1>1, MachinePages
  <2> HIDE DEF n1, n2, mc
  <2>3. QED
    BY <2>1, <2>2
<1>6. \A p \in PagesOf(s.nextfree, n1) : EntryMaps(p)
  BY <1>1, <1>5, GivenOutMapped
<1> HIDE DEF a, n1
<1>7. BootPhase(a)
  BY <1>2, <1>4 DEF BootPhase, n1
<1>8. BootOK(a)
  BY <1>1, <1>4, <1>6, <1>7 DEF BootOK
<1>9. QED
  BY <1>8 DEF a

(* The page directory: at the page nextfree has got to. *)
LEMMA AllocPgdirOK ==
  ASSUME NEW s, BootOK(s), s.pc = "alloc_pgdir"
  PROVE  BootOK([AfterAlloc(s, PGSIZE, "alloc_envs") EXCEPT
                   !.pgdir = BootPage(s.nextfree)])
<1> DEFINE mc == s.mc
           b == AfterAlloc(s, PGSIZE, "alloc_envs")
           n1 == AfterPages(mc)
           n2 == boot_alloc(n1, PGSIZE)
           d == BootPage(s.nextfree)
           a == [b EXCEPT !.pgdir = d]
<1>1. /\ IsBootState(s) /\ mc \in Machine /\ Supported(mc)
      /\ \A p \in s.touched : EntryMaps(p)
      /\ BootPhase(s)
  BY DEF BootOK
<1>2. /\ s.m = Bss /\ s.asserts /\ s.nextfree = n1
  BY <1>1 DEF BootPhase
<1>3. /\ IsBootState(b) /\ b.pc = "alloc_envs" /\ b.mc = mc
      /\ b.nextfree = n2 /\ b.m = s.m /\ b.asserts = s.asserts
      /\ b.touched = s.touched \cup PagesOf(s.nextfree, n2)
  <2>1. boot_alloc(s.nextfree, PGSIZE) = n2
    BY <1>2
  <2> HIDE DEF n2, n1
  <2>2. QED
    BY <1>1, <2>1, AfterAllocFields
<1>4. n2 \in Nat /\ n2 <= FirstFree(mc)
  BY <1>1, BootAllocs
<1>5. \A p \in PagesOf(s.nextfree, n2) : EntryMaps(p)
  BY <1>1, <1>4, GivenOutMapped
<1>6. d = BootPage(n1)
  BY <1>2
<1> HIDE DEF b, n1, n2, d
<1>7. a = [pc |-> b.pc, mc |-> b.mc, nextfree |-> b.nextfree, pgdir |-> d,
           m |-> b.m, touched |-> b.touched, asserts |-> b.asserts]
  BY <1>3 DEF IsBootState
<1> HIDE DEF a
<1>8. /\ IsBootState(a) /\ a.pc = "alloc_envs" /\ a.mc = mc
      /\ a.nextfree = n2 /\ a.m = s.m /\ a.asserts = s.asserts
      /\ a.touched = s.touched \cup PagesOf(s.nextfree, n2) /\ a.pgdir = d
  BY <1>3, <1>7 DEF IsBootState
<1>9. BootPhase(a)
  BY <1>2, <1>6, <1>8 DEF BootPhase, n1, n2
<1>10. BootOK(a)
  BY <1>1, <1>5, <1>8, <1>9 DEF BootOK
<1>11. QED
  BY <1>10 DEF a, b, d

(* The envs array. *)
LEMMA AllocEnvsOK ==
  ASSUME NEW s, BootOK(s), s.pc = "alloc_envs"
  PROVE  BootOK(AfterAlloc(s, EnvsSize, "page_init"))
<1> DEFINE mc == s.mc
           a == AfterAlloc(s, EnvsSize, "page_init")
           ff == FirstFree(mc)
           d == BootPage(AfterPages(mc))
<1>1. /\ IsBootState(s) /\ mc \in Machine /\ Supported(mc)
      /\ \A p \in s.touched : EntryMaps(p)
      /\ BootPhase(s)
  BY DEF BootOK
<1>2. /\ s.m = Bss /\ s.asserts /\ s.pgdir = d
      /\ s.nextfree = boot_alloc(AfterPages(mc), PGSIZE)
  BY <1>1 DEF BootPhase
<1>3. boot_alloc(s.nextfree, EnvsSize) = ff
  BY <1>1, <1>2, BootAllocs
<1>4. /\ IsBootState(a) /\ a.pc = "page_init" /\ a.mc = mc
      /\ a.nextfree = ff /\ a.m = s.m /\ a.asserts = s.asserts
      /\ a.pgdir = s.pgdir
      /\ a.touched = s.touched \cup PagesOf(s.nextfree, ff)
  BY <1>1, <1>3, AfterAllocFields
<1>5. ff \in Nat
  BY <1>1, MachinePages
<1>6. \A p \in PagesOf(s.nextfree, ff) : EntryMaps(p)
  BY <1>1, <1>5, GivenOutMapped
<1> HIDE DEF a, d, ff
<1>7. BootPhase(a)
  BY <1>2, <1>4 DEF BootPhase, d, ff
<1>8. BootOK(a)
  BY <1>1, <1>4, <1>6, <1>7 DEF BootOK
<1>9. QED
  BY <1>8 DEF a

(* mem_init goes on to the place next with the memory f. *)
LEMMA GoOnFields ==
  ASSUME NEW s, IsBootState(s), NEW f, NEW next
  PROVE  [s EXCEPT !.pc = next, !.m = f] =
           [pc |-> next, mc |-> s.mc, nextfree |-> s.nextfree,
            pgdir |-> s.pgdir, m |-> f, touched |-> s.touched,
            asserts |-> s.asserts]
<1> DEFINE a == [s EXCEPT !.pc = next, !.m = f]
<1>1. a = [s EXCEPT !.pc = next, !.m = f]
  OBVIOUS
<1> HIDE DEF a
<1>2. a = [pc |-> next, mc |-> s.mc, nextfree |-> s.nextfree,
           pgdir |-> s.pgdir, m |-> f, touched |-> s.touched,
           asserts |-> s.asserts]
  BY <1>1 DEF IsBootState
<1>3. QED
  BY <1>2 DEF a

(* page_init. *)
LEMMA PageInitStepOK ==
  ASSUME NEW s, BootOK(s), s.pc = "page_init"
  PROVE  BootOK([s EXCEPT !.pc = "check_page_free_list",
                          !.m = page_init(s.mc, s.nextfree)])
<1> DEFINE mc == s.mc
           f == page_init(mc, s.nextfree)
           a == [s EXCEPT !.pc = "check_page_free_list", !.m = f]
           ff == FirstFree(mc)
           d == BootPage(AfterPages(mc))
<1>1. /\ IsBootState(s) /\ mc \in Machine /\ Supported(mc)
      /\ \A p \in s.touched : EntryMaps(p)
      /\ BootPhase(s)
  BY DEF BootOK
<1>2. /\ s.asserts /\ s.pgdir = d /\ s.nextfree = ff
  BY <1>1 DEF BootPhase
<1>3. /\ f = page_init(mc, ff)
      /\ Testable(f) /\ Listed(f.page_free_list) = FreeAtBoot(mc)
      /\ \A p \in Page : f.frame[p] = Zero
  BY <1>1, <1>2, PageInitOK
<1>4. d \in Page
  BY <1>1, PgdirPage
<1> HIDE DEF f, d, ff
<1>5. \A k \in Ptx : f.frame[d][k] = NULL
  BY <1>3, <1>4, EntryFacts
<1>6. Untouched(f, mc, d)
  BY <1>3, <1>5 DEF Untouched, AsMade, ff
<1>7. a = [pc |-> "check_page_free_list", mc |-> mc, nextfree |-> s.nextfree,
           pgdir |-> s.pgdir, m |-> f, touched |-> s.touched,
           asserts |-> s.asserts]
  BY <1>1, GoOnFields
<1> HIDE DEF a
<1>8. /\ IsBootState(a) /\ a.pc = "check_page_free_list" /\ a.mc = mc
      /\ a.nextfree = ff /\ a.m = f /\ a.asserts = s.asserts
      /\ a.touched = s.touched /\ a.pgdir = d
  BY <1>2, <1>7 DEF IsBootState
<1>9. BootPhase(a)
  BY <1>2, <1>6, <1>8 DEF BootPhase, d, ff
<1>10. BootOK(a)
  BY <1>1, <1>8, <1>9 DEF BootOK
<1>11. QED
  BY <1>10 DEF a, f

(* check_page_free_list: it can fail at the page of MPENTRY_PADDR only. *)
LEMMA CheckListStepOK ==
  ASSUME NEW s, BootOK(s), s.pc = "check_page_free_list"
  PROVE  BootOK(AfterTest(s, check_page_free_list(s.m, s.mc, s.nextfree),
                          "check_page_alloc"))
<1> DEFINE mc == s.mc
           d == BootPage(AfterPages(mc))
           r == check_page_free_list(s.m, mc, s.nextfree)
           a == AfterTest(s, r, "check_page_alloc")
<1>1. /\ IsBootState(s) /\ mc \in Machine /\ Supported(mc)
      /\ \A p \in s.touched : EntryMaps(p)
      /\ BootPhase(s)
  BY DEF BootOK
<1>2. /\ s.asserts /\ s.pgdir = d /\ s.nextfree = FirstFree(mc)
      /\ Untouched(s.m, mc, d)
  BY <1>1 DEF BootPhase
<1>3. d \in Page /\ d \notin FreeAtBoot(mc)
  BY <1>1, PgdirPage
<1>4. r = check_page_free_list(s.m, mc, FirstFree(mc))
  BY <1>2
<1> HIDE DEF d
<1>5. /\ \A p \in r.touched : EntryMaps(p)
      /\ Untouched(r.m, mc, d)
      /\ EntryMaps(r.m.page_free_list[1])
      /\ EntryMaps(r.m.page_free_list[3])
  BY <1>1, <1>2, <1>3, <1>4, CheckListOK
<1>6. BootPage(mc.mpentry) \notin FreeAtBoot(mc) => r.asserts
  <2>1. Listed(s.m.page_free_list) = FreeAtBoot(mc)
    BY <1>2 DEF Untouched, AsMade
  <2>2. QED
    BY <1>1, <1>4, <2>1, ListAsserts
<1> HIDE DEF r
<1>7. /\ IsBootState(a) /\ a.mc = mc /\ a.nextfree = s.nextfree
      /\ a.pgdir = s.pgdir /\ a.touched = s.touched \cup r.touched
      /\ a.asserts = r.asserts
      /\ r.asserts => a.pc = "check_page_alloc" /\ a.m = r.m
      /\ ~r.asserts => a.pc = "done" /\ a.m = s.m
  BY <1>1, AfterTestFields
<1> HIDE DEF a
<1>8. AsMade(s.m, mc, d)
  BY <1>2 DEF Untouched
<1>9. CASE r.asserts
  <2>1. a.pc = "check_page_alloc" /\ a.m = r.m /\ a.asserts
    BY <1>7, <1>9, Zenon
  <2>2. BootPhase(a)
    BY <1>2, <1>5, <1>7, <2>1 DEF BootPhase, d
  <2>3. BootOK(a)
    BY <1>1, <1>5, <1>7, <2>2 DEF BootOK
  <2>4. QED
    BY <2>3 DEF a, r
<1>10. CASE ~r.asserts
  <2>1. a.pc = "done" /\ a.m = s.m /\ BootPage(mc.mpentry) \in FreeAtBoot(mc)
    BY <1>6, <1>7, <1>10, Zenon
  <2>2. BootPhase(a)
    BY <1>2, <1>7, <1>8, <2>1 DEF BootPhase, d
  <2>3. BootOK(a)
    BY <1>1, <1>5, <1>7, <2>2 DEF BootOK
  <2>4. QED
    BY <2>3 DEF a, r
<1>11. QED
  BY <1>9, <1>10

(* check_page_alloc. *)
LEMMA CheckAllocStepOK ==
  ASSUME NEW s, BootOK(s), s.pc = "check_page_alloc"
  PROVE  BootOK(AfterTest(s, check_page_alloc(s.m), "check_page"))
<1> DEFINE mc == s.mc
           d == BootPage(AfterPages(mc))
           r == check_page_alloc(s.m)
           a == AfterTest(s, r, "check_page")
<1>1. /\ IsBootState(s) /\ mc \in Machine /\ Supported(mc)
      /\ \A p \in s.touched : EntryMaps(p)
      /\ BootPhase(s)
  BY DEF BootOK
<1>2. /\ s.asserts /\ s.pgdir = d /\ s.nextfree = FirstFree(mc)
      /\ Untouched(s.m, mc, d)
      /\ EntryMaps(s.m.page_free_list[1])
      /\ EntryMaps(s.m.page_free_list[3])
  BY <1>1 DEF BootPhase
<1>3. d \in Page /\ d \notin FreeAtBoot(mc)
  BY <1>1, PgdirPage
<1> HIDE DEF d
<1>4. Testable(s.m) /\ AsMade(s.m, mc, d)
  BY <1>2 DEF Untouched
<1>5. /\ r.asserts /\ r.touched = {s.m.page_free_list[3]}
      /\ Testable(r.m) /\ r.m.pp_ref = s.m.pp_ref
      /\ Listed(r.m.page_free_list) = Listed(s.m.page_free_list)
      /\ Len(r.m.page_free_list) = Len(s.m.page_free_list)
      /\ r.m.page_free_list[1] = s.m.page_free_list[1]
      /\ \A p \in Page \ Listed(s.m.page_free_list) :
           r.m.frame[p] = s.m.frame[p]
  BY <1>4, CheckAllocOK
<1> HIDE DEF r
<1>6. Untouched(r.m, mc, d)
  BY <1>3, <1>4, <1>5 DEF Untouched, AsMade
<1>7. /\ IsBootState(a) /\ a.mc = mc /\ a.nextfree = s.nextfree
      /\ a.pgdir = s.pgdir /\ a.touched = s.touched \cup r.touched
      /\ a.asserts = r.asserts
      /\ r.asserts => a.pc = "check_page" /\ a.m = r.m
  BY <1>1, AfterTestFields
<1> HIDE DEF a
<1>8. a.pc = "check_page" /\ a.m = r.m /\ a.asserts
  BY <1>5, <1>7, Zenon
<1>9. EntryMaps(a.m.page_free_list[1]) /\ \A p \in r.touched : EntryMaps(p)
  BY <1>2, <1>5, <1>8
<1>10. BootPhase(a)
  BY <1>2, <1>6, <1>7, <1>8, <1>9 DEF BootPhase, d
<1>11. BootOK(a)
  BY <1>1, <1>7, <1>9, <1>10 DEF BootOK
<1>12. QED
  BY <1>11 DEF a, r

(* check_page. *)
LEMMA CheckPageStepOK ==
  ASSUME NEW s, BootOK(s), s.pc = "check_page"
  PROVE  BootOK(AfterTest(s, check_page(s.m, s.pgdir), "done"))
<1> DEFINE mc == s.mc
           d == BootPage(AfterPages(mc))
           r == check_page(s.m, s.pgdir)
           a == AfterTest(s, r, "done")
<1>1. /\ IsBootState(s) /\ mc \in Machine /\ Supported(mc)
      /\ \A p \in s.touched : EntryMaps(p)
      /\ BootPhase(s)
  BY DEF BootOK
<1>2. /\ s.asserts /\ s.pgdir = d /\ s.nextfree = FirstFree(mc)
      /\ Untouched(s.m, mc, d)
      /\ EntryMaps(s.m.page_free_list[1])
  BY <1>1 DEF BootPhase
<1>3. /\ d \in Page /\ d \notin FreeAtBoot(mc) /\ d \in Nat
      /\ d < BootPage(FirstFree(mc))
  BY <1>1, PgdirPage
<1>4. EntryMaps(d)
  BY <1>1, <1>3, LowMapped
<1> HIDE DEF d
<1>5. /\ Testable(s.m) /\ AsMade(s.m, mc, d)
      /\ d \notin Listed(s.m.page_free_list)
      /\ \A k \in Ptx : s.m.frame[d][k] = NULL
  BY <1>2, <1>3 DEF Untouched, AsMade
<1>6. /\ r.asserts /\ r.touched = {s.m.page_free_list[1], d}
      /\ r.m.pp_ref = s.m.pp_ref
      /\ Listed(r.m.page_free_list) = Listed(s.m.page_free_list)
      /\ Len(r.m.page_free_list) = Len(s.m.page_free_list)
      /\ \A k \in Ptx : r.m.frame[d][k] = NULL
  <2>1. r = check_page(s.m, d)
    BY <1>2
  <2> HIDE DEF r
  <2>2. QED
    BY <1>3, <1>5, <2>1, CheckPageOK
<1> HIDE DEF r
<1>7. AsMade(r.m, mc, d)
  BY <1>5, <1>6 DEF AsMade
<1>8. /\ IsBootState(a) /\ a.mc = mc /\ a.nextfree = s.nextfree
      /\ a.pgdir = s.pgdir /\ a.touched = s.touched \cup r.touched
      /\ a.asserts = r.asserts
      /\ r.asserts => a.pc = "done" /\ a.m = r.m
  BY <1>1, AfterTestFields
<1> HIDE DEF a
<1>9. a.pc = "done" /\ a.m = r.m /\ a.asserts
  BY <1>6, <1>8, Zenon
<1>10. \A p \in r.touched : EntryMaps(p)
  BY <1>2, <1>4, <1>6
<1>11. BootPhase(a)
  BY <1>2, <1>7, <1>8, <1>9 DEF BootPhase, d
<1>12. BootOK(a)
  BY <1>1, <1>8, <1>10, <1>11 DEF BootOK
<1>13. QED
  BY <1>12 DEF a, r

------------------------------------------------------------------------------
(* The invariant holds when mem_init has read the size of memory. *)
LEMMA BootStarts == BootMemInit => BootInv
<1>1. SUFFICES ASSUME BootMemInit PROVE BootInv
  OBVIOUS
<1>2. job = "mem_init"
  BY <1>1 DEF BootMemInit
<1>3. PICK mc \in {x \in Machine : Supported(x)} :
        st = [pc |-> "alloc_pages", mc |-> mc,
              nextfree |-> RoundUp(mc.end, PGSIZE), pgdir |-> NULL,
              m |-> Bss, touched |-> {}, asserts |-> TRUE]
  BY <1>1 DEF BootMemInit
<1>4. /\ st.pc = "alloc_pages" /\ st.mc = mc /\ st.m = Bss
      /\ st.nextfree = RoundUp(mc.end, PGSIZE) /\ st.touched = {}
      /\ st.pgdir = NULL
  BY <1>3
<1>5. st.asserts = TRUE
  BY <1>3, Zenon
<1>6. IsBootState(st)
  BY <1>3, <1>4, <1>5 DEF IsBootState
<1>7. BootPhase(st)
  BY <1>4, <1>5 DEF BootPhase
<1>8. QED
  BY <1>2, <1>3, <1>4, <1>6, <1>7 DEF BootInv, BootOK

(* Every step of mem_init keeps it. *)
LEMMA BootSteps == BootInv /\ [BootMemNext]_routineVars => BootInv'
<1>1. SUFFICES ASSUME BootInv, [BootMemNext]_routineVars PROVE BootInv'
  OBVIOUS
<1>2. job = "mem_init" /\ BootOK(st)
  BY <1>1 DEF BootInv
<1>3. ASSUME NEW s, Becomes(s), BootOK(s) PROVE BootInv'
  <2>1. st' = s /\ job' = job
    BY <1>3 DEF Becomes
  <2>2. BootOK(st')
    BY <1>3, <2>1
  <2>3. BootOK(st)' <=> BootOK(st')
    BY DEF BootOK, BootPhase, IsBootState
  <2>4. QED
    BY <1>2, <2>1, <2>2 DEF BootInv
<1>4. CASE AllocPages
  BY <1>2, <1>3, <1>4, AllocPagesOK DEF AllocPages, At
<1>5. CASE AllocPgdir
  BY <1>2, <1>3, <1>5, AllocPgdirOK DEF AllocPgdir, At
<1>6. CASE AllocEnvs
  BY <1>2, <1>3, <1>6, AllocEnvsOK DEF AllocEnvs, At
<1>7. CASE PageInit
  BY <1>2, <1>3, <1>7, PageInitStepOK DEF PageInit, At
<1>8. CASE CheckPageFreeList
  BY <1>2, <1>3, <1>8, CheckListStepOK DEF CheckPageFreeList, At
<1>9. CASE CheckPageAlloc
  BY <1>2, <1>3, <1>9, CheckAllocStepOK DEF CheckPageAlloc, At
<1>10. CASE CheckPage
  BY <1>2, <1>3, <1>10, CheckPageStepOK DEF CheckPage, At
<1>11. CASE UNCHANGED routineVars
  BY <1>2, <1>11 DEF routineVars, BootInv
<1>12. QED
  BY <1>1, <1>4, <1>5, <1>6, <1>7, <1>8, <1>9, <1>10, <1>11 DEF BootMemNext

(* The free list is empty, or has the pages that page_init put there. *)
LEMMA FreeListIs ==
  ASSUME NEW s, BootOK(s)
  PROVE  OnFreeList(s.m) \in {{}, FreeAtBoot(s.mc)}
<1>1. OnFreeList(s.m) = Listed(s.m.page_free_list)
  BY DEF OnFreeList, Listed
<1>2. BootPhase(s)
  BY DEF BootOK
<1>3. s.m = Bss \/ Listed(s.m.page_free_list) = FreeAtBoot(s.mc)
  BY <1>2 DEF BootPhase, Untouched, AsMade
<1>4. Listed(Bss.page_free_list) = {}
  <2>1. Bss.page_free_list = <<>>
    BY DEF Bss
  <2>2. QED
    BY <2>1 DEF Listed
<1>5. QED
  BY <1>1, <1>3, <1>4

(* No reserved page is ever on the free list. *)
LEMMA BootReserved == BootInv => ReservedNeverFree
<1>1. SUFFICES ASSUME BootInv, NEW p \in OnFreeList(st.m)
               PROVE  /\ p # 0 /\ p < NPages(st.mc)
                      /\ ~(IOPHYSMEM <= p * PGSIZE
                           /\ p * PGSIZE < FirstFree(st.mc))
  BY DEF ReservedNeverFree
<1> DEFINE mc == st.mc
           io == BootPage(IOPHYSMEM)
           ff == BootPage(FirstFree(mc))
<1>2. BootOK(st) /\ mc \in Machine /\ Supported(mc)
  BY <1>1 DEF BootInv, BootOK
<1>3. p \in FreeAtBoot(mc)
  <2>1. OnFreeList(st.m) \in {{}, FreeAtBoot(mc)}
    BY <1>2, FreeListIs
  <2>2. QED
    BY <1>1, <2>1
<1>4. /\ p \in Nat /\ p < NPages(mc) /\ p # 0 /\ (p < io \/ p >= ff)
  BY <1>2, <1>3, FreeAtBootFacts
<1>5. /\ io \in Nat /\ ff \in Nat /\ ff * PGSIZE = FirstFree(mc)
  BY <1>2, MachinePages
<1>6. io * PGSIZE = IOPHYSMEM
  <2>1. IOPHYSMEM \in Nat /\ IOPHYSMEM % PGSIZE = 0
    BY BootConstants, BootMemAssumption
  <2>2. QED
    BY <2>1, PageOf
<1> HIDE DEF io, ff
<1>7. /\ p < io => p * PGSIZE < io * PGSIZE
      /\ ff <= p => ff * PGSIZE <= p * PGSIZE
      /\ p * PGSIZE \in Nat /\ io * PGSIZE \in Nat /\ ff * PGSIZE \in Nat
  BY <1>4, <1>5, PageOrder
<1> DEFINE x == p * PGSIZE
<1>8. x \in Nat /\ IOPHYSMEM \in Nat /\ FirstFree(mc) \in Nat
      /\ (x < IOPHYSMEM \/ FirstFree(mc) <= x)
  <2>1. p < io \/ ff <= p
    BY <1>4, <1>5
  <2>2. QED
    BY <1>5, <1>6, <1>7, <2>1
<1> HIDE DEF x
<1>9. ~(IOPHYSMEM <= x /\ x < FirstFree(mc))
  BY <1>8
<1>10. QED
  BY <1>4, <1>9 DEF x

(* What the self-tests find, and leave. *)
LEMMA BootTests == BootInv => SelfTestsExact
<1> DEFINE mc == st.mc
           d == BootPage(AfterPages(mc))
           f == page_init(mc, st.nextfree)
           free == BootPage(mc.mpentry) \in OnFreeList(f)
<1>1. SUFFICES ASSUME BootInv
               PROVE  /\ ~st.asserts => free
                      /\ st.pc \in {"check_page", "done"} =>
                           \/ free /\ ~st.asserts
                           \/ /\ OnFreeList(st.m) = OnFreeList(f)
                              /\ Len(st.m.page_free_list)
                                   = Len(f.page_free_list)
                              /\ st.m.pp_ref = f.pp_ref
                              /\ \A i \in Pdx : ~HasTable(st.m, st.pgdir, i)
  BY DEF SelfTestsExact
<1>2. BootPhase(st) /\ mc \in Machine /\ Supported(mc)
  BY <1>1 DEF BootInv, BootOK
<1>3. CASE st.pc \in {"check_page", "done"}
  <2>1. /\ st.nextfree = FirstFree(mc) /\ st.pgdir = d
        /\ AsMade(st.m, mc, d)
        /\ st.asserts \/ BootPage(mc.mpentry) \in FreeAtBoot(mc)
    BY <1>2, <1>3 DEF BootPhase, Untouched
  <2>2. f = page_init(mc, FirstFree(mc))
    BY <2>1
  <2>3. OnFreeList(f) = FreeAtBoot(mc)
    <3>1. Listed(f.page_free_list) = FreeAtBoot(mc)
      BY <1>2, <2>2, PageInitOK
    <3> HIDE DEF f
    <3>2. QED
      BY <3>1 DEF OnFreeList, Listed
  <2> HIDE DEF f, d
  <2>4. /\ Listed(st.m.page_free_list) = FreeAtBoot(mc)
        /\ Len(st.m.page_free_list) = Len(f.page_free_list)
        /\ st.m.pp_ref = f.pp_ref
        /\ \A k \in Ptx : st.m.frame[d][k] = NULL
    BY <2>1, <2>2 DEF AsMade
  <2>5. OnFreeList(st.m) = FreeAtBoot(mc)
    BY <2>4 DEF OnFreeList, Listed
  <2>6. \A i \in Pdx : ~HasTable(st.m, st.pgdir, i)
    BY <2>1, <2>4, EntryFacts DEF HasTable
  <2>7. ~st.asserts => free
    BY <2>1, <2>3
  <2>8. QED
    BY <2>3, <2>4, <2>5, <2>6, <2>7
<1>4. CASE st.pc \notin {"check_page", "done"}
  <2>1. st.asserts
    BY <1>2, <1>4 DEF BootPhase
  <2>2. QED
    BY <1>4, <2>1
<1>5. QED
  BY <1>3, <1>4

(* BootInv is an invariant of mem_init. *)
LEMMA BootInvariant == BootMemSpec => []BootInv
BY BootStarts, BootSteps, PTL DEF BootMemSpec

(* On every machine the kernel is meant for, whatever its size, boot_alloc *)
(* and page_init keep the pages that are reserved off the free list.       *)
THEOREM BootReservedPages == BootMemSpec => []ReservedNeverFree
<1>1. BootInv => ReservedNeverFree
  BY BootReserved
<1>2. QED
  BY <1>1, BootInvariant, PTL

(* Until it has a directory of its own mem_init writes to no page that     *)
(* entry_pgdir does not map, its self-tests included.                      *)
THEOREM BootAccessesMapped == BootMemSpec => []EarlyAccessMapped
<1>1. BootInv => EarlyAccessMapped
  BY DEF BootInv, BootOK, EarlyAccessMapped
<1>2. QED
  BY <1>1, BootInvariant, PTL

(* check_page_free_list, check_page_alloc and check_page fail for one      *)
(* reason only, that the page at MPENTRY_PADDR is free, and when they pass *)
(* they leave the free pages and the counts as they were.                  *)
THEOREM BootSelfTests == BootMemSpec => []SelfTestsExact
<1>1. BootInv => SelfTestsExact
  BY BootTests
<1>2. QED
  BY <1>1, BootInvariant, PTL
=============================================================================

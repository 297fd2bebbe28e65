---------------------------- MODULE RoutineProofs ----------------------------
(***************************************************************************)
(* Proofs about the routines that run undisturbed: what the answer of      *)
(* user_mem_check means, a trap is transparent to the program it           *)
(* interrupts, bootmain loads the kernel and load_icode a program, no      *)
(* modifier of the keyboard sticks, stab_binsearch finds the stab that is  *)
(* meant, runcmd makes words of a command line, and vprintfmt prints       *)
(* numbers right and loses nothing of what it prints.                      *)
(***************************************************************************)
EXTENDS UserMem, Traps, BootLoader, Keyboard, StabSearch, Monitor, Printing,
        Induction, SequenceTheorems, FiniteSetTheorems, TLAPS

------------------------------------------------------------------------------
(* Rounding. *)
LEMMA RoundDownFacts ==
  ASSUME NEW a \in Nat, NEW size \in Nat \ {0}
  PROVE  /\ RoundDown(a, size) \in Nat /\ RoundDown(a, size) % size = 0
         /\ RoundDown(a, size) <= a /\ a < RoundDown(a, size) + size
<1> DEFINE q == a \div size
<1>1. q \in Nat /\ a = size * q + (a % size) /\ a % size \in 0 .. size - 1
  OBVIOUS
<1>2. RoundDown(a, size) = size * q
  BY <1>1 DEF RoundDown
<1> HIDE DEF q
<1>3. size * q \in Nat /\ size * q <= a /\ a < size * q + size
  BY <1>1
<1>4. (size * q) % size = 0
  BY <1>1
<1>5. QED
  BY <1>2, <1>3, <1>4

(* Multiples less than size apart are the same. *)
LEMMA Multiples ==
  ASSUME NEW size \in Nat \ {0}, NEW x \in Nat, NEW y \in Nat,
         x % size = 0, y % size = 0, x < y
  PROVE  x + size <= y
<1> DEFINE i == x \div size
           j == y \div size
<1>1. i \in Nat /\ j \in Nat /\ x = size * i + (x % size)
      /\ y = size * j + (y % size)
  OBVIOUS
<1>2. x = size * i /\ y = size * j
  BY <1>1
<1> HIDE DEF i, j
<1>3. i < j
  BY <1>1, <1>2
<1>4. i + 1 <= j
  BY <1>1, <1>3
<1>5. size * (i + 1) <= size * j
  BY <1>1, <1>4
<1>6. size * (i + 1) = size * i + size
  BY <1>1
<1>7. QED
  BY <1>2, <1>5, <1>6

(* The multiple of size at most size - 1 below a. *)
LEMMA RoundDownUnique ==
  ASSUME NEW size \in Nat \ {0}, NEW a \in Nat, NEW x \in Nat,
         x % size = 0, x <= a, a < x + size
  PROVE  RoundDown(a, size) = x
<1> DEFINE r == RoundDown(a, size)
<1>1. r \in Nat /\ r % size = 0 /\ r <= a /\ a < r + size
  BY RoundDownFacts
<1> HIDE DEF r
<1>2. ASSUME x < r PROVE FALSE
  <2>1. x + size <= r
    BY <1>1, <1>2, Multiples
  <2>2. QED
    BY <1>1, <2>1
<1>3. ASSUME r < x PROVE FALSE
  <2>1. r + size <= x
    BY <1>1, <1>3, Multiples
  <2>2. QED
    BY <1>1, <2>1
<1>4. r = x
  BY <1>1, <1>2, <1>3
<1>5. QED
  BY <1>4 DEF r

(* The multiples are size apart. *)
LEMMA NextMultiple ==
  ASSUME NEW size \in Nat \ {0}, NEW x \in Nat, x % size = 0
  PROVE  (x + size) % size = 0
<1>1. PICK i \in Nat : x = size * i
  <2>1. x \div size \in Nat /\ x = size * (x \div size) + (x % size)
    OBVIOUS
  <2>2. x = size * (x \div size)
    BY <2>1
  <2>3. QED
    BY <2>1, <2>2
<1>2. x + size = size * (i + 1)
  BY <1>1
<1>3. (size * (i + 1)) % size = 0
  BY <1>1
<1>4. QED
  BY <1>2, <1>3

------------------------------------------------------------------------------
(* user_mem_check: before the call the range is given; in the loop all the *)
(* pages of the range below begin may be accessed.                         *)
UAddr == 0 .. AddrMod - 1

UserMemType ==
  /\ job = "user_mem_check"
  /\ st \in [pc : {"call", "loop", "done"}, pte : [PageStarts -> PteBits],
             va : UAddr, len : UAddr, perm : {{"U"}, {"U", "W"}},
             begin : UAddr, end : UAddr, user_mem_check_addr : UAddr,
             ret : {"none", "ok", "E_FAULT"}]

(* The rounded end against how far the check is said to look. *)
EndOf(s, e) ==
  /\ CheckedTo(s) \in Nat /\ CheckedTo(s) <= e
  /\ RoundDown(s.va, UPGSIZE) < e =>
       e < CheckedTo(s) + UPGSIZE /\ (s.len > 0 => s.va < CheckedTo(s))

PagesPassed(s) ==
  /\ s.begin % UPGSIZE = 0 /\ s.end % UPGSIZE = 0
  /\ RoundDown(s.va, UPGSIZE) <= s.begin
  /\ \A a \in PageStarts :
       RoundDown(s.va, UPGSIZE) <= a /\ a < s.begin => Accessible(s, a)
  /\ EndOf(s, s.end)

UserMemInv ==
  /\ UserMemType
  /\ st.pc = "loop" => PagesPassed(st)
  /\ UserMemExact

(* All bytes of a page are accessible, or none. *)
LEMMA PageAccess ==
  ASSUME NEW s, NEW a \in UAddr
  PROVE  /\ RoundDown(a, UPGSIZE) \in PageStarts
         /\ Accessible(s, a) <=> Accessible(s, RoundDown(a, UPGSIZE))
<1> DEFINE r == RoundDown(a, UPGSIZE)
<1>0. UPGSIZE \in Nat \ {0} /\ ULIM \in Nat /\ ULIM % UPGSIZE = 0
      /\ AddrMod \in Nat /\ a \in Nat
  BY UserMemAssumption DEF UAddr
<1>1. r \in Nat /\ r % UPGSIZE = 0 /\ r <= a /\ a < r + UPGSIZE
  BY <1>0, RoundDownFacts
<1>2. r \in PageStarts
  BY <1>0, <1>1 DEF PageStarts, UAddr
<1>3. RoundDown(r, UPGSIZE) = r
  <2> HIDE DEF r
  <2>1. r <= r /\ r < r + UPGSIZE
    BY <1>0, <1>1
  <2>2. QED
    BY <1>0, <1>1, <2>1, RoundDownUnique
<1>4. a < ULIM <=> r < ULIM
  <2> HIDE DEF r
  <2>1. a < ULIM => r < ULIM
    BY <1>0, <1>1
  <2>2. ASSUME r < ULIM PROVE a < ULIM
    <3>1. r + UPGSIZE <= ULIM
      BY <1>0, <1>1, <2>2, Multiples
    <3>2. QED
      BY <1>0, <1>1, <3>1
  <2>3. QED
    BY <2>1, <2>2
<1> HIDE DEF r
<1>5. RoundDown(a, UPGSIZE) = r
  BY DEF r
<1>6. QED
  BY <1>2, <1>3, <1>4, <1>5 DEF Accessible

(* The end of the range, rounded up, with or without wrapping around. *)
LEMMA RangeEnd ==
  ASSUME NEW s, s.va \in UAddr, s.len \in UAddr
  PROVE  LET e == RoundDown((s.va + s.len + UPGSIZE - 1) % AddrMod, UPGSIZE)
         IN  e \in UAddr /\ e % UPGSIZE = 0 /\ EndOf(s, e)
<1> DEFINE v == s.va
           l == s.len
           y == v + l + UPGSIZE - 1
           x == y % AddrMod
           e == RoundDown(x, UPGSIZE)
           r == RoundDown(v, UPGSIZE)
<1>1. /\ v \in Nat /\ l \in Nat /\ v < AddrMod /\ l < AddrMod
      /\ UPGSIZE \in Nat \ {0} /\ AddrMod \in Nat \ {0}
      /\ AddrMod % UPGSIZE = 0
  BY UserMemAssumption DEF UAddr
<1>2. CheckedTo(s) =
        IF v + l <= AddrMod - UPGSIZE THEN v + l
        ELSE IF v + l <= AddrMod + r \/ v >= AddrMod - UPGSIZE THEN 0
        ELSE r + UPGSIZE
  BY DEF CheckedTo
<1>3. r \in Nat /\ r % UPGSIZE = 0 /\ r <= v /\ v < r + UPGSIZE
  BY <1>1, RoundDownFacts
<1> HIDE DEF v, l, r
<1>m. (r + UPGSIZE) % UPGSIZE = 0 /\ r + UPGSIZE \in Nat
  <2>1. r \in Nat /\ r % UPGSIZE = 0 /\ UPGSIZE \in Nat \ {0}
    BY <1>1, <1>3
  <2>2. (r + UPGSIZE) % UPGSIZE = 0
    BY <2>1, NextMultiple
  <2>3. r + UPGSIZE \in Nat
    BY <2>1
  <2>4. QED
    BY <2>2, <2>3
<1>4. y \in Nat
  BY <1>1
<1>5. x \in Nat /\ x < AddrMod /\ x <= y /\ (y < AddrMod => x = y)
  <2> HIDE DEF y
  <2>1. QED
    BY <1>1, <1>4
<1>6. y >= AddrMod /\ y < AddrMod + AddrMod => x = y - AddrMod
  <2> HIDE DEF y
  <2>1. QED
    BY <1>1, <1>4
<1>7. e \in Nat /\ e % UPGSIZE = 0 /\ e <= x /\ x < e + UPGSIZE
  <2> HIDE DEF x
  <2>1. QED
    BY <1>1, <1>5, RoundDownFacts
<1> HIDE DEF x
<1>8. e \in UAddr
  <2> HIDE DEF e
  <2>1. QED
    BY <1>1, <1>5, <1>7 DEF UAddr
<1>9. r + UPGSIZE <= AddrMod /\ e + UPGSIZE <= AddrMod
  <2> HIDE DEF e
  <2>1. r < AddrMod /\ e < AddrMod
    BY <1>1, <1>3, <1>5, <1>7
  <2>2. QED
    BY <1>1, <1>3, <1>7, <2>1, Multiples
<1>10. /\ CheckedTo(s) \in Nat /\ CheckedTo(s) <= e
       /\ r < e => e < CheckedTo(s) + UPGSIZE /\ (l > 0 => v < CheckedTo(s))
  <2>1. CASE v + l <= AddrMod - UPGSIZE
    <3>1. y < AddrMod
      BY <1>1, <2>1
    <3>2. x = y /\ CheckedTo(s) = v + l
      BY <1>2, <1>5, <2>1, <3>1
    <3> HIDE DEF e
    <3>3. QED
      BY <1>1, <1>7, <3>2
  <2>2. CASE v + l > AddrMod - UPGSIZE /\ v >= AddrMod - UPGSIZE
    <3>1. CheckedTo(s) = 0
      BY <1>1, <1>2, <2>2
    <3>2. r >= AddrMod - UPGSIZE
      <4>1. SUFFICES ASSUME r + UPGSIZE < AddrMod PROVE FALSE
        BY <1>1, <1>3
      <4>2. (r + UPGSIZE) % UPGSIZE = 0 /\ r + UPGSIZE \in Nat
        BY <1>m
      <4>3. (r + UPGSIZE) + UPGSIZE <= AddrMod
        BY <1>1, <4>1, <4>2, Multiples
      <4>4. QED
        BY <1>1, <1>3, <2>2, <4>3
    <3> HIDE DEF e
    <3>3. QED
      BY <1>1, <1>3, <1>7, <1>9, <3>1, <3>2
  <2>3. CASE v + l > AddrMod - UPGSIZE /\ v < AddrMod - UPGSIZE
    <3>1. x = y - AddrMod
      <4>1. y >= AddrMod /\ y < AddrMod + AddrMod
        BY <1>1, <2>3
      <4>2. QED
        BY <1>6, <4>1
    <3>2. CASE v + l <= AddrMod + r
      <4>1. CheckedTo(s) = 0
        BY <1>1, <1>2, <2>3, <3>2
      <4>2. ~(r < e)
        <5> HIDE DEF e
        <5>1. SUFFICES ASSUME r < e PROVE FALSE
          OBVIOUS
        <5>2. r + UPGSIZE <= e
          BY <1>1, <1>3, <1>7, <5>1, Multiples
        <5>3. QED
          BY <1>1, <1>3, <1>7, <3>1, <3>2, <5>2
      <4> HIDE DEF e
      <4>3. QED
        BY <1>7, <4>1, <4>2
    <3>3. CASE v + l > AddrMod + r
      <4>1. CheckedTo(s) = r + UPGSIZE
        BY <1>1, <1>2, <1>3, <2>3, <3>3
      <4>2. r + UPGSIZE <= x /\ x < (r + UPGSIZE) + UPGSIZE
        BY <1>1, <1>3, <3>1, <3>3
      <4>3. (r + UPGSIZE) % UPGSIZE = 0 /\ r + UPGSIZE \in Nat
        BY <1>m
      <4>4. e = r + UPGSIZE
        BY <1>1, <1>5, <4>2, <4>3, RoundDownUnique
      <4> HIDE DEF e
      <4>5. QED
        BY <1>1, <1>3, <4>1, <4>4
    <3>4. QED
      BY <1>1, <1>3, <3>2, <3>3
  <2>4. QED
    BY <1>1, <2>1, <2>2, <2>3
<1>11. QED
  BY <1>7, <1>8, <1>10 DEF EndOf, e, x, r, v, l

(* The call starts in the invariant. *)
LEMMA UserMemStart == UserMemInit => UserMemInv
<1> SUFFICES ASSUME UserMemInit PROVE UserMemInv
  OBVIOUS
<1>1. 0 \in UAddr
  BY UserMemAssumption DEF UAddr
<1>2. UserMemType /\ st.pc = "call"
  BY <1>1 DEF UserMemInit, UserMemType, UAddr
<1>3. QED
  BY <1>2 DEF UserMemInv, UserMemExact, At

(* The call itself: the range is rounded. *)
LEMMA CheckCallInv == ASSUME UserMemInv, CheckCall PROVE UserMemInv'
<1>1. UserMemType /\ st.pc = "call" /\ job' = job
  BY DEF UserMemInv, CheckCall, At, Becomes
<1> DEFINE v == st.va
           l == st.len
           b == RoundDown(v, UPGSIZE)
           x == (v + l + UPGSIZE - 1) % AddrMod
           e == RoundDown(x, UPGSIZE)
<1>2. st' = [st EXCEPT !.pc = "loop", !.begin = b, !.end = e]
  BY DEF CheckCall, Becomes
<1>3. v \in UAddr /\ l \in UAddr /\ UPGSIZE \in Nat \ {0} /\ AddrMod \in Nat \ {0}
  BY <1>1, UserMemAssumption DEF UserMemType
<1> HIDE DEF v, l
<1>4. b \in UAddr /\ b % UPGSIZE = 0
  <2>1. b \in Nat /\ b <= v /\ b % UPGSIZE = 0
    BY <1>3, RoundDownFacts DEF UAddr
  <2> HIDE DEF b
  <2>2. QED
    BY <1>3, <2>1 DEF UAddr
<1>5. e \in UAddr /\ e % UPGSIZE = 0 /\ EndOf(st, e)
  BY <1>3, RangeEnd DEF v, l
<1>6. UserMemType'
  <2> HIDE DEF b, e
  <2>1. QED
    BY <1>1, <1>2, <1>4, <1>5 DEF UserMemType
<1>7. /\ st'.pc = "loop" /\ st'.begin = b /\ st'.end = e /\ st'.va = v
      /\ st'.len = l
  <2> HIDE DEF b, e
  <2>1. QED
    BY <1>1, <1>2 DEF UserMemType, v, l
<1>8. PagesPassed(st')
  <2>1. RoundDown(st'.va, UPGSIZE) = b
    BY <1>7
  <2> HIDE DEF b, e
  <2>2. \A a \in PageStarts : ~(b <= a /\ a < b)
    BY <1>3, <1>4 DEF PageStarts, UAddr
  <2>3. b <= b
    BY <1>4 DEF UAddr
  <2>4. QED
    BY <1>4, <1>5, <1>7, <2>1, <2>2, <2>3
       DEF PagesPassed, EndOf, CheckedTo, v, l
<1>9. UserMemExact'
  BY <1>7 DEF UserMemExact, At
<1>10. QED
  BY <1>6, <1>8, <1>9 DEF UserMemInv

(* A page that may not be accessed: the first bad byte is in it. *)
LEMMA BadPageInv ==
  ASSUME UserMemInv, st.pc = "loop", st.begin < st.end,
         ~Accessible(st, st.begin),
         st' = BadPage(st), job' = job
  PROVE  UserMemInv'
<1> DEFINE v == st.va
           l == st.len
           b == st.begin
           w == IF b >= v THEN b ELSE v
<1>1. /\ v \in UAddr /\ l \in UAddr /\ b \in UAddr /\ st.end \in UAddr
      /\ UserMemType /\ UPGSIZE \in Nat \ {0} /\ AddrMod \in Nat \ {0}
  BY UserMemAssumption DEF UserMemInv, UserMemType
<1>2. st' = [st EXCEPT !.pc = "done", !.ret = "E_FAULT",
                       !.user_mem_check_addr = w]
  BY DEF BadPage
<1>3. w \in UAddr
  BY <1>1
<1> HIDE DEF w
<1>4. /\ UserMemType' /\ st'.pc = "done" /\ st'.ret = "E_FAULT"
      /\ st'.user_mem_check_addr = w /\ st'.va = v /\ st'.len = l
      /\ st'.pte = st.pte /\ st'.perm = st.perm
  BY <1>1, <1>2, <1>3 DEF UserMemType
<1>5. \A a : Accessible(st', a) <=> Accessible(st, a)
  BY <1>4 DEF Accessible
<1>6. LET bad == {a \in v .. AddrMod - 1 : ~Accessible(st', a)}
      IN  /\ w \in bad /\ \A a \in bad : w <= a
          /\ l > 0 => w < CheckedTo(st')
  <2>1. PagesPassed(st)
    BY DEF UserMemInv
  <2>b. ~Accessible(st, b) /\ b < st.end
    OBVIOUS
  <2> HIDE DEF v, l, b
  <2> DEFINE r == RoundDown(v, UPGSIZE)
             e == st.end
  <2>2. /\ e % UPGSIZE = 0 /\ e \in Nat
        /\ b % UPGSIZE = 0 /\ b \in Nat /\ b < e /\ r <= b
    <3>1. e % UPGSIZE = 0 /\ e \in Nat
      BY <1>1, <2>1 DEF PagesPassed, UAddr
    <3>2. b % UPGSIZE = 0 /\ r <= b /\ b < e /\ b \in Nat
      BY <1>1, <2>1, <2>b DEF PagesPassed, b, v, UAddr
    <3>3. QED
      BY <3>1, <3>2
  <2> DEFINE n == CheckedTo(st)
  <2>e. n \in Nat /\ (r < e => e < n + UPGSIZE /\ (l > 0 => v < n))
    BY <2>1 DEF PagesPassed, EndOf, v, l
  <2>n. CheckedTo(st') = n
    BY <1>4 DEF CheckedTo, v, l
  <2>3. r \in Nat /\ r % UPGSIZE = 0 /\ r <= v /\ v < r + UPGSIZE
    BY <1>1, RoundDownFacts DEF UAddr
  <2>4. \A a \in PageStarts : r <= a /\ a < b => Accessible(st, a)
    BY <2>1 DEF PagesPassed, v, b
  <2> HIDE DEF r, e, n
  <2>5. b + UPGSIZE <= e
    BY <1>1, <2>2, Multiples
  <2>6. w \in v .. AddrMod - 1 /\ (l > 0 => w < n)
    BY <1>1, <1>3, <2>2, <2>3, <2>5, <2>e DEF w, UAddr
  <2>7. RoundDown(w, UPGSIZE) = b
    <3>1. CASE b >= v
      <4>1. w = b /\ b <= b /\ b < b + UPGSIZE
        BY <1>1, <2>2, <3>1 DEF w
      <4>2. QED
        BY <1>1, <2>2, <4>1, RoundDownUnique
    <3>2. CASE b < v
      <4>1. w = v
        BY <1>1, <3>2 DEF w, UAddr
      <4>2. ~(r < b)
        <5>1. SUFFICES ASSUME r < b PROVE FALSE
          OBVIOUS
        <5>2. r + UPGSIZE <= b
          BY <1>1, <2>2, <2>3, <5>1, Multiples
        <5>3. QED
          BY <1>1, <2>2, <2>3, <3>2, <5>2 DEF UAddr
      <4>3. r = b
        BY <2>2, <2>3, <4>2
      <4>4. QED
        BY <4>1, <4>3 DEF r
    <3>3. QED
      BY <1>1, <3>1, <3>2 DEF UAddr
  <2>8. ~Accessible(st, w)
    BY <1>3, <2>b, <2>7, PageAccess
  <2>9. ASSUME NEW a \in v .. AddrMod - 1, ~Accessible(st, a) PROVE w <= a
    <3>1. SUFFICES ASSUME a < w PROVE FALSE
      BY <1>1, <1>3 DEF UAddr
    <3>2. a \in UAddr /\ a < b /\ v <= a
      BY <1>1, <1>3, <2>2, <3>1 DEF w, UAddr
    <3> DEFINE c == RoundDown(a, UPGSIZE)
    <3>3. c \in PageStarts /\ ~Accessible(st, c)
      BY <2>9, <3>2, PageAccess
    <3>4. c \in Nat /\ c % UPGSIZE = 0 /\ c <= a /\ a < c + UPGSIZE
      <4>1. a \in Nat
        BY <1>1, <3>2 DEF UAddr
      <4>2. QED
        BY <1>1, <4>1, RoundDownFacts
    <3> HIDE DEF c
    <3>5. r <= c
      <4>1. SUFFICES ASSUME c < r PROVE FALSE
        BY <2>3, <3>4
      <4>2. c + UPGSIZE <= r
        BY <1>1, <2>3, <3>4, <4>1, Multiples
      <4>3. QED
        BY <1>1, <2>3, <3>2, <3>4, <4>2 DEF UAddr
    <3>6. c < b
      BY <2>2, <3>2, <3>4 DEF UAddr
    <3>7. QED
      BY <2>4, <3>3, <3>5, <3>6
  <2>10. QED
    BY <1>5, <2>6, <2>8, <2>9, <2>n
<1>7. UserMemExact'
  BY <1>4, <1>6 DEF UserMemExact
<1>8. QED
  BY <1>4, <1>7 DEF UserMemInv

(* A page that passes. *)
LEMMA GoodPageInv ==
  ASSUME UserMemInv, st.pc = "loop", st.begin < st.end,
         Accessible(st, st.begin),
         st' = [st EXCEPT !.begin = (@ + UPGSIZE) % AddrMod], job' = job
  PROVE  UserMemInv'
<1> DEFINE b == st.begin
           c == (b + UPGSIZE) % AddrMod
           e == st.end
           v == st.va
           r == RoundDown(v, UPGSIZE)
<1>1. /\ b \in UAddr /\ e \in UAddr /\ v \in UAddr
      /\ UserMemType /\ UPGSIZE \in Nat \ {0} /\ AddrMod \in Nat \ {0}
  BY UserMemAssumption DEF UserMemInv, UserMemType
<1>2. c \in UAddr
  <2> HIDE DEF b
  <2>1. b + UPGSIZE \in Nat
    BY <1>1 DEF UAddr
  <2>2. QED
    BY <1>1, <2>1 DEF UAddr
<1>3. st' = [st EXCEPT !.begin = c]
  OBVIOUS
<1> HIDE DEF c
<1>4. /\ UserMemType' /\ st'.pc = "loop" /\ st'.begin = c /\ st'.end = e
      /\ st'.va = v /\ st'.len = st.len /\ st'.pte = st.pte
      /\ st'.perm = st.perm
  BY <1>1, <1>2, <1>3 DEF UserMemType
<1>5. \A a : Accessible(st', a) <=> Accessible(st, a)
  BY <1>4 DEF Accessible
<1>6. PagesPassed(st')
  <2>2. PagesPassed(st) /\ Accessible(st, b)
    BY DEF UserMemInv
  <2>3. /\ e % UPGSIZE = 0 /\ b % UPGSIZE = 0 /\ r <= b /\ b < e
        /\ b \in Nat /\ e \in Nat /\ r \in Nat /\ e < AddrMod
    <3>1. r \in Nat
      BY <1>1, RoundDownFacts DEF UAddr
    <3>2. QED
      BY <1>1, <2>2, <3>1 DEF PagesPassed, UAddr
  <2>4. \A a \in PageStarts : r <= a /\ a < b => Accessible(st, a)
    BY <2>2 DEF PagesPassed
  <2>5. EndOf(st', e)
    <3>1. EndOf(st, e)
      BY <2>2 DEF PagesPassed
    <3>2. QED
      BY <1>4, <3>1 DEF EndOf, CheckedTo, v
  <2> HIDE DEF r, e, b, v
  <2>6. b + UPGSIZE <= e
    BY <1>1, <2>3, Multiples
  <2>7. c = b + UPGSIZE
    <3>1. b + UPGSIZE \in Nat /\ b + UPGSIZE < AddrMod
      BY <1>1, <2>3, <2>6
    <3>2. QED
      BY <1>1, <3>1 DEF c
  <2>8. c % UPGSIZE = 0
    BY <1>1, <2>3, <2>7, NextMultiple
  <2>9. r <= c /\ c <= e
    BY <1>1, <2>3, <2>6, <2>7
  <2>10. ASSUME NEW a \in PageStarts, r <= a, a < c PROVE Accessible(st, a)
    <3>1. a \in Nat /\ a % UPGSIZE = 0
      BY UserMemAssumption DEF PageStarts
    <3>2. CASE a < b
      BY <2>4, <2>10, <3>2
    <3>3. CASE a = b
      BY <2>2, <3>3
    <3>4. CASE b < a
      <4>1. b + UPGSIZE <= a
        BY <1>1, <2>3, <3>1, <3>4, Multiples
      <4>2. QED
        BY <1>1, <2>3, <2>7, <2>10, <3>1, <4>1
    <3>5. QED
      BY <2>3, <3>1, <3>2, <3>3, <3>4
  <2>11. QED
    BY <1>4, <1>5, <2>3, <2>5, <2>8, <2>9, <2>10 DEF PagesPassed, r
<1>7. UserMemExact'
  BY <1>4 DEF UserMemExact, At
<1>8. QED
  BY <1>4, <1>6, <1>7 DEF UserMemInv

(* A turn of the loop. *)
LEMMA CheckPageTurnInv == ASSUME UserMemInv, CheckPageTurn PROVE UserMemInv'
<1> DEFINE refused == \/ st.begin >= ULIM
                      \/ ~(st.perm \cup {"P"} \subseteq st.pte[st.begin])
<1>1. /\ st.pc = "loop" /\ st.begin < st.end /\ job' = job
      /\ st' = IF refused THEN BadPage(st)
               ELSE [st EXCEPT !.begin = (@ + UPGSIZE) % AddrMod]
  BY DEF CheckPageTurn, At, Becomes
<1>2. refused <=> ~Accessible(st, st.begin)
  <2>1. st.begin \in Nat /\ st.begin % UPGSIZE = 0
        /\ UPGSIZE \in Nat \ {0} /\ ULIM \in Nat
    BY <1>1, UserMemAssumption
       DEF UserMemInv, UserMemType, PagesPassed, UAddr
  <2> DEFINE b == st.begin
  <2>2. b <= b /\ b < b + UPGSIZE
    BY <2>1
  <2>3. RoundDown(b, UPGSIZE) = b
    <3> HIDE DEF b
    <3>1. b \in Nat /\ b % UPGSIZE = 0
      BY <2>1 DEF b
    <3>2. QED
      BY <2>1, <2>2, <3>1, RoundDownUnique
  <2>4. b >= ULIM <=> ~(b < ULIM)
    BY <2>1
  <2>5. QED
    BY <2>3, <2>4 DEF Accessible
<1> HIDE DEF refused
<1>3. CASE refused
  BY <1>1, <1>2, <1>3, BadPageInv
<1>4. CASE ~refused
  BY <1>1, <1>2, <1>4, GoodPageInv
<1>5. QED
  BY <1>3, <1>4

(* The end of the loop: every page of the range passed. *)
LEMMA CheckPassedInv == ASSUME UserMemInv, CheckPassed PROVE UserMemInv'
<1> DEFINE v == st.va
           l == st.len
           b == st.begin
           e == st.end
<1>1. /\ UserMemType /\ st.pc = "loop" /\ b >= e /\ job' = job
      /\ st' = [st EXCEPT !.pc = "done", !.ret = "ok"]
  BY DEF UserMemInv, CheckPassed, At, Becomes
<1>2. /\ v \in UAddr /\ l \in UAddr /\ b \in UAddr /\ e \in UAddr
      /\ UPGSIZE \in Nat \ {0} /\ AddrMod \in Nat \ {0}
  BY <1>1, UserMemAssumption DEF UserMemType
<1>3. /\ UserMemType' /\ st'.pc = "done" /\ st'.ret = "ok"
      /\ st'.va = v /\ st'.len = l /\ st'.pte = st.pte /\ st'.perm = st.perm
  BY <1>1 DEF UserMemType
<1>4. \A a : Accessible(st', a) <=> Accessible(st, a)
  BY <1>3 DEF Accessible
<1> DEFINE n == CheckedTo(st)
<1>5. ASSUME NEW a \in v .. n - 1 PROVE Accessible(st, a)
  <2>1. PagesPassed(st)
    BY <1>1 DEF UserMemInv
  <2> DEFINE r == RoundDown(v, UPGSIZE)
             c == RoundDown(a, UPGSIZE)
  <2>2. \A x \in PageStarts : r <= x /\ x < b => Accessible(st, x)
    BY <2>1 DEF PagesPassed
  <2>3. n \in Nat /\ n <= e /\ n < AddrMod
    <3>1. n \in Nat /\ n <= e
      BY <2>1 DEF PagesPassed, EndOf
    <3> HIDE DEF n, e
    <3>2. QED
      BY <1>2, <3>1 DEF UAddr
  <2> HIDE DEF v, l, b, e, n
  <2>4. a \in UAddr
    BY <1>2, <2>3 DEF UAddr
  <2>5. c \in PageStarts /\ (Accessible(st, a) <=> Accessible(st, c))
    BY <2>4, PageAccess
  <2>6. c \in Nat /\ c % UPGSIZE = 0 /\ c <= a /\ a < c + UPGSIZE
    <3>1. a \in Nat
      BY <1>2, <2>4 DEF UAddr
    <3>2. QED
      BY <1>2, <3>1, RoundDownFacts
  <2>7. r \in Nat /\ r % UPGSIZE = 0 /\ r <= v /\ v < r + UPGSIZE
    BY <1>2, RoundDownFacts DEF UAddr
  <2> HIDE DEF r, c
  <2>8. r <= c
    <3>1. SUFFICES ASSUME c < r PROVE FALSE
      BY <2>6, <2>7
    <3>2. c + UPGSIZE <= r
      BY <1>2, <2>6, <2>7, <3>1, Multiples
    <3>3. QED
      BY <1>2, <2>6, <2>7, <3>2 DEF UAddr
  <2>9. c < b
    BY <1>1, <1>2, <2>3, <2>6 DEF UAddr
  <2>10. QED
    BY <2>2, <2>5, <2>8, <2>9
<1>6. UserMemExact'
  <2>0. n \in Nat /\ CheckedTo(st') = n
    <3>1. PagesPassed(st)
      BY <1>1 DEF UserMemInv
    <3>2. QED
      BY <1>3, <3>1 DEF PagesPassed, EndOf, CheckedTo
  <2> HIDE DEF n
  <2>1. ASSUME NEW a \in v .. AddrMod - 1, ~Accessible(st', a) PROVE a >= n
    <3>1. SUFFICES ASSUME a < n PROVE FALSE
      BY <1>2, <2>0 DEF UAddr
    <3>2. a \in v .. n - 1
      BY <1>2, <2>0, <3>1 DEF UAddr
    <3>3. QED
      BY <1>4, <1>5, <2>1, <3>2
  <2>2. QED
    BY <1>3, <2>0, <2>1 DEF UserMemExact
<1>7. QED
  BY <1>3, <1>6 DEF UserMemInv

(* For every size of page and of machine word, every pattern of mapped     *)
(* pages and every call, wrapping or not: an approval of user_mem_check    *)
(* means that all bytes it had to look at may be accessed, a refusal names *)
(* the first byte that may not, and one of those (an empty range apart).   *)
(* What it looks at is the whole range, unless the end of the range wraps  *)
(* around: then at most its first page, and mostly nothing.                *)
THEOREM UserMemCorrect == UserMemSpec => []UserMemExact
<1>1. UserMemInit => UserMemInv
  BY UserMemStart
<1>2. UserMemInv /\ [UserMemNext]_routineVars => UserMemInv'
  <2> SUFFICES ASSUME UserMemInv, [UserMemNext]_routineVars PROVE UserMemInv'
    OBVIOUS
  <2>1. CASE UNCHANGED routineVars
    BY <2>1 DEF routineVars, UserMemInv, UserMemType, UserMemExact, At
  <2>2. QED
    BY <2>1, CheckCallInv, CheckPageTurnInv, CheckPassedInv DEF UserMemNext
<1>3. UserMemInv => UserMemExact
  BY DEF UserMemInv
<1>4. QED
  BY <1>1, <1>2, <1>3, PTL DEF UserMemSpec

------------------------------------------------------------------------------
(* The Trapframe as a sequence of seventeen words. *)
LEMMA FrameLength == Len(Trapframe) = 17
  BY DEF Trapframe

(* The words of a frame. *)
LEMMA FramePlaces ==
  ASSUME NEW i \in 1 .. 17, NEW k \in 1 .. 17, Trapframe[i] = Trapframe[k]
  PROVE  i = k
<1>1. \A x \in 1 .. 17 :
        x \in {1, 2, 3, 4, 5, 6, 7, 8, 9, 10, 11, 12, 13, 14, 15, 16, 17}
  OBVIOUS
<1>2. QED
  BY <1>1 DEF Trapframe

(* The fields of a frame, one by one. *)
LEMMA FieldSet ==
  Field = {"edi", "esi", "ebp", "oesp", "ebx", "edx", "ecx", "eax", "es", "ds",
           "trapno", "err", "eip", "cs", "eflags", "esp", "ss"}
<1>1. 1 .. 17 = {1, 2, 3, 4, 5, 6, 7, 8, 9, 10, 11, 12, 13, 14, 15, 16, 17}
  OBVIOUS
<1>2. QED
  BY <1>1, FrameLength DEF Field, Trapframe

(* Field k of the frame is the k-th word from the top of the stack. *)
LEMMA FrameRead ==
  ASSUME NEW W, NEW stack \in Seq(W), Len(stack) = 17, NEW k \in 1 .. 17
  PROVE  AsTrapframe(stack)[Trapframe[k]] = stack[18 - k]
<1> DEFINE at == CHOOSE i \in 1 .. Len(Trapframe) : Trapframe[i] = Trapframe[k]
<1>1. Trapframe[k] \in Field
  BY FrameLength DEF Field
<1>2. at = k
  BY FrameLength, FramePlaces
<1>3. AsTrapframe(stack)[Trapframe[k]] =
        IF at <= Len(stack) THEN stack[Len(stack) - at + 1] ELSE "beyond"
  BY <1>1 DEF AsTrapframe
<1> HIDE DEF at
<1>4. Len(stack) - k + 1 = 18 - k /\ k <= Len(stack)
  OBVIOUS
<1>5. QED
  BY <1>2, <1>3, <1>4

------------------------------------------------------------------------------
(* The values that words of the stack and registers have in the model. *)
Token == {"none", "code", "zero", "kesp", "num", "a1", "a2", "a3", "a4", "a5",
          "ret", "beyond"}
Word == Field \cup Token \cup Nat

TrapType ==
  /\ job = "trap"
  /\ st \in [pc : {"env_run", "user", "stub", "alltraps", "trap",
                   "trap_dispatch", "done"},
             tf : [Field -> Word], user : [Register -> Word],
             stack : Seq(Word), vector : Nat, was : [Register -> Word],
             call : Seq(Word)]

(* The registers of a system call. *)
CallRegs(r) ==
  /\ r["eax"] = "num" /\ r["edx"] = "a1" /\ r["ecx"] = "a2"
  /\ r["ebx"] = "a3" /\ r["edi"] = "a4" /\ r["esi"] = "a5"

(* On the way into the kernel with vector v. *)
Entered(v, user, was) ==
  /\ was = user /\ v \in Nat
  /\ v \in TrapHandler <=> v \in PushesError
  /\ v = T_SYSCALL => CallRegs(was)

ErrorWord(v) == IF v \in PushesError THEN "code" ELSE "zero"

(* The seven words on the stack at _alltraps, and the seventeen at trap(). *)
AtAllTraps(s, r, v) ==
  /\ s \in Seq(Word) /\ Len(s) = 7
  /\ s[1] = r["ss"] /\ s[2] = r["esp"] /\ s[3] = r["eflags"]
  /\ s[4] = r["cs"] /\ s[5] = r["eip"] /\ s[6] = ErrorWord(v) /\ s[7] = v

AtTrap(s, r, v) ==
  /\ s \in Seq(Word) /\ Len(s) = 17
  /\ s[1] = r["ss"] /\ s[2] = r["esp"] /\ s[3] = r["eflags"]
  /\ s[4] = r["cs"] /\ s[5] = r["eip"] /\ s[6] = ErrorWord(v) /\ s[7] = v
  /\ s[8] = r["ds"] /\ s[9] = r["es"] /\ s[10] = r["eax"]
  /\ s[11] = r["ecx"] /\ s[12] = r["edx"] /\ s[13] = r["ebx"]
  /\ s[15] = r["ebp"] /\ s[16] = r["esi"] /\ s[17] = r["edi"]

Framed(tf, was, v) ==
  /\ tf["trapno"] = v /\ tf["err"] = ErrorWord(v)
  /\ \A r \in Register : tf[r] = was[r]

(* The registers a program goes on with. *)
Resumed(regs, was, v) ==
  v # 0 => \A r \in Register :
             \/ regs[r] = was[r]
             \/ r = "eax" /\ v = T_SYSCALL /\ regs[r] = "ret"

TrapInv ==
  /\ TrapType
  /\ st.call # <<>> => st.call = <<"num", "a1", "a2", "a3", "a4", "a5">>
  /\ st.pc = "env_run" => Resumed(st.tf, st.was, st.vector)
  /\ st.pc = "user" => Resumed(st.user, st.was, st.vector)
  /\ st.pc \in {"stub", "alltraps", "trap"} =>
       Entered(st.vector, st.user, st.was)
  /\ st.pc = "stub" =>
       st.stack = Pushed(st.user, st.vector \in PushesError)
  /\ st.pc = "alltraps" => AtAllTraps(st.stack, st.user, st.vector)
  /\ st.pc = "trap" => AtTrap(st.stack, st.user, st.vector)
  /\ st.pc = "trap_dispatch" =>
       /\ Framed(st.tf, st.was, st.vector)
       /\ st.vector = T_SYSCALL => CallRegs(st.was)

(* The stub of every vector the processor raises pushes a word in place of *)
(* the error code if, and only if, the processor does not push one.        *)
StubsAgree ==
  \A v \in Exception \cap Gate : v \in TrapHandler <=> v \in PushesError

(* The registers, one by one. *)
LEMMA RegisterSet ==
  /\ Register = {"edi", "esi", "ebp", "ebx", "edx", "ecx", "eax", "es", "ds",
                 "eip", "cs", "eflags", "esp", "ss"}
  /\ Register \subseteq Field /\ Field \subseteq Word /\ Token \subseteq Word
<1>1. Register = {"edi", "esi", "ebp", "ebx", "edx", "ecx", "eax", "es", "ds",
                  "eip", "cs", "eflags", "esp", "ss"}
  BY FieldSet DEF Register
<1>2. QED
  BY <1>1 DEF Register, Word

(* The first state is in the invariant. *)
LEMMA TrapStart == TrapInit => TrapInv
<1> SUFFICES ASSUME TrapInit PROVE TrapInv
  OBVIOUS
<1>1. FirstFrame \in [Field -> Word]
  BY RegisterSet DEF FirstFrame
<1>2. [r \in Register |-> "none"] \in [Register -> Word] /\ 0 \in Nat
      /\ <<>> \in Seq(Word)
  BY RegisterSet DEF Token
<1>3. TrapType /\ st.pc = "env_run" /\ st.vector = 0 /\ st.call = <<>>
  BY <1>1, <1>2 DEF TrapInit, TrapType
<1>4. QED
  BY <1>3 DEF TrapInv, Resumed

(* The word popped into a register is the field of that name. *)
LEMMA PopPlaces ==
  ASSUME NEW r \in Register
  PROVE  LET k == CHOOSE i \in 1 .. Len(PopOrder) : PopOrder[i] = r
         IN  Trapframe[k] = r
<1> DEFINE k == CHOOSE i \in 1 .. Len(PopOrder) : PopOrder[i] = r
<1>1. \A x \in 1 .. 17 :
        x \in {1, 2, 3, 4, 5, 6, 7, 8, 9, 10, 11, 12, 13, 14, 15, 16, 17}
  OBVIOUS
<1>2. Len(PopOrder) = 17
  BY DEF PopOrder
<1>3. \E i \in 1 .. 17 : PopOrder[i] = r
  BY RegisterSet DEF PopOrder
<1>4. k \in 1 .. 17 /\ PopOrder[k] = r
  BY <1>2, <1>3
<1> HIDE DEF k
<1>5. r # "skipped"
  BY RegisterSet
<1>6. Trapframe[k] = r
  BY <1>1, <1>4, <1>5 DEF PopOrder, Trapframe
<1>7. QED
  BY <1>6 DEF k

(* env_pop_tf restores the saved registers. *)
LEMMA EnvPopTfInv == ASSUME TrapInv, EnvPopTf PROVE TrapInv'
<1> DEFINE u == env_pop_tf(st.tf)
<1>1. /\ TrapType /\ st.pc = "env_run" /\ job' = job
      /\ st' = [st EXCEPT !.pc = "user", !.user = u]
  BY DEF TrapInv, EnvPopTf, At, Becomes
<1>2. u = [r \in Register |-> st.tf[r]]
  BY PopPlaces DEF env_pop_tf, PoppedInto
<1>3. u \in [Register -> Word] /\ \A r \in Register : u[r] = st.tf[r]
  BY <1>1, <1>2, RegisterSet DEF TrapType
<1> HIDE DEF u
<1>4. /\ TrapType' /\ st'.pc = "user" /\ st'.user = u /\ st'.was = st.was
      /\ st'.vector = st.vector /\ st'.call = st.call
  BY <1>1, <1>3 DEF TrapType
<1>5. Resumed(st'.user, st'.was, st'.vector)
  BY <1>1, <1>3, <1>4 DEF TrapInv, Resumed
<1>6. QED
  BY <1>4, <1>5 DEF TrapInv

(* Enter, for a vector whose stub fits. *)
LEMMA EnterInv ==
  ASSUME TrapInv, NEW s, NEW n \in Nat, NEW soft \in BOOLEAN,
         s \in [pc : {"user"}, tf : [Field -> Word], user : [Register -> Word],
                stack : Seq(Word), vector : Nat, was : [Register -> Word],
                call : Seq(Word)],
         s.call = st.call, job' = job, st' = Enter(s, n, soft),
         soft /\ n = T_SYSCALL => CallRegs(s.user),
         ~soft => n # T_SYSCALL
           /\ (n \in Gate => (n \in TrapHandler <=> n \in PushesError))
  PROVE  TrapInv'
<1> DEFINE v == VectorTaken(n, soft)
           allowed == soft /\ n \in UserGate
           stack == Pushed(s.user, v \in PushesError /\ ~allowed)
           u == s.user
<1>1. st' = [s EXCEPT !.pc = "stub", !.vector = v, !.was = u, !.stack = stack]
  BY DEF Enter
<1>2. /\ v \in Nat
      /\ \/ v = T_GPFLT /\ ~allowed
         \/ v = n /\ n \in Gate /\ (soft => n \in UserGate)
  BY DEF VectorTaken, T_GPFLT, Gate, UserGate
<1>3. u \in [Register -> Word]
  OBVIOUS
<1>4. stack \in Seq(Word)
  <2>1. /\ u["ss"] \in Word /\ u["esp"] \in Word /\ u["eflags"] \in Word
        /\ u["cs"] \in Word /\ u["eip"] \in Word /\ "code" \in Word
    BY <1>3, RegisterSet DEF Token
  <2>2. /\ <<u["ss"], u["esp"], u["eflags"], u["cs"], u["eip"]>> \in Seq(Word)
        /\ <<"code">> \in Seq(Word) /\ <<>> \in Seq(Word)
    BY <2>1
  <2>3. QED
    BY <2>2 DEF Pushed
<1> HIDE DEF stack, v, u
<1>5. /\ TrapType' /\ st'.pc = "stub" /\ st'.vector = v /\ st'.was = u
      /\ st'.user = u /\ st'.stack = stack /\ st'.call = st.call
  BY <1>1, <1>2, <1>3, <1>4 DEF TrapInv, TrapType, u
<1>6. /\ v \in TrapHandler <=> v \in PushesError
      /\ v \in PushesError /\ ~allowed <=> v \in PushesError
      /\ v = T_SYSCALL => CallRegs(u)
  <2>1. CASE v = T_GPFLT /\ ~allowed
    BY <2>1 DEF TrapHandler, PushesError, T_GPFLT, T_SYSCALL
  <2>2. CASE v = n /\ n \in Gate /\ (soft => n \in UserGate)
    <3>1. CASE soft
      BY <2>2, <3>1 DEF TrapHandler, PushesError, UserGate, T_SYSCALL, u
    <3>2. CASE ~soft
      BY <2>2, <3>2
    <3>3. QED
      BY <3>1, <3>2
  <2>3. QED
    BY <1>2, <2>1, <2>2
<1>7. Entered(v, u, u)
  BY <1>2, <1>6 DEF Entered
<1>8. stack = Pushed(u, v \in PushesError)
  <2>1. (v \in PushesError /\ ~allowed) = (v \in PushesError)
    BY <1>6
  <2>2. QED
    BY <2>1 DEF stack, u
<1>9. st'.call # <<>> => st'.call = <<"num", "a1", "a2", "a3", "a4", "a5">>
  BY <1>5 DEF TrapInv
<1>10. QED
  BY <1>5, <1>7, <1>8, <1>9 DEF TrapInv

(* User code raises an exception. *)
LEMMA RaiseExceptionInv ==
  ASSUME TrapInv, StubsAgree, RaiseException
  PROVE  TrapInv'
<1>1. PICK n \in Exception : job' = job /\ st' = Enter(st, n, FALSE)
  BY DEF RaiseException, Becomes
<1>2. n \in Nat /\ n # T_SYSCALL
  BY TrapAssumption DEF T_SYSCALL
<1>3. n \in Gate => (n \in TrapHandler <=> n \in PushesError)
  BY DEF StubsAgree
<1>4. st \in [pc : {"user"}, tf : [Field -> Word], user : [Register -> Word],
              stack : Seq(Word), vector : Nat, was : [Register -> Word],
              call : Seq(Word)]
  BY DEF TrapInv, TrapType, RaiseException, At
<1>5. QED
  BY <1>1, <1>2, <1>3, <1>4, EnterInv

(* User code executes int n, a system call among others. *)
LEMMA IntInstructionInv == ASSUME TrapInv, IntInstruction PROVE TrapInv'
<1> DEFINE T == [pc : {"user"}, tf : [Field -> Word],
                 user : [Register -> Word], stack : Seq(Word), vector : Nat,
                 was : [Register -> Word], call : Seq(Word)]
           Next1(n) == IF n = T_SYSCALL
                       THEN [st EXCEPT !.user = Loaded(st.user)] ELSE st
<1>1. PICK n \in SoftInt : job' = job /\ st' = Enter(Next1(n), n, TRUE)
  BY DEF IntInstruction, Becomes
<1>2. n \in Nat
  BY TrapAssumption
<1>3. st \in T
  BY DEF TrapInv, TrapType, IntInstruction, At
<1>4. Loaded(st.user) \in [Register -> Word] /\ CallRegs(Loaded(st.user))
  <2>1. st.user \in [Register -> Word]
    BY <1>3
  <2>2. \A x \in {"num", "a1", "a2", "a3", "a4", "a5"} : x \in Word
    BY RegisterSet DEF Token
  <2>3. QED
    BY <2>1, <2>2, RegisterSet DEF Loaded, CallRegs
<1>5. /\ Next1(n) \in T /\ Next1(n).call = st.call
      /\ n = T_SYSCALL => CallRegs(Next1(n).user)
  <2>1. CASE n = T_SYSCALL
    BY <1>3, <1>4, <2>1
  <2>2. CASE n # T_SYSCALL
    BY <1>3, <2>2
  <2>3. QED
    BY <2>1, <2>2
<1> HIDE DEF Next1
<1>6. QED
  BY <1>1, <1>2, <1>5, EnterInv

(* The elements of a concatenation. *)
LEMMA Concatenated ==
  ASSUME NEW W, NEW a \in Seq(W), NEW b \in Seq(W)
  PROVE  /\ a \o b \in Seq(W) /\ Len(a \o b) = Len(a) + Len(b)
         /\ \A k \in 1 .. Len(a) : (a \o b)[k] = a[k]
         /\ \A k \in Len(a) + 1 .. Len(a) + Len(b) :
              (a \o b)[k] = b[k - Len(a)]
  BY ConcatProperties

(* The stub completes what the processor pushed. *)
LEMMA StubInv == ASSUME TrapInv, Stub PROVE TrapInv'
<1> DEFINE v == st.vector
           r == st.user
           five == <<r["ss"], r["esp"], r["eflags"], r["cs"], r["eip"]>>
           s == Pushed(r, v \in PushesError)
                  \o (IF v \in TrapHandler THEN <<>> ELSE <<"zero">>) \o <<v>>
<1>1. /\ TrapType /\ st.pc = "stub" /\ job' = job /\ Entered(v, r, st.was)
      /\ st' = [st EXCEPT !.pc = "alltraps", !.stack = s]
  BY DEF TrapInv, Stub, At, Becomes
<1>2. r \in [Register -> Word] /\ v \in Word /\ v \in Nat
  BY <1>1 DEF TrapType, Word
<1> HIDE DEF r, v
<1>3. AtAllTraps(s, r, v)
  <2>1. five \in Seq(Word) /\ Len(five) = 5 /\ five[1] = r["ss"]
        /\ five[2] = r["esp"] /\ five[3] = r["eflags"]
        /\ five[4] = r["cs"] /\ five[5] = r["eip"]
    BY <1>2, RegisterSet
  <2> DEFINE e == <<ErrorWord(v)>>
             w == <<v>>
  <2>2. e \in Seq(Word) /\ Len(e) = 1 /\ e[1] = ErrorWord(v)
        /\ w \in Seq(Word) /\ Len(w) = 1 /\ w[1] = v
    BY <1>2, RegisterSet DEF ErrorWord, Token
  <2>3. s = (five \o e) \o w
    <3>1. CASE v \in PushesError
      <4>1. v \in TrapHandler
        BY <1>1, <3>1 DEF Entered
      <4>2. s = ((five \o <<"code">>) \o <<>>) \o w
        BY <3>1, <4>1 DEF Pushed
      <4>3. five \o <<"code">> \in Seq(Word)
        BY <2>1, RegisterSet DEF Token
      <4>4. (five \o <<"code">>) \o <<>> = five \o <<"code">>
        BY <4>3
      <4>5. QED
        BY <3>1, <4>2, <4>4 DEF ErrorWord
    <3>2. CASE v \notin PushesError
      <4>1. v \notin TrapHandler
        BY <1>1, <3>2 DEF Entered
      <4>2. s = ((five \o <<>>) \o <<"zero">>) \o w
        BY <3>2, <4>1 DEF Pushed
      <4>3. five \o <<>> = five
        BY <2>1
      <4>4. QED
        BY <3>2, <4>2, <4>3 DEF ErrorWord
    <3>3. QED
      BY <3>1, <3>2
  <2> HIDE DEF s, five, e, w
  <2>4. /\ five \o e \in Seq(Word) /\ Len(five \o e) = 6
        /\ \A k \in 1 .. 5 : (five \o e)[k] = five[k]
        /\ (five \o e)[6] = e[1]
    <3>1. five \in Seq(Word) /\ e \in Seq(Word)
      BY <2>1, <2>2
    <3>2. /\ five \o e \in Seq(Word) /\ Len(five \o e) = Len(five) + Len(e)
          /\ \A k \in 1 .. Len(five) : (five \o e)[k] = five[k]
          /\ \A k \in Len(five) + 1 .. Len(five) + Len(e) :
               (five \o e)[k] = e[k - Len(five)]
      BY <3>1, Concatenated
    <3> DEFINE t == five \o e
    <3> HIDE DEF t
    <3>3. /\ t \in Seq(Word) /\ Len(t) = 6 /\ t[6] = e[1]
          /\ \A k \in 1 .. 5 : t[k] = five[k]
      BY <2>1, <2>2, <3>2 DEF t
    <3>4. QED
      BY <3>3 DEF t
  <2>5. /\ s \in Seq(Word) /\ Len(s) = 7 /\ s[7] = w[1]
        /\ \A k \in 1 .. 6 : s[k] = (five \o e)[k]
    <3> DEFINE t == five \o e
    <3>1. t \in Seq(Word) /\ Len(t) = 6 /\ s = t \o w
      BY <2>3, <2>4
    <3> HIDE DEF t
    <3>2. /\ s \in Seq(Word) /\ Len(s) = Len(t) + Len(w)
          /\ \A k \in 1 .. Len(t) : s[k] = t[k]
          /\ \A k \in Len(t) + 1 .. Len(t) + Len(w) : s[k] = w[k - Len(t)]
      BY <2>2, <3>1, Concatenated
    <3>3. QED
      BY <2>2, <3>1, <3>2 DEF t
  <2>6. QED
    BY <2>1, <2>2, <2>4, <2>5 DEF AtAllTraps
<1> HIDE DEF s
<1>4. /\ TrapType' /\ st'.pc = "alltraps" /\ st'.stack = s /\ st'.user = r
      /\ st'.was = st.was /\ st'.vector = v /\ st'.call = st.call
  BY <1>1, <1>3 DEF TrapType, AtAllTraps, r, v
<1>5. st'.call # <<>> => st'.call = <<"num", "a1", "a2", "a3", "a4", "a5">>
  BY <1>4 DEF TrapInv
<1>6. QED
  BY <1>1, <1>3, <1>4, <1>5 DEF TrapInv

(* _alltraps pushes the segments and the general registers. *)
LEMMA AllTrapsInv == ASSUME TrapInv, AllTraps PROVE TrapInv'
<1> DEFINE v == st.vector
           r == st.user
           a == st.stack
           b == <<r["ds"], r["es"], r["eax"], r["ecx"], r["edx"], r["ebx"],
                  "kesp", r["ebp"], r["esi"], r["edi"]>>
<1>1. /\ TrapType /\ st.pc = "alltraps" /\ job' = job
      /\ Entered(v, r, st.was) /\ AtAllTraps(a, r, v)
      /\ st' = [st EXCEPT !.pc = "trap", !.stack = a \o b]
  BY DEF TrapInv, AllTraps, At, Becomes
<1>2. r \in [Register -> Word]
  BY <1>1 DEF TrapType
<1> HIDE DEF r, v, a
<1>3. AtTrap(a \o b, r, v)
  <2>1. /\ b \in Seq(Word) /\ Len(b) = 10 /\ b[1] = r["ds"] /\ b[2] = r["es"]
        /\ b[3] = r["eax"] /\ b[4] = r["ecx"] /\ b[5] = r["edx"]
        /\ b[6] = r["ebx"] /\ b[8] = r["ebp"] /\ b[9] = r["esi"]
        /\ b[10] = r["edi"]
    BY <1>2, RegisterSet DEF Token
  <2> HIDE DEF b
  <2>2. a \in Seq(Word) /\ Len(a) = 7
    BY <1>1 DEF AtAllTraps
  <2> DEFINE s == a \o b
  <2>3. /\ s \in Seq(Word) /\ Len(s) = Len(a) + Len(b)
        /\ \A k \in 1 .. Len(a) : s[k] = a[k]
        /\ \A k \in Len(a) + 1 .. Len(a) + Len(b) : s[k] = b[k - Len(a)]
    BY <2>1, <2>2, Concatenated
  <2> HIDE DEF s
  <2>4. /\ s[8] = b[1] /\ s[9] = b[2] /\ s[10] = b[3] /\ s[11] = b[4]
        /\ s[12] = b[5] /\ s[13] = b[6] /\ s[15] = b[8] /\ s[16] = b[9]
        /\ s[17] = b[10]
    BY <2>1, <2>2, <2>3
  <2>5. /\ s[1] = a[1] /\ s[2] = a[2] /\ s[3] = a[3] /\ s[4] = a[4]
        /\ s[5] = a[5] /\ s[6] = a[6] /\ s[7] = a[7]
    BY <2>2, <2>3
  <2>6. s \in Seq(Word) /\ Len(s) = 17
    BY <2>1, <2>2, <2>3
  <2>7. AtTrap(s, r, v)
    BY <1>1, <2>1, <2>4, <2>5, <2>6 DEF AtTrap, AtAllTraps
  <2>8. QED
    BY <2>7 DEF s
<1> HIDE DEF b
<1>4. /\ TrapType' /\ st'.pc = "trap" /\ st'.stack = a \o b /\ st'.user = r
      /\ st'.was = st.was /\ st'.vector = v /\ st'.call = st.call
  BY <1>1, <1>3 DEF TrapType, AtTrap, r, v
<1>5. st'.call # <<>> => st'.call = <<"num", "a1", "a2", "a3", "a4", "a5">>
  BY <1>4 DEF TrapInv
<1>6. QED
  BY <1>1, <1>3, <1>4, <1>5 DEF TrapInv

(* The frame read off the stack. *)
LEMMA FrameOK ==
  ASSUME NEW s, NEW r, NEW v, AtTrap(s, r, v)
  PROVE  AsTrapframe(s) \in [Field -> Word] /\ Framed(AsTrapframe(s), r, v)
<1> DEFINE tf == AsTrapframe(s)
<1>1. s \in Seq(Word) /\ Len(s) = 17
  BY DEF AtTrap
<1>2. \A k \in 1 .. 17 : tf[Trapframe[k]] = s[18 - k]
  BY <1>1, FrameRead
<1>3. tf \in [Field -> Word]
  <2>1. tf = [f \in Field |-> tf[f]]
    BY DEF AsTrapframe
  <2>2. ASSUME NEW f \in Field PROVE tf[f] \in Word
    <3>1. PICK k \in 1 .. 17 : f = Trapframe[k]
      BY FrameLength DEF Field
    <3>2. 18 - k \in 1 .. Len(s)
      BY <1>1
    <3>3. s[18 - k] \in Word
      BY <1>1, <3>2, ElementOfSeq
    <3>4. QED
      BY <1>2, <3>1, <3>3
  <2> HIDE DEF tf
  <2>3. QED
    BY <2>1, <2>2
<1> HIDE DEF tf
<1>4. /\ tf["edi"] = s[17] /\ tf["esi"] = s[16] /\ tf["ebp"] = s[15]
      /\ tf["ebx"] = s[13] /\ tf["edx"] = s[12] /\ tf["ecx"] = s[11]
      /\ tf["eax"] = s[10] /\ tf["es"] = s[9] /\ tf["ds"] = s[8]
      /\ tf["trapno"] = s[7] /\ tf["err"] = s[6] /\ tf["eip"] = s[5]
      /\ tf["cs"] = s[4] /\ tf["eflags"] = s[3] /\ tf["esp"] = s[2]
      /\ tf["ss"] = s[1]
  <2>1. /\ Trapframe[1] = "edi" /\ Trapframe[2] = "esi" /\ Trapframe[3] = "ebp"
        /\ Trapframe[5] = "ebx" /\ Trapframe[6] = "edx" /\ Trapframe[7] = "ecx"
        /\ Trapframe[8] = "eax" /\ Trapframe[9] = "es" /\ Trapframe[10] = "ds"
        /\ Trapframe[11] = "trapno" /\ Trapframe[12] = "err"
        /\ Trapframe[13] = "eip" /\ Trapframe[14] = "cs"
        /\ Trapframe[15] = "eflags" /\ Trapframe[16] = "esp"
        /\ Trapframe[17] = "ss"
    BY DEF Trapframe
  <2>2. QED
    BY <1>2, <2>1
<1>5. Framed(tf, r, v)
  BY <1>4, RegisterSet DEF Framed, AtTrap
<1>6. QED
  BY <1>3, <1>5 DEF tf

(* trap copies the frame to the environment. *)
LEMMA TrapCopyInv == ASSUME TrapInv, TrapCopy PROVE TrapInv'
<1> DEFINE tf == AsTrapframe(st.stack)
<1>1. /\ TrapType /\ st.pc = "trap" /\ job' = job
      /\ Entered(st.vector, st.user, st.was)
      /\ AtTrap(st.stack, st.user, st.vector)
      /\ st' = [st EXCEPT !.pc = "trap_dispatch", !.tf = tf, !.stack = <<>>]
  BY DEF TrapInv, TrapCopy, At, Becomes
<1>2. tf \in [Field -> Word] /\ Framed(tf, st.was, st.vector)
  BY <1>1, FrameOK DEF Entered
<1> HIDE DEF tf
<1>3. /\ TrapType' /\ st'.pc = "trap_dispatch" /\ st'.tf = tf
      /\ st'.was = st.was /\ st'.vector = st.vector /\ st'.call = st.call
  <2>1. <<>> \in Seq(Word)
    OBVIOUS
  <2>2. QED
    BY <1>1, <1>2, <2>1 DEF TrapType
<1>4. QED
  BY <1>1, <1>2, <1>3 DEF TrapInv, Entered

(* trap_dispatch changes eax only, for a system call. *)
LEMMA TrapDispatchInv == ASSUME TrapInv, TrapDispatch PROVE TrapInv'
<1> DEFINE tf == st.tf
           args == <<tf["eax"], tf["edx"], tf["ecx"], tf["ebx"], tf["edi"],
                     tf["esi"]>>
<1>1. /\ TrapType /\ st.pc = "trap_dispatch" /\ job' = job
      /\ Framed(tf, st.was, st.vector) /\ tf["trapno"] = st.vector
      /\ st.vector = T_SYSCALL => CallRegs(st.was)
      /\ st' = IF tf["trapno"] = T_SYSCALL
               THEN [st EXCEPT !.pc = "env_run", !.call = args,
                               !.tf["eax"] = "ret"]
               ELSE [st EXCEPT !.pc = "done"]
  BY DEF TrapInv, TrapDispatch, At, Becomes, Framed
<1>2. tf \in [Field -> Word] /\ \A r \in Register : tf[r] = st.was[r]
  BY <1>1 DEF TrapType, Framed
<1>3. CASE st.vector = T_SYSCALL
  <2>1. args = <<"num", "a1", "a2", "a3", "a4", "a5">>
    BY <1>1, <1>2, <1>3, RegisterSet DEF CallRegs
  <2> DEFINE call == <<"num", "a1", "a2", "a3", "a4", "a5">>
             tg == [tf EXCEPT !["eax"] = "ret"]
  <2>2. call \in Seq(Word) /\ tg \in [Field -> Word]
    BY <1>2, RegisterSet DEF Token
  <2>3. st' = [st EXCEPT !.pc = "env_run", !.call = call, !.tf = tg]
    BY <1>1, <1>3, <2>1 DEF T_SYSCALL
  <2>4. \A r \in Register : tg[r] = st.was[r] \/ (r = "eax" /\ tg[r] = "ret")
    BY <1>2, RegisterSet
  <2> HIDE DEF call, tg
  <2>5. /\ TrapType' /\ st'.pc = "env_run" /\ st'.call = call /\ st'.tf = tg
        /\ st'.was = st.was /\ st'.vector = st.vector
    BY <1>1, <2>2, <2>3 DEF TrapType
  <2>6. Resumed(st'.tf, st'.was, st'.vector)
    BY <1>3, <2>4, <2>5 DEF Resumed
  <2>7. QED
    BY <2>5, <2>6 DEF TrapInv, call
<1>4. CASE st.vector # T_SYSCALL
  <2>1. st' = [st EXCEPT !.pc = "done"]
    BY <1>1, <1>4
  <2>2. TrapType' /\ st'.pc = "done" /\ st'.call = st.call
    BY <1>1, <2>1 DEF TrapType
  <2>3. QED
    BY <2>2 DEF TrapInv
<1>5. QED
  BY <1>3, <1>4

(* Whatever a program does to enter the kernel, the frame trap() finds is  *)
(* right and the program goes on with its registers, if the stubs of the   *)
(* vectors the processor raises are of the right kind.  The stubs of the   *)
(* vectors 7 and 8 are not.                                                *)
THEOREM TrapsTransparent ==
  ASSUME StubsAgree PROVE TrapSpec => []TrapTransparent
<1>1. TrapInit => TrapInv
  BY TrapStart
<1>2. TrapInv /\ [TrapNext]_routineVars => TrapInv'
  <2> SUFFICES ASSUME TrapInv, [TrapNext]_routineVars PROVE TrapInv'
    OBVIOUS
  <2>1. CASE UNCHANGED routineVars
    BY <2>1 DEF routineVars, TrapInv, TrapType
  <2>2. QED
    BY <2>1, EnvPopTfInv, RaiseExceptionInv, IntInstructionInv, StubInv,
       AllTrapsInv, TrapCopyInv, TrapDispatchInv DEF TrapNext
<1>3. TrapInv => TrapTransparent
  BY DEF TrapInv, TrapTransparent, Framed, ErrorWord, Resumed
<1>4. QED
  BY <1>1, <1>2, <1>3, PTL DEF TrapSpec

------------------------------------------------------------------------------
(* bootmain. *)
Mem == 0 .. MemEnd - 1
Byte == {<<"old">>, <<"zero">>, <<"unmapped">>} \cup ({"file"} \X Int)

BootState ==
  [pc : {"header", "read", "done"}, elf : ElfImage, k : Nat, pa : Nat,
   end_pa : Nat, sector : Nat, mem : [Mem -> Byte], entered : BOOLEAN]

(* The first m segments are loaded. *)
LoadedTo(s, m) ==
  \A j \in 1 .. m : SegmentLoaded(s.mem, s.elf.ph[j])

(* In the middle of reading a segment: what was read so far is in memory,  *)
(* as if the file began in memory at the address that the segment's start  *)
(* and offset say.                                                         *)
Reading(s) ==
  LET h == s.elf.ph[s.k]
  IN  /\ s.k \in 1 .. Len(s.elf.ph) /\ LoadedTo(s, s.k - 1)
      /\ s.end_pa = h.pa + h.memsz /\ RoundDown(h.pa, SECTSIZE) <= s.pa
      /\ s.sector * SECTSIZE + h.pa = s.pa + h.offset
      /\ \A a \in Mem : RoundDown(h.pa, SECTSIZE) <= a /\ a < s.pa =>
           s.mem[a] = <<"file", h.offset + a - h.pa>>

BootGood(s) ==
  /\ s \in BootState
  /\ s.pc = "header" => s.k = 0 /\ ~s.entered
  /\ s.pc = "read" => Reading(s) /\ ~s.entered
  /\ s.entered => LoadedTo(s, Len(s.elf.ph))

BootLoaderInv == job = "bootmain" /\ BootGood(st)

(* What the assumption says of the headers of one file. *)
LEMMA HeaderFacts ==
  ASSUME NEW e \in ElfImage
  PROVE  /\ e.magic \in BOOLEAN /\ e.ph \in Seq(Header) /\ Len(e.ph) \in Nat
         /\ \A k \in 1 .. Len(e.ph) :
              LET h == e.ph[k]
              IN  /\ h.pa \in Nat /\ h.memsz \in Nat /\ h.filesz \in Nat
                  /\ h.offset \in Nat /\ h.filesz <= h.memsz
                  /\ h.pa % SECTSIZE = h.offset % SECTSIZE
                  /\ h.pa + h.memsz <= MemEnd
         /\ \A j, k \in 1 .. Len(e.ph) :
              LET g == e.ph[j]  h == e.ph[k]
              IN  j < k /\ g.memsz > 0 /\ Reads(h) =>
                    /\ g.pa + g.memsz <= h.pa
                    /\ g.pa + g.memsz > RoundDown(h.pa, SECTSIZE) =>
                         /\ g.filesz = g.memsz
                         /\ h.pa - g.pa = h.offset - g.offset
<1>1. /\ e.magic \in BOOLEAN /\ e.ph \in Seq(Header) /\ WellFormed(e.ph)
      /\ Separate(e.ph) /\ SECTSIZE \in Nat \ {0} /\ MemEnd \in Nat
  BY BootLoaderAssumption
<1>2. Len(e.ph) \in Nat /\ DOMAIN e.ph = 1 .. Len(e.ph)
  BY <1>1
<1>3. ASSUME NEW k \in 1 .. Len(e.ph)
      PROVE  LET h == e.ph[k]
             IN  /\ h.pa \in Nat /\ h.memsz \in Nat /\ h.filesz \in Nat
                 /\ h.offset \in Nat /\ h.filesz <= h.memsz
                 /\ h.pa % SECTSIZE = h.offset % SECTSIZE
                 /\ h.pa + h.memsz <= MemEnd
  <2>1. e.ph[k] \in Header
    BY <1>1, ElementOfSeq
  <2>2. LET h == e.ph[k]
        IN  h.pa \in Nat /\ h.memsz \in Nat /\ h.filesz \in Nat /\ h.offset \in Nat
    BY <2>1 DEF Header
  <2>3. LET h == e.ph[k]
        IN  /\ h.filesz <= h.memsz /\ h.pa % SECTSIZE = h.offset % SECTSIZE
            /\ h.pa + h.memsz <= MemEnd - SECTSIZE
    BY <1>1, <1>2 DEF WellFormed
  <2>4. e.ph[k].pa + e.ph[k].memsz <= MemEnd
    <3> DEFINE q == e.ph[k].pa
               m == e.ph[k].memsz
    <3>1. q \in Nat /\ m \in Nat /\ q + m <= MemEnd - SECTSIZE
      BY <2>2, <2>3
    <3> HIDE DEF q, m
    <3>2. q + m <= MemEnd
      BY <1>1, <3>1
    <3>3. QED
      BY <3>2 DEF q, m
  <2>5. QED
    BY <2>2, <2>3, <2>4
<1>4. \A j, k \in 1 .. Len(e.ph) :
        LET g == e.ph[j]  h == e.ph[k]
        IN  j < k /\ g.memsz > 0 /\ Reads(h) => g.pa + g.memsz <= h.pa
  BY <1>1, <1>2 DEF WellFormed
<1>5. \A j, k \in 1 .. Len(e.ph) :
        LET g == e.ph[j]  h == e.ph[k]
        IN  j < k /\ g.memsz > 0 /\ Reads(h)
              /\ g.pa + g.memsz > RoundDown(h.pa, SECTSIZE) =>
              g.filesz = g.memsz /\ h.pa - g.pa = h.offset - g.offset
  BY <1>1, <1>2 DEF Separate
<1>6. QED
  BY <1>1, <1>2, <1>3, <1>4, <1>5

(* Rounding takes the remainder away. *)
LEMMA RoundDownRest ==
  ASSUME NEW a \in Nat, NEW size \in Nat \ {0}
  PROVE  /\ a = RoundDown(a, size) + (a % size)
         /\ RoundDown(a, size) = (a \div size) * size
         /\ a \div size \in Nat /\ a % size \in Nat
<1>1. a \div size \in Nat /\ a = size * (a \div size) + (a % size)
      /\ a % size \in Nat
  OBVIOUS
<1>2. QED
  BY <1>1 DEF RoundDown

(* The step to the next segment, or into the kernel. *)
LEMMA NextSegmentOK ==
  ASSUME NEW s \in BootState, s.k \in 0 .. Len(s.elf.ph), LoadedTo(s, s.k),
         ~s.entered
  PROVE  BootGood(NextSegment(s))
<1> DEFINE ph == s.elf.ph
           t == NextSegment(s)
<1>0. s.elf \in ElfImage /\ s.k \in Nat /\ Len(ph) \in Nat
      /\ SECTSIZE \in Nat \ {0}
  BY HeaderFacts, BootLoaderAssumption DEF BootState
<1>1. CASE s.k = Len(ph)
  <2>1. t = [s EXCEPT !.pc = "done", !.entered = TRUE]
    BY <1>1 DEF NextSegment
  <2> HIDE DEF t
  <2>2. t \in BootState /\ t.pc = "done" /\ t.elf = s.elf /\ t.mem = s.mem
    BY <2>1 DEF BootState
  <2>3. LoadedTo(t, Len(t.elf.ph))
    BY <1>1, <2>2 DEF LoadedTo
  <2>4. QED
    BY <2>2, <2>3 DEF BootGood, t
<1>2. CASE s.k # Len(ph)
  <2> DEFINE h == ph[s.k + 1]
             r == RoundDown(h.pa, SECTSIZE)
             sec == h.offset \div SECTSIZE
             k1 == s.k + 1
             e1 == h.pa + h.memsz
  <2>1. t = [[s EXCEPT !.k = s.k + 1] EXCEPT !.pc = "read", !.end_pa = e1,
                        !.pa = r, !.sector = sec]
    BY <1>2 DEF NextSegment, readseg
  <2>2. k1 \in 1 .. Len(ph) /\ k1 - 1 = s.k
    BY <1>0, <1>2
  <2>3. /\ h.pa \in Nat /\ h.memsz \in Nat /\ h.offset \in Nat
        /\ h.pa % SECTSIZE = h.offset % SECTSIZE
    BY <1>0, <2>2, HeaderFacts
  <2>4. /\ r \in Nat /\ sec \in Nat /\ h.pa = r + (h.pa % SECTSIZE)
        /\ h.pa % SECTSIZE \in Nat
        /\ h.offset = sec * SECTSIZE + (h.offset % SECTSIZE)
        /\ sec * SECTSIZE \in Nat
    <3>1. r \in Nat
      BY <1>0, <2>3, RoundDownFacts
    <3>2. h.pa = r + (h.pa % SECTSIZE) /\ h.pa % SECTSIZE \in Nat
      BY <1>0, <2>3, RoundDownRest
    <3>3. sec \in Nat /\ h.offset = sec * SECTSIZE + (h.offset % SECTSIZE)
      <4> DEFINE o == h.offset
      <4>1. o = RoundDown(o, SECTSIZE) + (o % SECTSIZE)
            /\ RoundDown(o, SECTSIZE) = (o \div SECTSIZE) * SECTSIZE
            /\ o \div SECTSIZE \in Nat
        BY <1>0, <2>3, RoundDownRest
      <4>2. QED
        BY <4>1
    <3> HIDE DEF sec
    <3>4. sec * SECTSIZE \in Nat
      BY <1>0, <3>3
    <3>5. QED
      BY <3>1, <3>2, <3>3, <3>4
  <2>5. e1 \in Nat /\ k1 \in Nat
    <3>1. h.pa \in Nat /\ h.memsz \in Nat
      BY <2>3
    <3> HIDE DEF h
    <3>2. QED
      BY <1>0, <3>1
  <2> DEFINE x == sec * SECTSIZE
  <2>6. x + h.pa = r + h.offset
    <3> DEFINE m == h.pa % SECTSIZE
               p == h.pa
               o == h.offset
    <3>1. p = r + m /\ o = x + m /\ r \in Nat /\ m \in Nat /\ x \in Nat
      BY <2>3, <2>4
    <3> HIDE DEF m, p, o, x, r
    <3>2. x + p = r + o
      BY <3>1
    <3>3. QED
      BY <3>2 DEF p, o
  <2> HIDE DEF t, r, sec, e1
  <2>7. /\ t \in BootState /\ t.pc = "read" /\ t.elf = s.elf /\ t.mem = s.mem
        /\ t.k = k1 /\ t.pa = r /\ t.end_pa = e1 /\ t.sector = sec
        /\ t.entered = s.entered
    <3> DEFINE u == [s EXCEPT !.k = k1]
    <3>1. t = [u EXCEPT !.pc = "read", !.end_pa = e1, !.pa = r, !.sector = sec]
      BY <2>1
    <3> HIDE DEF k1, h
    <3>2. /\ u \in BootState /\ u.elf = s.elf /\ u.mem = s.mem /\ u.k = k1
          /\ u.entered = s.entered
      BY <2>5 DEF BootState
    <3> HIDE DEF u
    <3>3. r \in Nat /\ sec \in Nat /\ e1 \in Nat
      BY <2>4, <2>5
    <3>4. QED
      BY <3>1, <3>2, <3>3 DEF BootState
  <2>8. LoadedTo(t, t.k - 1)
    BY <2>2, <2>7 DEF LoadedTo
  <2>9. \A a \in Mem : ~(r <= a /\ a < r)
    BY <2>4, BootLoaderAssumption DEF Mem
  <2>10. r <= r
    BY <2>4
  <2>11. Reading(t)
    BY <2>2, <2>6, <2>7, <2>8, <2>9, <2>10 DEF Reading, r, e1
  <2>12. QED
    BY <2>7, <2>11 DEF BootGood, t
<1>3. QED
  BY <1>1, <1>2

(* A sector read over the end of the segment before writes what is there,  *)
(* for the file holds the two side by side.                                *)
LEMMA ReadSectorInv ==
  ASSUME BootLoaderInv, ReadSector
  PROVE  BootLoaderInv'
<1> DEFINE s == st
           t == st'
           ph == st.elf.ph
           h == ph[st.k]
           p == st.pa
           x == st.sector * SECTSIZE
           r == RoundDown(h.pa, SECTSIZE)
           new(a) == IF p <= a /\ a < p + SECTSIZE
                     THEN <<"file", x + a - p>> ELSE st.mem[a]
           mem1 == [a \in Mem |-> new(a)]
<1>1. /\ job = "bootmain" /\ st \in BootState /\ st.pc = "read" /\ ~st.entered
      /\ Reading(st) /\ st.pa < st.end_pa
  BY DEF BootLoaderInv, BootGood, ReadSector, At
<1>2. /\ st.elf \in ElfImage /\ st.k \in Nat /\ st.pa \in Nat /\ st.sector \in Nat
      /\ st.mem \in [Mem -> Byte] /\ st.end_pa \in Nat
      /\ SECTSIZE \in Nat \ {0} /\ MemEnd \in Nat
  BY <1>1, BootLoaderAssumption DEF BootState
<1>3. /\ st.k \in 1 .. Len(ph) /\ LoadedTo(st, st.k - 1) /\ r <= p
      /\ st.end_pa = h.pa + h.memsz
      /\ x + h.pa = p + h.offset
      /\ \A a \in Mem : r <= a /\ a < p => st.mem[a] = <<"file", h.offset + a - h.pa>>
  BY <1>1 DEF Reading
<1>4. h.pa \in Nat /\ h.offset \in Nat /\ h.memsz \in Nat
  BY <1>2, <1>3, HeaderFacts
<1>5. r \in Nat
  BY <1>2, <1>4, RoundDownFacts
<1>6. x \in Nat /\ (st.sector + 1) * SECTSIZE = x + SECTSIZE /\ st.sector + 1 \in Nat
  <2> DEFINE c == st.sector
  <2>1. c \in Nat
    BY <1>2
  <2> HIDE DEF c
  <2>2. c * SECTSIZE \in Nat /\ (c + 1) * SECTSIZE = c * SECTSIZE + SECTSIZE
    BY <1>2, <2>1
  <2>3. QED
    BY <2>1, <2>2 DEF c
<1>7. job' = job /\ t = [st EXCEPT !.pa = p + SECTSIZE, !.sector = st.sector + 1,
                                   !.mem = mem1]
  BY <1>2 DEF ReadSector, Becomes
<1> DEFINE hp == h.pa
           ho == h.offset
<1>8. \A a \in Mem : p <= a /\ a < p + SECTSIZE =>
        mem1[a] = <<"file", ho + a - hp>>
  <2> SUFFICES ASSUME NEW a \in Mem, p <= a, a < p + SECTSIZE
               PROVE  mem1[a] = <<"file", ho + a - hp>>
    OBVIOUS
  <2>1. mem1[a] = <<"file", x + a - p>>
    OBVIOUS
  <2>2. x + a - p = ho + a - hp
    <3>1. x + hp = p + ho /\ x \in Nat /\ hp \in Nat /\ p \in Nat /\ ho \in Nat
      BY <1>2, <1>3, <1>4, <1>6
    <3>2. a \in Int
      BY <1>2 DEF Mem
    <3> HIDE DEF x, hp, p, ho
    <3>3. QED
      BY <3>1, <3>2
  <2>3. QED
    BY <2>1, <2>2
<1>9. \A a \in Mem : ~(p <= a /\ a < p + SECTSIZE) => mem1[a] = st.mem[a]
  OBVIOUS
<1>10. mem1 \in [Mem -> Byte]
  <2>1. ASSUME NEW a \in Mem PROVE new(a) \in Byte
    <3>1. CASE p <= a /\ a < p + SECTSIZE
      <4>1. x + a - p \in Int
        <5>1. x \in Nat /\ a \in Int /\ p \in Nat
          BY <1>2, <1>6 DEF Mem
        <5> HIDE DEF x, p
        <5>2. QED
          BY <5>1
      <4>2. QED
        BY <3>1, <4>1 DEF Byte
    <3>2. CASE ~(p <= a /\ a < p + SECTSIZE)
      BY <1>2, <3>2
    <3>3. QED
      BY <3>1, <3>2
  <2> HIDE DEF new
  <2>2. QED
    BY <2>1
<1> HIDE DEF t, mem1
<1> DEFINE p1 == p + SECTSIZE
           c1 == st.sector + 1
<1>11. /\ t \in BootState /\ t.pc = "read" /\ ~t.entered /\ t.elf = st.elf
       /\ t.k = st.k /\ t.end_pa = st.end_pa /\ t.mem = mem1
       /\ t.pa = p1 /\ t.sector = c1 /\ p1 \in Nat /\ r <= p1
  <2>1. p1 \in Nat /\ r <= p1
    <3>1. p \in Nat /\ r \in Nat /\ r <= p
      BY <1>2, <1>3, <1>5
    <3> HIDE DEF p, r
    <3>2. QED
      BY <1>2, <3>1
  <2>2. c1 \in Nat
    BY <1>6
  <2>3. t = [st EXCEPT !.pa = p1, !.sector = c1, !.mem = mem1]
    BY <1>7
  <2> HIDE DEF p1, c1, r
  <2>4. QED
    BY <1>1, <1>10, <2>1, <2>2, <2>3 DEF BootState
<1>12. Reads(h)
  <2> DEFINE q == h.pa
             m == h.memsz
             d == h.pa % SECTSIZE
  <2>1. /\ q \in Nat /\ m \in Nat /\ p \in Nat /\ r \in Nat /\ d \in Nat
        /\ r <= p /\ p < q + m /\ q = r + d
    BY <1>1, <1>2, <1>3, <1>4, <1>5, RoundDownRest
  <2> HIDE DEF q, m, d, p, r
  <2>2. m > 0 \/ d # 0
    BY <2>1
  <2>3. QED
    BY <2>2 DEF Reads, m, d
<1>13. LoadedTo(t, t.k - 1)
  <2> SUFFICES ASSUME NEW j \in 1 .. st.k - 1
               PROVE  SegmentLoaded(mem1, ph[j])
    BY <1>11 DEF LoadedTo
  <2> DEFINE g == ph[j]
  <2>1. j \in 1 .. Len(ph) /\ j < st.k
    BY <1>2, <1>3, HeaderFacts
  <2>2. /\ g.pa \in Nat /\ g.memsz \in Nat /\ g.filesz \in Nat /\ g.offset \in Nat
        /\ g.pa + g.memsz <= MemEnd
    BY <1>2, <2>1, HeaderFacts
  <2>3. g.memsz > 0 =>
          /\ g.pa + g.memsz <= h.pa
          /\ g.pa + g.memsz > r =>
               g.filesz = g.memsz /\ h.pa - g.pa = h.offset - g.offset
    BY <1>2, <1>3, <1>12, <2>1, HeaderFacts
  <2>4. SegmentLoaded(st.mem, g)
    BY <1>3, <2>1 DEF LoadedTo
  <2> SUFFICES ASSUME NEW y \in 0 .. g.memsz - 1
               PROVE  mem1[g.pa + y] = IF y < g.filesz
                                       THEN <<"file", g.offset + y>>
                                       ELSE <<"zero">>
    BY DEF SegmentLoaded
  <2> DEFINE gp == g.pa
             gm == g.memsz
             go == g.offset
             gf == g.filesz
             a == gp + y
  <2>5. /\ gp \in Nat /\ gm \in Nat /\ gf \in Nat /\ go \in Nat
        /\ gp + gm <= MemEnd /\ hp \in Nat /\ ho \in Nat
        /\ gp + gm <= hp
        /\ gp + gm > r => gf = gm /\ hp - gp = ho - go
        /\ y \in 0 .. gm - 1
    <3>1. gm \in Nat /\ y \in 0 .. gm - 1
      BY <2>2
    <3> HIDE DEF gm
    <3>2. gm > 0
      BY <3>1
    <3>3. QED
      BY <2>2, <2>3, <1>4, <3>2 DEF gm
  <2>6. st.mem[a] = IF y < gf THEN <<"file", go + y>> ELSE <<"zero">>
    BY <2>4 DEF SegmentLoaded
  <2>7. mem1[a] = IF y < gf THEN <<"file", go + y>> ELSE <<"zero">>
    <3> HIDE DEF gp, gm, go, gf, g, h, ph, hp, ho, p, r
    <3>1. a \in Mem /\ a \in Int
      BY <1>2, <2>5 DEF Mem
    <3>2. CASE p <= a /\ a < p + SECTSIZE
      <4>1. p \in Nat /\ r \in Nat /\ r <= p
        BY <1>2, <1>3, <1>5 DEF p
      <4>2. gp + gm > r
        BY <2>5, <3>2, <4>1
      <4>3. gf = gm /\ hp - gp = ho - go
        BY <2>5, <4>2
      <4>4. y < gf /\ ho + a - hp = go + y
        BY <2>5, <4>3
      <4>5. mem1[a] = <<"file", ho + a - hp>>
        BY <1>8, <3>1, <3>2
      <4>6. QED
        BY <4>4, <4>5
    <3>3. CASE ~(p <= a /\ a < p + SECTSIZE)
      <4>1. mem1[a] = st.mem[a]
        BY <1>9, <3>1, <3>3
      <4>2. QED
        BY <2>6, <4>1
    <3>4. QED
      BY <3>2, <3>3
  <2>8. QED
    BY <2>7
<1>14. \A a \in Mem : r <= a /\ a < p1 => mem1[a] = <<"file", ho + a - hp>>
  <2> SUFFICES ASSUME NEW a \in Mem, r <= a, a < p1
               PROVE  mem1[a] = <<"file", ho + a - hp>>
    OBVIOUS
  <2>1. a \in Int /\ p \in Nat
    BY <1>2 DEF Mem
  <2>2. CASE p <= a
    BY <1>8, <2>2
  <2>3. CASE a < p
    <3>1. ~(p <= a /\ a < p + SECTSIZE)
      BY <2>1, <2>3
    <3>2. mem1[a] = st.mem[a]
      BY <1>9, <3>1
    <3>3. QED
      BY <1>3, <2>3, <3>2
  <2>4. QED
    BY <2>1, <2>2, <2>3
<1>15. c1 * SECTSIZE + hp = p1 + ho
  <2>1. /\ x + hp = p + ho /\ x \in Nat /\ hp \in Nat /\ p \in Nat /\ ho \in Nat
        /\ c1 * SECTSIZE = x + SECTSIZE
    BY <1>2, <1>3, <1>4, <1>6
  <2> DEFINE z == c1 * SECTSIZE
  <2>2. z = x + SECTSIZE
    BY <2>1
  <2> HIDE DEF x, hp, p, ho, z
  <2>3. z + hp = p + SECTSIZE + ho
    BY <1>2, <2>1, <2>2
  <2>4. QED
    BY <2>3 DEF z
<1>16. Reading(t)
  <2>1. t.elf.ph[t.k] = h /\ t.k \in 1 .. Len(t.elf.ph)
    BY <1>3, <1>11
  <2> HIDE DEF h, ph, p1, c1
  <2>2. QED
    BY <1>3, <1>11, <1>13, <1>14, <1>15, <2>1 DEF Reading
<1>17. QED
  BY <1>1, <1>7, <1>11, <1>16 DEF BootLoaderInv, BootGood, t

(* With the rest cleared the segment is loaded. *)
LEMMA ClearRestInv ==
  ASSUME BootLoaderInv, ClearRest
  PROVE  BootLoaderInv'
<1> DEFINE ph == st.elf.ph
           h == ph[st.k]
           p == st.pa
           r == RoundDown(h.pa, SECTSIZE)
           new(a) == IF h.pa + h.filesz <= a /\ a < h.pa + h.memsz
                     THEN <<"zero">> ELSE st.mem[a]
           mem1 == [a \in Mem |-> new(a)]
           u == [st EXCEPT !.mem = mem1]
<1>1. /\ job = "bootmain" /\ st \in BootState /\ st.pc = "read" /\ ~st.entered
      /\ Reading(st) /\ st.pa >= st.end_pa
  BY DEF BootLoaderInv, BootGood, ClearRest, At
<1>2. /\ st.elf \in ElfImage /\ st.k \in Nat /\ st.pa \in Nat
      /\ st.mem \in [Mem -> Byte] /\ st.end_pa \in Nat
      /\ SECTSIZE \in Nat \ {0} /\ MemEnd \in Nat
  BY <1>1, BootLoaderAssumption DEF BootState
<1>3. /\ st.k \in 1 .. Len(ph) /\ LoadedTo(st, st.k - 1)
      /\ st.end_pa = h.pa + h.memsz
      /\ \A a \in Mem : r <= a /\ a < p => st.mem[a] = <<"file", h.offset + a - h.pa>>
  BY <1>1 DEF Reading
<1>4. /\ h.pa \in Nat /\ h.offset \in Nat /\ h.memsz \in Nat /\ h.filesz \in Nat
      /\ h.filesz <= h.memsz /\ h.pa + h.memsz <= MemEnd
  BY <1>2, <1>3, HeaderFacts
<1>5. r \in Nat /\ r <= h.pa
  BY <1>2, <1>4, RoundDownFacts
<1>6. job' = job /\ st' = NextSegment(u)
  BY <1>2 DEF ClearRest, Becomes
<1>7. mem1 \in [Mem -> Byte]
  <2>1. ASSUME NEW a \in Mem PROVE new(a) \in Byte
    BY <1>2 DEF Byte
  <2> HIDE DEF new
  <2>2. QED
    BY <2>1
<1> DEFINE hp == h.pa
           ho == h.offset
           hm == h.memsz
           hf == h.filesz
<1>8. \A a \in Mem : mem1[a] = IF hp + hf <= a /\ a < hp + hm
                               THEN <<"zero">> ELSE st.mem[a]
  OBVIOUS
<1> HIDE DEF mem1
<1>9. /\ u \in BootState /\ u.elf = st.elf /\ u.k = st.k /\ u.mem = mem1
      /\ u.entered = st.entered
  BY <1>1, <1>7 DEF BootState
<1>10. ASSUME NEW j \in 1 .. st.k PROVE SegmentLoaded(mem1, ph[j])
  <2> DEFINE g == ph[j]
  <2>1. j \in 1 .. Len(ph)
    BY <1>2, <1>3, HeaderFacts
  <2>2. /\ g.pa \in Nat /\ g.memsz \in Nat /\ g.filesz \in Nat /\ g.offset \in Nat
        /\ g.pa + g.memsz <= MemEnd
    BY <1>2, <2>1, HeaderFacts
  <2> SUFFICES ASSUME NEW y \in 0 .. g.memsz - 1
               PROVE  mem1[g.pa + y] = IF y < g.filesz
                                       THEN <<"file", g.offset + y>>
                                       ELSE <<"zero">>
    BY DEF SegmentLoaded
  <2>3. CASE j < st.k
    <3>1. g.memsz > 0 /\ Reads(h) => g.pa + g.memsz <= h.pa
      BY <1>2, <1>3, <2>1, <2>3, HeaderFacts
    <3>2. SegmentLoaded(st.mem, g)
      BY <1>2, <1>3, <2>3 DEF LoadedTo
    <3> DEFINE gp == g.pa
               gm == g.memsz
               a == gp + y
    <3>3. /\ gp \in Nat /\ gm \in Nat /\ y \in 0 .. gm - 1
          /\ gm > 0 /\ hm > 0 => gp + gm <= hp
          /\ hp \in Nat /\ hf \in Nat /\ hm \in Nat /\ gp + gm <= MemEnd
      BY <1>4, <2>2, <3>1 DEF Reads
    <3>4. a \in Mem /\ ~(hp + hf <= a /\ a < hp + hm)
      <4> HIDE DEF gp, gm, hp, hf, hm
      <4>1. QED
        BY <1>2, <3>3 DEF Mem
    <3>5. mem1[a] = st.mem[a]
      BY <1>8, <3>4
    <3>6. QED
      BY <3>2, <3>5 DEF SegmentLoaded
  <2>4. CASE j = st.k
    <3> DEFINE a == hp + y
    <3>1. /\ hp \in Nat /\ hm \in Nat /\ hf \in Nat /\ ho \in Nat /\ hf <= hm
          /\ hp + hm <= MemEnd /\ y \in 0 .. hm - 1
          /\ p \in Nat /\ hp + hm <= p /\ r \in Nat /\ r <= hp
      BY <1>1, <1>2, <1>3, <1>4, <1>5, <2>4
    <3>2. a \in Mem /\ r <= a /\ a < p /\ a < hp + hm
      <4> HIDE DEF hp, hm, p, r
      <4>1. QED
        BY <1>2, <3>1 DEF Mem
    <3>3. st.mem[a] = <<"file", ho + a - hp>>
      BY <1>3, <3>2
    <3>4. CASE y < hf
      <4>1. ~(hp + hf <= a) /\ ho + a - hp = ho + y
        <5> HIDE DEF hp, hm, hf, ho
        <5>1. QED
          BY <3>1, <3>4
      <4>2. mem1[a] = st.mem[a]
        BY <1>8, <3>2, <4>1
      <4>3. mem1[a] = <<"file", ho + y>>
        <5> HIDE DEF a, hp, ho
        <5>1. QED
          BY <3>3, <4>1, <4>2
      <4>4. QED
        BY <2>4, <3>4, <4>3
    <3>5. CASE ~(y < hf)
      <4>1. hp + hf <= a
        <5> HIDE DEF hp, hm, hf, ho
        <5>1. QED
          BY <3>1, <3>5
      <4>2. mem1[a] = <<"zero">>
        BY <1>8, <3>2, <4>1
      <4>3. QED
        BY <2>4, <3>5, <4>2
    <3>6. QED
      BY <3>4, <3>5
  <2>5. QED
    BY <1>2, <2>3, <2>4
<1> HIDE DEF u
<1>11. LoadedTo(u, u.k) /\ u.k \in 0 .. Len(u.elf.ph)
  BY <1>2, <1>3, <1>9, <1>10 DEF LoadedTo
<1>12. BootGood(NextSegment(u))
  BY <1>1, <1>9, <1>11, NextSegmentOK
<1>13. QED
  BY <1>1, <1>6, <1>12 DEF BootLoaderInv

(* The check of the magic number starts the first segment. *)
LEMMA CheckMagicInv ==
  ASSUME BootLoaderInv, CheckMagic
  PROVE  BootLoaderInv'
<1>1. /\ job = "bootmain" /\ st \in BootState /\ st.pc = "header" /\ ~st.entered
      /\ st.k = 0
  BY DEF BootLoaderInv, BootGood, CheckMagic, At
<1>2. job' = job /\ st' = IF st.elf.magic THEN NextSegment(st)
                          ELSE [st EXCEPT !.pc = "done"]
  BY DEF CheckMagic, Becomes
<1>3. CASE st.elf.magic
  <2>1. st.k \in 0 .. Len(st.elf.ph) /\ LoadedTo(st, st.k)
    BY <1>1, HeaderFacts DEF LoadedTo, BootState
  <2>2. BootGood(NextSegment(st))
    BY <1>1, <2>1, NextSegmentOK
  <2>3. QED
    BY <1>1, <1>2, <1>3, <2>2 DEF BootLoaderInv
<1>4. CASE ~st.elf.magic
  <2>1. st' = [st EXCEPT !.pc = "done"]
    BY <1>2, <1>4
  <2>2. st' \in BootState /\ st'.pc = "done" /\ ~st'.entered
    BY <1>1, <2>1 DEF BootState
  <2>3. QED
    BY <1>1, <1>2, <2>2 DEF BootLoaderInv, BootGood
<1>5. QED
  BY <1>3, <1>4

(* bootmain of boot/main.c: whenever the kernel is entered, every segment  *)
(* of its file is in memory byte for byte and the rest of it is clear, for *)
(* every sector size, memory and file the linker makes.                    *)
THEOREM BootmainLoads == BootLoaderSpec => []ImageLoaded
<1>1. BootLoaderInit => BootLoaderInv
  <2> SUFFICES ASSUME BootLoaderInit PROVE BootLoaderInv
    OBVIOUS
  <2> DEFINE mem0 == [a \in Mem |-> <<"old">>]
  <2>1. mem0 \in [Mem -> Byte]
    BY DEF Byte
  <2>2. PICK e \in ElfImage :
          st = [pc |-> "header", elf |-> e, k |-> 0, pa |-> 0, end_pa |-> 0,
                sector |-> 0, mem |-> mem0, entered |-> FALSE]
    BY DEF BootLoaderInit, Mem
  <2> HIDE DEF mem0
  <2>3. st \in BootState /\ st.pc = "header" /\ st.k = 0 /\ ~st.entered
    BY <2>1, <2>2 DEF BootState
  <2>4. QED
    BY <2>3 DEF BootLoaderInv, BootGood, BootLoaderInit
<1>2. BootLoaderInv /\ [BootLoaderNext]_routineVars => BootLoaderInv'
  <2> SUFFICES ASSUME BootLoaderInv, [BootLoaderNext]_routineVars
               PROVE  BootLoaderInv'
    OBVIOUS
  <2>1. CASE UNCHANGED routineVars
    BY <2>1 DEF routineVars, BootLoaderInv
  <2>2. QED
    BY <2>1, ReadSectorInv, ClearRestInv, CheckMagicInv DEF BootLoaderNext
<1>3. BootLoaderInv => ImageLoaded
  <2> SUFFICES ASSUME BootLoaderInv PROVE ImageLoaded
    OBVIOUS
  <2>1. job # "load_icode" /\ BootGood(st)
    BY DEF BootLoaderInv
  <2>2. ASSUME st.entered, NEW k \in DOMAIN st.elf.ph
        PROVE  SegmentLoaded(st.mem, st.elf.ph[k])
    <3>1. st.elf.ph \in Seq(Header) /\ LoadedTo(st, Len(st.elf.ph))
      BY <2>1, <2>2, HeaderFacts DEF BootGood, BootState
    <3>2. k \in 1 .. Len(st.elf.ph)
      BY <3>1
    <3>3. QED
      BY <3>1, <3>2 DEF LoadedTo
  <2>3. QED
    BY <2>1, <2>2 DEF ImageLoaded
<1>4. QED
  BY <1>1, <1>2, <1>3, PTL DEF BootLoaderSpec

------------------------------------------------------------------------------
(* load_icode. *)
IcodeState ==
  [pc : {"header", "segment", "stack", "done"}, elf : IcodeImage, k : Nat,
   begin : Nat, end : Nat, mem : [Mem -> Byte], entered : BOOLEAN]

Lo(h) == RoundDown(h.pa, IcodePage)
Hi(h) == RoundUp(h.pa + h.memsz, IcodePage)

(* a is in a page of one of the segments before the k-th. *)
InPages(s, a) ==
  \E j \in 1 .. s.k - 1 :
    s.elf.ph[j].load /\ Lo(s.elf.ph[j]) <= a /\ a < Hi(s.elf.ph[j])

(* The pages mapped are those of the segments before, and those at from    *)
(* and above that region_alloc has got to.                                 *)
MappedTo(s, from, to) ==
  \A a \in Mem : s.mem[a] # <<"unmapped">> <=>
                   (InPages(s, a) \/ (from <= a /\ a < to))

IcodeLoaded(s) ==
  \A j \in 1 .. s.k - 1 :
    s.elf.ph[j].load => SegmentLoaded(s.mem, s.elf.ph[j])

InSegment(s) ==
  LET h == s.elf.ph[s.k]
  IN  /\ s.k \in 1 .. Len(s.elf.ph) /\ h.load
      /\ Lo(h) <= s.begin /\ s.begin <= s.end /\ s.begin % IcodePage = 0
      /\ s.end = Hi(h)
      /\ MappedTo(s, Lo(h), s.begin)

InStack(s) ==
  /\ s.k = Len(s.elf.ph) + 1
  /\ MemEnd - IcodePage <= s.begin /\ s.begin <= MemEnd /\ s.begin % IcodePage = 0
  /\ s.end = MemEnd
  /\ MappedTo(s, MemEnd - IcodePage, s.begin)

IcodeGood(s) ==
  /\ s \in IcodeState
  /\ s.k \in 1 .. Len(s.elf.ph) + 1 /\ IcodeLoaded(s)
  /\ s.pc = "header" => MappedTo(s, 0, 0)
  /\ s.pc = "segment" => InSegment(s)
  /\ s.pc = "stack" => InStack(s)
  /\ s.entered => s.pc = "done"
  /\ s.pc = "done" => InStack(s) /\ s.begin = MemEnd

IcodeInv == job = "load_icode" /\ IcodeGood(st)

(* Rounding up gives a multiple, not below. *)
LEMMA RoundUpFacts ==
  ASSUME NEW n \in Nat, NEW size \in Nat \ {0}
  PROVE  /\ RoundUp(n, size) \in Nat /\ RoundUp(n, size) % size = 0
         /\ n <= RoundUp(n, size)
<1> DEFINE m == n + size - 1
<1>1. m \in Nat
  OBVIOUS
<1>2. RoundUp(n, size) = RoundDown(m, size)
  BY DEF RoundUp, RoundDown
<1>3. /\ RoundDown(m, size) \in Nat /\ RoundDown(m, size) % size = 0
      /\ m < RoundDown(m, size) + size
  BY <1>1, RoundDownFacts
<1>4. n <= RoundDown(m, size)
  <2> DEFINE r == RoundDown(m, size)
  <2>1. r \in Nat /\ n + size - 1 < r + size
    BY <1>3
  <2> HIDE DEF r
  <2>2. n <= r
    BY <2>1
  <2>3. QED
    BY <2>2 DEF r
<1>5. QED
  BY <1>2, <1>3, <1>4

(* The last page is the stack's, and memory ends with it. *)
LEMMA IcodeBounds ==
  /\ IcodePage \in Nat \ {0} /\ MemEnd \in Nat /\ MemEnd - IcodePage \in Nat
  /\ MemEnd % IcodePage = 0 /\ (MemEnd - IcodePage) % IcodePage = 0
  /\ RoundDown(MemEnd - IcodePage, IcodePage) = MemEnd - IcodePage
  /\ RoundUp((MemEnd - IcodePage) + IcodePage, IcodePage) = MemEnd
<1> DEFINE P == IcodePage
           x == MemEnd - P
<1>1. P \in Nat \ {0} /\ MemEnd \in Nat /\ x \in Nat /\ MemEnd % P = 0
      /\ x + P = MemEnd
  BY BootLoaderAssumption
<1> HIDE DEF P, x
<1>2. x % P = 0
  <2> DEFINE i == MemEnd \div P
  <2>1. i \in Nat /\ MemEnd = P * i + (MemEnd % P)
    BY <1>1
  <2>2. i \in Nat /\ MemEnd = P * i
    BY <1>1, <2>1
  <2> HIDE DEF i
  <2>3. i # 0
    BY <1>1, <2>2
  <2>4. i - 1 \in Nat /\ x = P * (i - 1)
    BY <1>1, <2>2, <2>3
  <2>5. \A q \in Nat : (P * q) % P = 0
    BY <1>1
  <2>6. QED
    BY <2>4, <2>5
<1>3. RoundDown(x, P) = x
  BY <1>1, <1>2, RoundDownUnique
<1>4. RoundUp(x + P, P) = MemEnd
  <2> DEFINE m == MemEnd + P - 1
  <2>1. m \in Nat /\ MemEnd <= m /\ m < MemEnd + P
    BY <1>1
  <2>2. RoundUp(x + P, P) = RoundDown(m, P)
    BY <1>1 DEF RoundUp, RoundDown
  <2> HIDE DEF m
  <2>3. QED
    BY <1>1, <2>1, <2>2, RoundDownUnique
<1>5. QED
  BY <1>1, <1>2, <1>3, <1>4 DEF P, x

(* What the assumption says of the headers of one program. *)
LEMMA IcodeFacts ==
  ASSUME NEW e \in IcodeImage
  PROVE  /\ e.ph \in Seq(IcodeHdr) /\ Len(e.ph) \in Nat
         /\ \A k \in 1 .. Len(e.ph) : e.ph[k].load \in BOOLEAN
         /\ \A k \in 1 .. Len(e.ph) :
              LET h == e.ph[k]
              IN  h.load =>
                    /\ h.pa \in Nat /\ h.memsz \in Nat /\ h.filesz \in Nat
                    /\ h.offset \in Nat /\ h.filesz <= h.memsz
                    /\ h.pa + h.memsz <= MemEnd - IcodePage
                    /\ Lo(h) \in Nat /\ Hi(h) \in Nat /\ Lo(h) <= h.pa
                    /\ h.pa + h.memsz <= Hi(h) /\ Lo(h) <= Hi(h)
                    /\ Lo(h) % IcodePage = 0 /\ Hi(h) % IcodePage = 0
         /\ \A j, k \in 1 .. Len(e.ph) :
              j < k /\ e.ph[j].load /\ e.ph[k].load =>
                Hi(e.ph[j]) <= Lo(e.ph[k]) \/ Hi(e.ph[k]) <= Lo(e.ph[j])
<1>1. /\ e.ph \in Seq(IcodeHdr) /\ Untouching(e.ph)
      /\ IcodePage \in Nat \ {0} /\ MemEnd \in Nat
  BY BootLoaderAssumption
<1>2. Len(e.ph) \in Nat /\ DOMAIN e.ph = 1 .. Len(e.ph)
  BY <1>1
<1>3. ASSUME NEW k \in 1 .. Len(e.ph)
      PROVE  LET h == e.ph[k]
             IN  /\ h.load \in BOOLEAN
                 /\ h.pa \in Nat /\ h.memsz \in Nat /\ h.filesz \in Nat
                 /\ h.offset \in Nat
  <2>1. e.ph[k] \in IcodeHdr
    BY <1>1, ElementOfSeq
  <2>2. QED
    BY <2>1 DEF IcodeHdr
<1>4. ASSUME NEW k \in 1 .. Len(e.ph), e.ph[k].load
      PROVE  LET h == e.ph[k]
             IN  /\ h.filesz <= h.memsz
                 /\ h.pa + h.memsz <= MemEnd - IcodePage
                 /\ Lo(h) \in Nat /\ Hi(h) \in Nat /\ Lo(h) <= h.pa
                 /\ h.pa + h.memsz <= Hi(h) /\ Lo(h) <= Hi(h)
                 /\ Lo(h) % IcodePage = 0 /\ Hi(h) % IcodePage = 0
  <2> DEFINE h == e.ph[k]
             p == h.pa
             m == h.memsz
  <2>1. h.filesz <= h.memsz /\ h.pa + h.memsz <= MemEnd - IcodePage
    BY <1>1, <1>2, <1>4 DEF Untouching
  <2>2. p \in Nat /\ m \in Nat
    BY <1>3
  <2>3. Lo(h) = RoundDown(p, IcodePage) /\ Hi(h) = RoundUp(p + m, IcodePage)
    BY DEF Lo, Hi
  <2> HIDE DEF p, m, h
  <2>4. Lo(h) \in Nat /\ Lo(h) % IcodePage = 0 /\ Lo(h) <= p
    BY <1>1, <2>2, <2>3, RoundDownFacts
  <2>5. p + m \in Nat
    BY <2>2
  <2>6. Hi(h) \in Nat /\ Hi(h) % IcodePage = 0 /\ p + m <= Hi(h)
    BY <1>1, <2>3, <2>5, RoundUpFacts
  <2>7. Lo(h) <= Hi(h)
    BY <2>2, <2>4, <2>6
  <2>8. QED
    BY <2>1, <2>4, <2>6, <2>7 DEF p, m, h
<1>5. \A j, k \in 1 .. Len(e.ph) :
        j < k /\ e.ph[j].load /\ e.ph[k].load =>
          Hi(e.ph[j]) <= Lo(e.ph[k]) \/ Hi(e.ph[k]) <= Lo(e.ph[j])
  BY <1>1, <1>2 DEF Untouching, Lo, Hi
<1>6. QED
  BY <1>1, <1>2, <1>3, <1>4, <1>5

(* A page that region_alloc maps takes nothing from the segments before    *)
(* when it is none of theirs.                                              *)
LEMMA PageStep ==
  ASSUME NEW from \in Nat, st \in IcodeState, st.k \in 1 .. Len(st.elf.ph) + 1,
         IcodeLoaded(st), MappedTo(st, from, st.begin), from <= st.begin,
         st.begin % IcodePage = 0, IcodePageAlloc,
         \A j \in 1 .. st.k - 1 : st.elf.ph[j].load =>
           LET g == st.elf.ph[j]
           IN  g.pa + g.memsz <= st.begin \/ st.begin + IcodePage <= g.pa
  PROVE  /\ job' = job /\ st' \in IcodeState /\ IcodeLoaded(st')
         /\ MappedTo(st', from, st'.begin)
         /\ st'.begin = st.begin + IcodePage /\ st'.begin % IcodePage = 0
         /\ st'.pc = st.pc /\ st'.elf = st.elf /\ st'.k = st.k
         /\ st'.end = st.end /\ st'.entered = st.entered
<1> DEFINE P == IcodePage
           b == st.begin
           b1 == b + P
           new(a) == IF RoundDown(a, P) = b THEN <<"old">> ELSE st.mem[a]
           mem1 == [a \in Mem |-> new(a)]
           t == st'
<1>1. /\ P \in Nat \ {0} /\ MemEnd \in Nat /\ b \in Nat /\ b % P = 0
      /\ st.mem \in [Mem -> Byte] /\ st.elf \in IcodeImage /\ st.k \in Nat
  BY IcodeBounds DEF IcodeState
<1>2. job' = job /\ t = [st EXCEPT !.begin = b1, !.mem = mem1]
  BY <1>1 DEF IcodePageAlloc, Becomes
<1> HIDE DEF b, P
<1>3. b1 \in Nat /\ b1 % P = 0
  <2>1. (b + P) % P = 0
    BY <1>1, NextMultiple
  <2>2. b + P \in Nat
    BY <1>1
  <2>3. QED
    BY <2>1, <2>2
<1>4. \A a \in Mem : RoundDown(a, P) = b <=> (b <= a /\ a < b1)
  <2> SUFFICES ASSUME NEW a \in Mem
               PROVE  RoundDown(a, P) = b <=> (b <= a /\ a < b1)
    OBVIOUS
  <2>1. a \in Nat
    BY <1>1 DEF Mem
  <2>2. RoundDown(a, P) <= a /\ a < RoundDown(a, P) + P
    BY <1>1, <2>1, RoundDownFacts
  <2>3. ASSUME b <= a, a < b1 PROVE RoundDown(a, P) = b
    BY <1>1, <2>1, <2>3, RoundDownUnique
  <2>4. QED
    BY <2>2, <2>3
<1>5. \A a \in Mem : mem1[a] = IF b <= a /\ a < b1 THEN <<"old">> ELSE st.mem[a]
  BY <1>4
<1>6. mem1 \in [Mem -> Byte]
  BY <1>1 DEF Byte
<1> HIDE DEF mem1, b1
<1>7. /\ t \in IcodeState /\ t.begin = b1 /\ t.pc = st.pc /\ t.elf = st.elf
      /\ t.k = st.k /\ t.end = st.end /\ t.entered = st.entered /\ t.mem = mem1
  BY <1>2, <1>3, <1>6 DEF IcodeState
<1>8. IcodeLoaded(t)
  <2> SUFFICES ASSUME NEW j \in 1 .. st.k - 1, st.elf.ph[j].load
               PROVE  SegmentLoaded(mem1, st.elf.ph[j])
    BY <1>7 DEF IcodeLoaded
  <2> DEFINE g == st.elf.ph[j]
             gp == g.pa
             gm == g.memsz
  <2>1. j \in 1 .. Len(st.elf.ph)
    BY <1>1, IcodeFacts
  <2>2. gp \in Nat /\ gm \in Nat /\ gp + gm <= MemEnd - P
    BY <1>1, <2>1, IcodeFacts DEF P
  <2>3. gp + gm <= b \/ b + P <= gp
    BY DEF b, P
  <2>4. SegmentLoaded(st.mem, g)
    BY DEF IcodeLoaded
  <2> SUFFICES ASSUME NEW y \in 0 .. gm - 1
               PROVE  mem1[gp + y] = st.mem[gp + y]
    BY <2>4 DEF SegmentLoaded
  <2> HIDE DEF gp, gm
  <2>5. gp + y \in Mem /\ ~(b <= gp + y /\ gp + y < b1)
    <3>1. /\ b \in Nat /\ P \in Nat /\ MemEnd \in Nat
          /\ b1 = b + P /\ y \in Nat /\ y < gm
      BY <1>1, <2>2 DEF b1
    <3>2. gp + y \in Nat /\ gp + y < gp + gm
      BY <2>2, <3>1
    <3>3. gp + y \in Mem
      BY <2>2, <3>1, <3>2 DEF Mem
    <3>4. ~(b <= gp + y /\ gp + y < b1)
      BY <2>2, <2>3, <3>1, <3>2
    <3>5. QED
      BY <3>3, <3>4
  <2>6. QED
    BY <1>5, <2>5
<1>9. MappedTo(t, from, b1)
  <2> SUFFICES ASSUME NEW a \in Mem
               PROVE  mem1[a] # <<"unmapped">> <=>
                        (InPages(st, a) \/ (from <= a /\ a < b1))
    BY <1>7 DEF MappedTo, InPages
  <2>1. a \in Nat /\ from <= b
    BY <1>1 DEF Mem, b
  <2>2. st.mem[a] # <<"unmapped">> <=> (InPages(st, a) \/ (from <= a /\ a < b))
    BY DEF MappedTo, b
  <2>3. CASE b <= a /\ a < b1
    <3>1. mem1[a] # <<"unmapped">>
      BY <1>5, <2>3
    <3>2. from <= a
      BY <1>1, <2>1, <2>3
    <3>3. QED
      BY <2>3, <3>1, <3>2
  <2>4. CASE ~(b <= a /\ a < b1)
    <3>1. mem1[a] = st.mem[a]
      BY <1>5, <2>4
    <3>2. a < b <=> a < b1
      BY <1>1, <2>1, <2>4 DEF b1
    <3>3. QED
      BY <2>2, <3>1, <3>2
  <2>5. QED
    BY <2>3, <2>4
<1>10. QED
  BY <1>2, <1>3, <1>7, <1>8, <1>9 DEF b1, b, P

(* A page of region_alloc keeps the invariant. *)
LEMMA IcodePageAllocInv == ASSUME IcodeInv, IcodePageAlloc PROVE IcodeInv'
<1> DEFINE P == IcodePage
           b == st.begin
           ph == st.elf.ph
<1>1. /\ job = "load_icode" /\ st \in IcodeState /\ IcodeLoaded(st)
      /\ st.k \in 1 .. Len(ph) + 1 /\ st.pc \in {"segment", "stack"}
      /\ b < st.end /\ ~st.entered
  BY DEF IcodeInv, IcodeGood, IcodePageAlloc
<1>2. /\ st.elf \in IcodeImage /\ st.k \in Nat /\ b \in Nat /\ st.end \in Nat
      /\ P \in Nat \ {0} /\ MemEnd \in Nat /\ MemEnd - P \in Nat
      /\ Len(ph) \in Nat
  BY <1>1, IcodeBounds, IcodeFacts DEF IcodeState
<1>3. ASSUME NEW j \in 1 .. st.k - 1, ph[j].load
      PROVE  /\ j \in 1 .. Len(ph) /\ ph[j].pa \in Nat /\ ph[j].memsz \in Nat
             /\ Lo(ph[j]) <= ph[j].pa /\ ph[j].pa + ph[j].memsz <= Hi(ph[j])
             /\ ph[j].pa + ph[j].memsz <= MemEnd - P
             /\ Lo(ph[j]) \in Nat /\ Hi(ph[j]) \in Nat
  <2>1. j \in 1 .. Len(ph)
    BY <1>1, <1>2
  <2>2. QED
    BY <1>2, <1>3, <2>1, IcodeFacts
<1>4. CASE st.pc = "segment"
  <2> DEFINE h == ph[st.k]
             lo == Lo(h)
             hi == Hi(h)
  <2>1. /\ st.k \in 1 .. Len(ph) /\ h.load /\ lo <= b /\ b % P = 0
        /\ st.end = hi /\ MappedTo(st, lo, b)
    BY <1>4 DEF IcodeInv, IcodeGood, InSegment
  <2>2. lo \in Nat /\ hi \in Nat /\ hi % P = 0
    BY <1>2, <2>1, IcodeFacts
  <2>3. b + P <= hi
    BY <1>1, <1>2, <2>1, <2>2, Multiples
  <2>4. ASSUME NEW j \in 1 .. st.k - 1, ph[j].load
        PROVE  LET g == ph[j] IN g.pa + g.memsz <= b \/ b + P <= g.pa
    <3> DEFINE g == ph[j]
               gp == g.pa
               gm == g.memsz
               gl == Lo(g)
               gh == Hi(g)
    <3>1. /\ gp \in Nat /\ gm \in Nat /\ gl \in Nat /\ gh \in Nat /\ gl <= gp
          /\ gp + gm <= gh
      BY <1>3, <2>4
    <3>2. gh <= lo \/ hi <= gl
      <4>1. j \in 1 .. Len(ph) /\ j < st.k
        BY <1>2, <1>3, <2>4
      <4>2. QED
        BY <1>2, <2>1, <2>4, <4>1, IcodeFacts
    <3> HIDE DEF gp, gm, gl, gh, lo, hi, P, b
    <3>3. gp + gm <= b \/ b + P <= gp
      BY <1>2, <2>1, <2>2, <2>3, <3>1, <3>2
    <3>4. QED
      BY <3>3 DEF gp, gm, b, P
  <2>5. /\ job' = job /\ st' \in IcodeState /\ IcodeLoaded(st')
        /\ MappedTo(st', lo, st'.begin)
        /\ st'.begin = b + P /\ st'.begin % P = 0
        /\ st'.pc = st.pc /\ st'.elf = st.elf /\ st'.k = st.k
        /\ st'.end = st.end /\ st'.entered = st.entered
    <3> HIDE DEF lo
    <3>1. QED
      BY <1>1, <2>1, <2>2, <2>4, PageStep
  <2>6. lo <= b + P
    BY <1>2, <2>1, <2>2
  <2>7. InSegment(st')
    BY <2>1, <2>3, <2>5, <2>6 DEF InSegment
  <2>8. QED
    BY <1>1, <1>4, <2>5, <2>7 DEF IcodeInv, IcodeGood
<1>5. CASE st.pc = "stack"
  <2> DEFINE lo == MemEnd - P
  <2>1. /\ st.k = Len(ph) + 1 /\ lo <= b /\ b <= MemEnd /\ b % P = 0
        /\ st.end = MemEnd /\ MappedTo(st, lo, b)
    BY <1>5 DEF IcodeInv, IcodeGood, InStack
  <2>2. b + P <= MemEnd
    BY <1>1, <1>2, <2>1, Multiples, IcodeBounds
  <2>3. ASSUME NEW j \in 1 .. st.k - 1, ph[j].load
        PROVE  LET g == ph[j] IN g.pa + g.memsz <= b \/ b + P <= g.pa
    <3> DEFINE g == ph[j]
               gp == g.pa
               gm == g.memsz
    <3>1. gp \in Nat /\ gm \in Nat /\ gp + gm <= lo
      BY <1>3, <2>3
    <3> HIDE DEF gp, gm
    <3>2. gp + gm <= b
      BY <1>2, <2>1, <3>1
    <3>3. QED
      BY <3>2 DEF gp, gm
  <2>4. lo \in Nat
    BY <1>2
  <2>5. /\ job' = job /\ st' \in IcodeState /\ IcodeLoaded(st')
        /\ MappedTo(st', lo, st'.begin)
        /\ st'.begin = b + P /\ st'.begin % P = 0
        /\ st'.pc = st.pc /\ st'.elf = st.elf /\ st'.k = st.k
        /\ st'.end = st.end /\ st'.entered = st.entered
    <3> HIDE DEF lo
    <3>1. QED
      BY <1>1, <2>1, <2>3, <2>4, PageStep
  <2>6. lo <= b + P
    BY <1>2, <2>1
  <2>7. InStack(st')
    BY <2>1, <2>2, <2>5, <2>6 DEF InStack
  <2>8. QED
    BY <1>1, <1>5, <2>5, <2>7 DEF IcodeInv, IcodeGood
<1>6. QED
  BY <1>1, <1>4, <1>5

(* The next header: a segment, one to pass over, or the stack. *)
LEMMA IcodeHeaderInv == ASSUME IcodeInv, IcodeHeader PROVE IcodeInv'
<1> DEFINE P == IcodePage
           ph == st.elf.ph
           h == ph[st.k]
           t == st'
<1>1. /\ job = "load_icode" /\ st \in IcodeState /\ IcodeLoaded(st)
      /\ st.k \in 1 .. Len(ph) + 1 /\ st.pc = "header" /\ ~st.entered
      /\ MappedTo(st, 0, 0)
  BY DEF IcodeInv, IcodeGood, IcodeHeader, At
<1>2. /\ st.elf \in IcodeImage /\ st.k \in Nat /\ P \in Nat \ {0}
      /\ MemEnd \in Nat /\ MemEnd - P \in Nat /\ Len(ph) \in Nat
  BY <1>1, IcodeBounds, IcodeFacts DEF IcodeState
<1>3. /\ job' = job
      /\ t = CASE st.k > Len(ph) -> region_alloc(st, MemEnd - P, P, "stack")
               [] st.k <= Len(ph) /\ h.load ->
                    region_alloc(st, h.pa, h.memsz, "segment")
               [] OTHER -> [st EXCEPT !.k = st.k + 1]
  BY DEF IcodeHeader, Becomes
<1>4. \A a \in Mem : st.mem[a] # <<"unmapped">> <=> InPages(st, a)
  <2>1. \A a \in Mem : ~(0 <= a /\ a < 0)
    BY <1>2 DEF Mem
  <2>2. QED
    BY <1>1, <2>1 DEF MappedTo
<1> HIDE DEF t
<1>5. CASE st.k > Len(ph)
  <2> DEFINE x == MemEnd - P
  <2>1. t = region_alloc(st, x, P, "stack")
    <3>1. ~(st.k <= Len(ph))
      BY <1>2, <1>5
    <3>2. QED
      BY <1>3, <1>5, <3>1, Zenon
  <2>2. t = [st EXCEPT !.pc = "stack", !.begin = x, !.end = MemEnd]
    BY <2>1, IcodeBounds DEF region_alloc
  <2>3. x \in Nat /\ x <= MemEnd /\ x % P = 0 /\ x <= x
    BY <1>2, IcodeBounds
  <2> HIDE DEF x
  <2>4. /\ t \in IcodeState /\ t.pc = "stack" /\ t.begin = x /\ t.end = MemEnd
        /\ t.elf = st.elf /\ t.k = st.k /\ t.mem = st.mem /\ ~t.entered
    BY <1>1, <1>2, <2>2, <2>3 DEF IcodeState
  <2>5. IcodeLoaded(t)
    BY <1>1, <2>4 DEF IcodeLoaded
  <2>6. MappedTo(t, x, x)
    <3>1. \A a \in Mem : ~(x <= a /\ a < x)
      BY <1>2, <2>3 DEF Mem
    <3>2. \A a \in Mem : InPages(t, a) <=> InPages(st, a)
      BY <2>4 DEF InPages
    <3>3. QED
      BY <1>4, <2>4, <3>1, <3>2 DEF MappedTo
  <2>7. InStack(t)
    <3>1. t.k = Len(t.elf.ph) + 1
      BY <1>1, <1>2, <1>5, <2>4
    <3>2. QED
      BY <2>3, <2>4, <2>6, <3>1 DEF InStack, x
  <2>8. QED
    BY <1>1, <1>3, <2>4, <2>5, <2>7 DEF IcodeInv, IcodeGood, t
<1>6. CASE st.k <= Len(ph) /\ h.load
  <2> DEFINE lo == Lo(h)
             hi == Hi(h)
  <2>1. t = region_alloc(st, h.pa, h.memsz, "segment")
    <3>1. ~(st.k > Len(ph))
      BY <1>2, <1>6
    <3>2. QED
      BY <1>3, <1>6, <3>1, Zenon
  <2>2. t = [st EXCEPT !.pc = "segment", !.begin = lo, !.end = hi]
    BY <2>1 DEF region_alloc, Lo, Hi
  <2>3. st.k \in 1 .. Len(ph)
    BY <1>1, <1>2, <1>6
  <2>4. lo \in Nat /\ hi \in Nat /\ lo <= hi /\ lo % P = 0
    BY <1>2, <1>6, <2>3, IcodeFacts
  <2>5. lo <= lo /\ \A a \in Mem : ~(lo <= a /\ a < lo)
    <3> HIDE DEF lo
    <3>1. QED
      BY <1>2, <2>4 DEF Mem
  <2> HIDE DEF lo, hi
  <2>6. /\ t \in IcodeState /\ t.pc = "segment" /\ t.begin = lo /\ t.end = hi
        /\ t.elf = st.elf /\ t.k = st.k /\ t.mem = st.mem /\ ~t.entered
    BY <1>1, <1>2, <2>2, <2>4 DEF IcodeState
  <2>7. IcodeLoaded(t)
    BY <1>1, <2>6 DEF IcodeLoaded
  <2>8. MappedTo(t, lo, lo)
    <3>1. \A a \in Mem : InPages(t, a) <=> InPages(st, a)
      BY <2>6 DEF InPages
    <3>2. QED
      BY <1>4, <2>5, <2>6, <3>1 DEF MappedTo
  <2>9. InSegment(t)
    BY <1>6, <2>3, <2>4, <2>5, <2>6, <2>8 DEF InSegment, lo, hi
  <2>10. QED
    BY <1>1, <1>3, <2>6, <2>7, <2>9 DEF IcodeInv, IcodeGood, t
<1>7. CASE ~(st.k > Len(ph)) /\ ~h.load
  <2> DEFINE k1 == st.k + 1
  <2>1. t = [st EXCEPT !.k = k1]
    BY <1>3, <1>7, Zenon
  <2>2. k1 \in Nat /\ k1 \in 1 .. Len(ph) + 1
        /\ \A j \in 1 .. k1 - 1 : j \in 1 .. st.k - 1 \/ j = st.k
    BY <1>1, <1>2, <1>7
  <2>3. \A j \in 1 .. st.k - 1 : j \in 1 .. k1 - 1
    BY <1>2
  <2> HIDE DEF k1
  <2>4. /\ t \in IcodeState /\ t.pc = "header" /\ t.k = k1 /\ t.elf = st.elf
        /\ t.mem = st.mem /\ ~t.entered
    BY <1>1, <2>1, <2>2 DEF IcodeState
  <2>5. IcodeLoaded(t)
    BY <1>1, <1>7, <2>2, <2>4 DEF IcodeLoaded
  <2>6. \A a : InPages(t, a) <=> InPages(st, a)
    BY <1>7, <2>2, <2>3, <2>4 DEF InPages
  <2>7. MappedTo(t, 0, 0)
    BY <1>1, <2>4, <2>6 DEF MappedTo
  <2>8. QED
    BY <1>1, <1>3, <2>2, <2>4, <2>5, <2>7 DEF IcodeInv, IcodeGood, t
<1>8. QED
  <2>1. st.k > Len(ph) \/ st.k <= Len(ph)
    BY <1>2
  <2>2. QED
    BY <1>5, <1>6, <1>7, <2>1

(* A segment is copied into the pages made for it. *)
LEMMA IcodeCopyInv == ASSUME IcodeInv, IcodeCopy PROVE IcodeInv'
<1> DEFINE P == IcodePage
           ph == st.elf.ph
           h == ph[st.k]
           t == st'
           mem1 == Copied(st.mem, h)
           k1 == st.k + 1
           lo == Lo(h)
           hi == Hi(h)
<1>1. /\ job = "load_icode" /\ st \in IcodeState /\ IcodeLoaded(st)
      /\ st.pc = "segment" /\ st.begin >= st.end /\ ~st.entered /\ InSegment(st)
  BY DEF IcodeInv, IcodeGood, IcodeCopy, At
<1>2. /\ st.elf \in IcodeImage /\ st.k \in Nat /\ P \in Nat \ {0}
      /\ MemEnd \in Nat /\ Len(ph) \in Nat /\ st.mem \in [Mem -> Byte]
      /\ st.begin \in Nat /\ st.end \in Nat
  BY <1>1, IcodeBounds, IcodeFacts DEF IcodeState
<1>3. /\ st.k \in 1 .. Len(ph) /\ h.load /\ st.begin = hi
      /\ MappedTo(st, lo, hi)
  <2>1. st.k \in 1 .. Len(ph) /\ h.load /\ st.begin <= st.end /\ st.end = hi
        /\ MappedTo(st, lo, st.begin)
    BY <1>1 DEF InSegment
  <2>2. st.begin = hi
    BY <1>1, <1>2, <2>1
  <2>3. QED
    BY <2>1, <2>2
<1>4. /\ h.pa \in Nat /\ h.memsz \in Nat /\ h.filesz \in Nat /\ h.offset \in Nat
      /\ h.filesz <= h.memsz /\ h.pa + h.memsz <= MemEnd - P
      /\ lo \in Nat /\ hi \in Nat /\ lo <= h.pa /\ h.pa + h.memsz <= hi
  BY <1>2, <1>3, IcodeFacts
<1>5. job' = job /\ t = [st EXCEPT !.pc = "header", !.k = k1, !.mem = mem1]
  BY DEF IcodeCopy, Becomes
<1> DEFINE hp == h.pa
           hm == h.memsz
           hf == h.filesz
           ho == h.offset
<1>6. /\ hp \in Nat /\ hm \in Nat /\ hf \in Nat /\ ho \in Nat /\ hf <= hm
      /\ hp + hm <= MemEnd - P /\ lo <= hp /\ hp + hm <= hi
  BY <1>4
<1>7. mem1 = [a \in Mem |->
                CASE hp <= a /\ a < hp + hf -> <<"file", ho + a - hp>>
                  [] hp + hf <= a /\ a < hp + hm -> <<"zero">>
                  [] OTHER -> st.mem[a]]
  BY <1>2 DEF Copied
<1> HIDE DEF mem1, hp, hm, hf, ho, lo, hi, t, h
<1>8. ASSUME NEW a \in Mem, hp <= a, a < hp + hf
      PROVE  mem1[a] = <<"file", ho + a - hp>>
  <2>1. ~(hp + hf <= a)
    BY <1>2, <1>6, <1>8 DEF Mem
  <2>2. QED
    BY <1>7, <1>8, <2>1, Zenon
<1>9. ASSUME NEW a \in Mem, hp + hf <= a, a < hp + hm
      PROVE  mem1[a] = <<"zero">>
  <2>1. ~(a < hp + hf)
    BY <1>2, <1>6, <1>9 DEF Mem
  <2>2. QED
    BY <1>7, <1>9, <2>1, Zenon
<1>10. ASSUME NEW a \in Mem, ~(hp <= a /\ a < hp + hm)
       PROVE  mem1[a] = st.mem[a]
  <2>1. ~(hp <= a /\ a < hp + hf) /\ ~(hp + hf <= a /\ a < hp + hm)
    BY <1>2, <1>6, <1>10 DEF Mem
  <2>2. QED
    BY <1>7, <2>1, Zenon
<1>11. ASSUME NEW a \in Mem
       PROVE  /\ mem1[a] \in Byte
              /\ hp <= a /\ a < hp + hm => mem1[a] # <<"unmapped">>
  <2>0. a \in Int
    BY <1>2 DEF Mem
  <2>1. CASE hp <= a /\ a < hp + hf
    <3>1. ho + a - hp \in Int
      BY <1>6, <2>0
    <3>2. <<"file", ho + a - hp>> \in Byte
      BY <3>1 DEF Byte
    <3>3. <<"file", ho + a - hp>> # <<"unmapped">>
      OBVIOUS
    <3>4. QED
      BY <1>8, <2>1, <3>2, <3>3
  <2>2. CASE hp + hf <= a /\ a < hp + hm
    BY <1>9, <2>2 DEF Byte
  <2>3. CASE ~(hp <= a /\ a < hp + hm)
    BY <1>2, <1>10, <2>3
  <2>4. QED
    BY <1>6, <2>0, <2>1, <2>2, <2>3
<1>12. mem1 \in [Mem -> Byte]
  <2>1. DOMAIN mem1 = Mem /\ mem1 = [a \in Mem |-> mem1[a]]
    <3> DEFINE f(a) == CASE hp <= a /\ a < hp + hf -> <<"file", ho + a - hp>>
                         [] hp + hf <= a /\ a < hp + hm -> <<"zero">>
                         [] OTHER -> st.mem[a]
    <3>1. mem1 = [a \in Mem |-> f(a)]
      BY <1>7
    <3> HIDE DEF f
    <3>2. QED
      BY <3>1
  <2>2. QED
    BY <1>11, <2>1
<1>13. k1 \in Nat /\ k1 \in 1 .. Len(ph) + 1
       /\ (\A j \in 1 .. k1 - 1 : j \in 1 .. st.k - 1 \/ j = st.k)
       /\ (\A j \in 1 .. st.k - 1 : j \in 1 .. k1 - 1)
       /\ st.k \in 1 .. k1 - 1
  BY <1>2, <1>3
<1> HIDE DEF k1
<1>14. /\ t \in IcodeState /\ t.pc = "header" /\ t.k = k1 /\ t.elf = st.elf
       /\ t.mem = mem1 /\ ~t.entered
  BY <1>1, <1>5, <1>12, <1>13 DEF IcodeState
<1>15. SegmentLoaded(mem1, h)
  <2> SUFFICES ASSUME NEW y \in 0 .. hm - 1
               PROVE  mem1[hp + y] = IF y < hf THEN <<"file", ho + y>>
                                     ELSE <<"zero">>
    BY DEF SegmentLoaded, hm, hp, hf, ho
  <2> DEFINE a == hp + y
  <2>1. a \in Mem /\ hp <= a /\ a < hp + hm
    BY <1>2, <1>6 DEF Mem
  <2>2. CASE y < hf
    <3>1. a < hp + hf /\ ho + a - hp = ho + y
      BY <1>6, <2>2
    <3>2. mem1[a] = <<"file", ho + a - hp>>
      BY <1>8, <2>1, <3>1
    <3>3. QED
      BY <2>2, <3>1, <3>2
  <2>3. CASE ~(y < hf)
    <3>1. hp + hf <= a
      BY <1>6, <2>3
    <3>2. QED
      BY <1>9, <2>1, <2>3, <3>1
  <2>4. QED
    BY <2>2, <2>3
<1>16. ASSUME NEW j \in 1 .. st.k - 1, ph[j].load
       PROVE  SegmentLoaded(mem1, ph[j])
  <2> DEFINE g == ph[j]
             gp == g.pa
             gm == g.memsz
             gl == Lo(g)
             gh == Hi(g)
  <2>1. j \in 1 .. Len(ph) /\ j < st.k
    BY <1>2, <1>3
  <2>2. /\ gp \in Nat /\ gm \in Nat /\ gl \in Nat /\ gh \in Nat /\ gl <= gp
        /\ gp + gm <= gh /\ gp + gm <= MemEnd - P
    BY <1>2, <1>16, <2>1, IcodeFacts
  <2>3. gh <= lo \/ hi <= gl
    BY <1>2, <1>3, <1>16, <2>1, IcodeFacts DEF lo, hi, h
  <2>4. SegmentLoaded(st.mem, g)
    BY <1>1, <1>16 DEF IcodeLoaded
  <2> SUFFICES ASSUME NEW y \in 0 .. gm - 1
               PROVE  mem1[gp + y] = st.mem[gp + y]
    BY <2>4 DEF SegmentLoaded
  <2> HIDE DEF gp, gm, gl, gh
  <2>5. gp + y \in Mem /\ ~(hp <= gp + y /\ gp + y < hp + hm)
    BY <1>2, <1>4, <1>6, <2>2, <2>3 DEF Mem
  <2>6. QED
    BY <1>10, <2>5
<1>17. IcodeLoaded(t)
  BY <1>13, <1>14, <1>15, <1>16 DEF IcodeLoaded, h
<1>18. MappedTo(t, 0, 0)
  <2> SUFFICES ASSUME NEW a \in Mem
               PROVE  mem1[a] # <<"unmapped">> <=>
                        (InPages(t, a) \/ (0 <= a /\ a < 0))
    BY <1>14 DEF MappedTo
  <2>1. a \in Int /\ ~(0 <= a /\ a < 0)
    BY <1>2 DEF Mem
  <2>2. st.mem[a] # <<"unmapped">> <=> (InPages(st, a) \/ (lo <= a /\ a < hi))
    BY <1>3 DEF MappedTo
  <2>3. InPages(t, a) <=> (InPages(st, a) \/ (lo <= a /\ a < hi))
    <3>1. ASSUME lo <= a, a < hi PROVE InPages(t, a)
      <4>1. t.elf.ph[st.k].load /\ Lo(t.elf.ph[st.k]) = lo /\ Hi(t.elf.ph[st.k]) = hi
        BY <1>3, <1>14 DEF lo, hi, h
      <4>2. QED
        BY <1>13, <1>14, <3>1, <4>1 DEF InPages
    <3>2. ASSUME InPages(st, a) PROVE InPages(t, a)
      BY <1>13, <1>14, <3>2 DEF InPages
    <3>3. ASSUME InPages(t, a), ~InPages(st, a) PROVE lo <= a /\ a < hi
      <4>1. PICK j \in 1 .. k1 - 1 :
              ph[j].load /\ Lo(ph[j]) <= a /\ a < Hi(ph[j])
        BY <1>14, <3>3 DEF InPages
      <4>2. j = st.k
        BY <1>13, <3>3, <4>1 DEF InPages
      <4>3. QED
        BY <4>1, <4>2 DEF lo, hi, h
    <3>4. QED
      BY <3>1, <3>2, <3>3
  <2>4. CASE hp <= a /\ a < hp + hm
    <3>1. lo <= a /\ a < hi
      BY <1>4, <1>6, <2>1, <2>4
    <3>2. QED
      BY <1>11, <2>3, <2>4, <3>1
  <2>5. CASE ~(hp <= a /\ a < hp + hm)
    <3>1. mem1[a] = st.mem[a]
      BY <1>10, <2>5
    <3>2. QED
      BY <2>1, <2>2, <2>3, <3>1
  <2>6. QED
    BY <2>4, <2>5
<1>19. QED
  BY <1>1, <1>5, <1>13, <1>14, <1>17, <1>18 DEF IcodeInv, IcodeGood, t

(* The stack is mapped, and load_icode returns. *)
LEMMA IcodeEndInv == ASSUME IcodeInv, IcodeEnd PROVE IcodeInv'
<1>1. /\ job = "load_icode" /\ st \in IcodeState /\ IcodeLoaded(st)
      /\ st.k \in 1 .. Len(st.elf.ph) + 1
      /\ st.pc = "stack" /\ st.begin >= st.end /\ InStack(st)
  BY DEF IcodeInv, IcodeGood, IcodeEnd, At
<1>2. job' = job /\ st' = [st EXCEPT !.pc = "done", !.entered = TRUE]
  BY DEF IcodeEnd, Becomes
<1>3. /\ st' \in IcodeState /\ st'.pc = "done" /\ st'.entered = TRUE
      /\ st'.elf = st.elf /\ st'.k = st.k /\ st'.begin = st.begin
      /\ st'.end = st.end /\ st'.mem = st.mem
  BY <1>1, <1>2 DEF IcodeState
<1>4. st.begin = MemEnd
  <2>1. st.begin \in Nat /\ st.begin <= MemEnd /\ st.begin >= MemEnd
    BY <1>1 DEF InStack, IcodeState
  <2>2. QED
    BY <2>1, IcodeBounds
<1>5. IcodeLoaded(st')
  BY <1>1, <1>3 DEF IcodeLoaded
<1>6. InStack(st')
  BY <1>1, <1>3 DEF InStack, MappedTo, InPages
<1>7. QED
  BY <1>1, <1>2, <1>3, <1>4, <1>5, <1>6 DEF IcodeInv, IcodeGood

(* load_icode of kern/env.c: whenever a new environment is ready to run,   *)
(* every segment to be loaded is in its memory byte for byte with its rest *)
(* clear, and nothing else is mapped but the other bytes of those pages    *)
(* and the stack, for every page size, memory and program in which no two  *)
(* segments touch the same page.                                           *)
THEOREM IcodeLoads == IcodeSpec => []ImageLoaded
<1>1. IcodeInit => IcodeInv
  <2> SUFFICES ASSUME IcodeInit PROVE IcodeInv
    OBVIOUS
  <2> DEFINE mem0 == [a \in Mem |-> <<"unmapped">>]
  <2>1. mem0 \in [Mem -> Byte] /\ \A a \in Mem : mem0[a] = <<"unmapped">>
    BY DEF Byte
  <2>2. PICK e \in IcodeImage :
          st = [pc |-> "header", elf |-> e, k |-> 1, begin |-> 0, end |-> 0,
                mem |-> mem0, entered |-> FALSE]
    BY DEF IcodeInit, Mem
  <2> HIDE DEF mem0
  <2>3. /\ st \in IcodeState /\ st.pc = "header" /\ st.k = 1 /\ ~st.entered
        /\ st.mem = mem0 /\ st.elf = e
    BY <2>1, <2>2 DEF IcodeState
  <2>4. st.k \in 1 .. Len(st.elf.ph) + 1
    BY <2>3, IcodeFacts
  <2>5. IcodeLoaded(st)
    BY <2>3 DEF IcodeLoaded
  <2>6. MappedTo(st, 0, 0)
    <3>1. \A a \in Mem : ~(0 <= a /\ a < 0)
      BY IcodeBounds DEF Mem
    <3>2. \A a : ~InPages(st, a)
      BY <2>3 DEF InPages
    <3>3. QED
      BY <2>1, <2>3, <3>1, <3>2 DEF MappedTo
  <2>7. QED
    BY <2>3, <2>4, <2>5, <2>6 DEF IcodeInv, IcodeGood, IcodeInit
<1>2. IcodeInv /\ [IcodeNext]_routineVars => IcodeInv'
  <2> SUFFICES ASSUME IcodeInv, [IcodeNext]_routineVars PROVE IcodeInv'
    OBVIOUS
  <2>1. CASE UNCHANGED routineVars
    BY <2>1 DEF routineVars, IcodeInv
  <2>2. QED
    BY <2>1, IcodeHeaderInv, IcodePageAllocInv, IcodeCopyInv, IcodeEndInv
       DEF IcodeNext
<1>3. IcodeInv => ImageLoaded
  <2> SUFFICES ASSUME IcodeInv, st.entered PROVE ImageLoaded
    BY DEF ImageLoaded, IcodeInv
  <2> DEFINE ph == st.elf.ph
             loaded == {ph[k] : k \in {x \in DOMAIN ph : ph[x].load}}
             pageOf(a, h) == /\ RoundDown(h.pa, IcodePage) <= a
                             /\ a < RoundUp(h.pa + h.memsz, IcodePage)
  <2>1. /\ st \in IcodeState /\ IcodeLoaded(st) /\ job # "bootmain"
        /\ st.k = Len(ph) + 1 /\ MappedTo(st, MemEnd - IcodePage, MemEnd)
    BY DEF IcodeInv, IcodeGood, InStack
  <2>2. /\ st.elf \in IcodeImage /\ ph \in Seq(IcodeHdr) /\ Len(ph) \in Nat
        /\ DOMAIN st.mem = Mem
    BY <2>1, IcodeFacts DEF IcodeState
  <2>3. DOMAIN ph = 1 .. Len(ph) /\ 1 .. st.k - 1 = 1 .. Len(ph)
    BY <2>1, <2>2
  <2>4. \A h \in loaded : SegmentLoaded(st.mem, h)
    BY <2>1, <2>3 DEF IcodeLoaded
  <2>5. ASSUME NEW a \in Mem
        PROVE  (st.mem[a] # <<"unmapped">>) =
                 (a >= MemEnd - IcodePage \/ \E h \in loaded : pageOf(a, h))
    <3>1. a \in Int /\ a < MemEnd
      BY IcodeBounds DEF Mem
    <3>2. st.mem[a] # <<"unmapped">> <=>
            (InPages(st, a) \/ (MemEnd - IcodePage <= a /\ a < MemEnd))
      BY <2>1 DEF MappedTo
    <3>3. InPages(st, a) <=> \E h \in loaded : pageOf(a, h)
      <4>1. ASSUME NEW h \in loaded, pageOf(a, h) PROVE InPages(st, a)
        <5>1. PICK k \in DOMAIN ph : ph[k].load /\ h = ph[k]
          OBVIOUS
        <5>2. QED
          BY <2>3, <4>1, <5>1 DEF InPages, Lo, Hi
      <4>2. ASSUME InPages(st, a) PROVE \E h \in loaded : pageOf(a, h)
        <5>1. PICK j \in DOMAIN ph : ph[j].load /\ pageOf(a, ph[j])
          BY <2>3, <4>2 DEF InPages, Lo, Hi
        <5>2. ph[j] \in loaded
          BY <5>1
        <5>3. QED
          BY <5>1, <5>2
      <4>3. QED
        BY <4>1, <4>2
    <3>4. MemEnd - IcodePage <= a /\ a < MemEnd <=> a >= MemEnd - IcodePage
      BY <3>1, IcodeBounds
    <3>5. QED
      BY <3>2, <3>3, <3>4, Zenon
  <2>6. QED
    BY <2>1, <2>2, <2>4, <2>5 DEF ImageLoaded
<1>4. QED
  BY <1>1, <1>2, <1>3, PTL DEF IcodeSpec

------------------------------------------------------------------------------
(* The keyboard. *)
Flag == {"SHIFT", "CTL", "ALT", "CAPSLOCK", "NUMLOCK", "SCROLLLOCK", "E0ESC"}

KbdType(s) ==
  /\ s \in [pc : {"poll"}, held : SUBSET Key, queue : Seq(Nat),
            shift : SUBSET Flag,
            c : {"NO", "DEL", "ctrl-A", "a", "A"}, reboot : BOOLEAN]

(* 0xE0 comes before the i-th byte waiting: it waits too, or was read. *)
Esc(s, i) == IF i = 1 THEN "E0ESC" \in s.shift ELSE s.queue[i - 1] = E0

(* The i-th byte waiting is the end of what pressing, or releasing, k sent. *)
Event(s, i, k, up) ==
  /\ i \in 1 .. Len(s.queue)
  /\ s.queue[i] = (IF up THEN k.code + 128 ELSE k.code)
  /\ Esc(s, i) <=> k.e0

(* The bytes waiting are whole codes of keys, but for a prefix read. *)
WholeCodes(s) ==
  /\ \A i \in 1 .. Len(s.queue) :
       s.queue[i] = E0 \/ \E k \in Key, up \in BOOLEAN : Event(s, i, k, up)
  /\ s.queue # <<>> => s.queue[Len(s.queue)] # E0
  /\ "E0ESC" \in s.shift => s.queue # <<>>

(* Key k is down, or the news of its release is still to come. *)
ReleaseAhead(s, k, i) == \E j \in i .. Len(s.queue) : Event(s, j, k, TRUE)
Covered(s, k) == k \in s.held \/ ReleaseAhead(s, k, 1)

(* A press that was not read yet is of a key that is down, or is followed  *)
(* by the release; what presses left in shift has a key that explains it.  *)
KbdGood(s) ==
  /\ KbdType(s) /\ WholeCodes(s)
  /\ \A i \in 1 .. Len(s.queue), k \in Key :
       Event(s, i, k, FALSE) => k \in s.held \/ ReleaseAhead(s, k, i + 1)
  /\ \A m \in s.shift \cap Modifier :
       \E k \in Key : m \in ModifierOf(k) /\ Covered(s, k)
  /\ s.reboot => \E k \in Key : k.code = 83 /\ k.e0 /\ Covered(s, k)

KbdInv == job = "kbd" /\ KbdGood(st)

(* Keys: no byte of one is 0xE0, and code and prefix tell which it is. *)
LEMMA KeyFacts ==
  /\ \A k \in Key : /\ k.code \in Nat /\ 1 <= k.code /\ k.code < 128
                    /\ k.code # 96 /\ k.e0 \in BOOLEAN
  /\ \A k, l \in Key : k.code = l.code /\ (k.e0 <=> l.e0) => k = l
<1>1. \A k \in Key : k \in [code : 1 .. 127 \ {96}, e0 : BOOLEAN]
  <2>1. E0 - 128 = 96
    BY DEF E0
  <2>2. QED
    BY <2>1, KeyAssumption
<1>2. \A k \in Key : /\ k.code \in Nat /\ 1 <= k.code /\ k.code < 128
                     /\ k.code # 96 /\ k.e0 \in BOOLEAN
  BY <1>1
<1>3. ASSUME NEW k \in Key, NEW l \in Key, k.code = l.code, k.e0 <=> l.e0
      PROVE  k = l
  <2>1. k.e0 = l.e0
    BY <1>2, <1>3, Zenon
  <2>2. k = [code |-> k.code, e0 |-> k.e0] /\ l = [code |-> l.code, e0 |-> l.e0]
    BY <1>1
  <2>3. QED
    BY <1>3, <2>1, <2>2, Zenon
<1>4. QED
  BY <1>2, <1>3

(* The tables of kbd_proc_data. *)
LEMMA TableFacts ==
  ASSUME NEW data, NEW shift
  PROVE  /\ shiftcode(data) \subseteq Modifier
         /\ togglecode(data) \subseteq {"CAPSLOCK", "NUMLOCK", "SCROLLLOCK"}
         /\ charcode(shift, data) \in {"NO", "DEL", "ctrl-A", "a", "A"}
         /\ charcode(shift, data) = "DEL" => data = 211
<1>1. shiftcode(data) \subseteq Modifier
  BY DEF shiftcode, Modifier
<1>2. togglecode(data) \subseteq {"CAPSLOCK", "NUMLOCK", "SCROLLLOCK"}
  BY DEF togglecode
<1>3. CASE data = 211
  <2>1. data # 30
    BY <1>3
  <2>2. charcode(shift, data) = "DEL"
    BY <1>3, <2>1, Zenon DEF charcode
  <2>3. QED
    BY <1>1, <1>2, <1>3, <2>2
<1>4. CASE data # 211
  <2>1. charcode(shift, data) \in {"NO", "ctrl-A", "a", "A"}
    <3>1. CASE data = 30 /\ "CTL" \in shift
      BY <1>4, <3>1, Zenon DEF charcode
    <3>2. CASE data = 30 /\ "CTL" \notin shift
      <4>1. charcode(shift, data) =
              IF ("SHIFT" \in shift) = ("CAPSLOCK" \in shift) THEN "a" ELSE "A"
        BY <1>4, <3>2, Zenon DEF charcode
      <4>2. QED
        BY <4>1
    <3>3. CASE data # 30
      BY <1>4, <3>3, Zenon DEF charcode
    <3>4. QED
      BY <3>1, <3>2, <3>3
  <2>2. QED
    BY <1>1, <1>2, <1>4, <2>1
<1>5. QED
  BY <1>3, <1>4

(* A key pressed or released adds its bytes at the end of the queue. *)
LEMMA CodesArrive ==
  ASSUME KbdInv, NEW k \in Key, NEW up \in BOOLEAN, NEW held1,
         IF up THEN held1 = st.held \ {k} ELSE held1 = st.held \cup {k},
         job' = job,
         st' = [st EXCEPT !.held = held1, !.queue = st.queue \o Codes(k, up)]
  PROVE  KbdInv'
<1> DEFINE s == st
           t == st'
           q == st.queue
           n == Len(q)
           c == Codes(k, up)
           l == IF k.e0 THEN 2 ELSE 1
           b == IF up THEN k.code + 128 ELSE k.code
           r == q \o c
<1>1. job = "kbd" /\ KbdGood(s) /\ KbdType(s) /\ WholeCodes(s)
  BY DEF KbdInv, KbdGood
<1>2. q \in Seq(Nat) /\ n \in Nat /\ s.held \in SUBSET Key
  BY <1>1 DEF KbdType
<1>3. /\ k.code \in Nat /\ k.code < 128 /\ k.code # 96 /\ k.e0 \in BOOLEAN
      /\ b \in Nat /\ b # E0 /\ E0 \in Nat /\ l \in 1 .. 2
  <2>1. k.code \in Nat /\ k.code < 128 /\ k.code # 96 /\ k.e0 \in BOOLEAN
    BY KeyFacts
  <2> DEFINE kc == k.code
  <2> HIDE DEF kc
  <2>2. kc \in Nat /\ kc < 128 /\ kc # 96
    BY <2>1 DEF kc
  <2>3. b = IF up THEN kc + 128 ELSE kc
    BY DEF kc
  <2> HIDE DEF b
  <2>4. b \in Nat /\ b # 224
    BY <2>2, <2>3
  <2>5. QED
    BY <2>1, <2>4 DEF E0
<1>4. /\ c \in Seq(Nat) /\ Len(c) = l /\ c[l] = b
      /\ k.e0 => c[1] = E0
  <2> HIDE DEF b
  <2>0. c = (IF k.e0 THEN <<E0>> ELSE <<>>) \o <<b>>
    BY DEF Codes, b
  <2> HIDE DEF c
  <2>1. CASE k.e0
    <3>1. c = <<E0>> \o <<b>>
      BY <2>0, <2>1
    <3>2. c \in Seq(Nat) /\ Len(c) = 2 /\ c[1] = E0 /\ c[2] = b
      <4>1. <<E0>> \in Seq(Nat) /\ <<b>> \in Seq(Nat)
        BY <1>3
      <4>2. Len(<<E0>>) = 1 /\ Len(<<b>>) = 1
        OBVIOUS
      <4>3. /\ c \in Seq(Nat) /\ Len(c) = 1 + 1
            /\ \A i \in 1 .. 1 : c[i] = <<E0>>[i]
            /\ \A i \in 1 .. 1 : c[1 + i] = <<b>>[i]
        BY <3>1, <4>1, <4>2, Concatenated
      <4>4. QED
        BY <4>3
    <3>3. QED
      BY <1>3, <2>1, <3>2
  <2>2. CASE ~k.e0
    <3>1. c = <<>> \o <<b>>
      BY <2>0, <2>2
    <3>2. c = <<b>>
      BY <3>1, <1>3
    <3>3. QED
      BY <1>3, <2>2, <3>2
  <2>3. QED
    BY <2>1, <2>2
<1> HIDE DEF b, c
<1>5. /\ r \in Seq(Nat) /\ Len(r) = n + l
      /\ \A i \in 1 .. n : r[i] = q[i]
      /\ r[n + l] = b /\ (k.e0 => r[n + 1] = E0)
  <2>1. /\ r \in Seq(Nat) /\ Len(r) = Len(q) + Len(c)
        /\ \A i \in 1 .. Len(q) : r[i] = q[i]
        /\ \A i \in Len(q) + 1 .. Len(q) + Len(c) : r[i] = c[i - Len(q)]
    BY <1>2, <1>4, Concatenated
  <2> HIDE DEF r
  <2>2. /\ n + l \in Len(q) + 1 .. Len(q) + Len(c) /\ (n + l) - Len(q) = l
        /\ n + 1 \in Len(q) + 1 .. Len(q) + Len(c) /\ (n + 1) - Len(q) = 1
    <3>1. n \in Nat /\ l \in 1 .. 2 /\ Len(c) = l
      BY <1>2, <1>3, <1>4
    <3> HIDE DEF l, n
    <3>2. /\ n + l \in n + 1 .. n + l /\ (n + l) - n = l
          /\ n + 1 \in n + 1 .. n + l /\ (n + 1) - n = 1
      BY <3>1
    <3>3. QED
      BY <3>1, <3>2 DEF n
  <2>3. QED
    BY <1>4, <2>1, <2>2
<1> HIDE DEF r
<1>6. held1 \in SUBSET Key /\ (~up => k \in held1)
      /\ (\A x \in Key : x \in s.held => x \in held1 \/ (up /\ x = k))
  BY <1>2
<1>7. t = [s EXCEPT !.held = held1, !.queue = r]
  BY DEF r, c
<1> HIDE DEF t
<1>8. /\ KbdType(t) /\ t.queue = r /\ t.held = held1 /\ t.shift = s.shift
      /\ t.reboot = s.reboot
  BY <1>1, <1>5, <1>6, <1>7 DEF KbdType
<1> HIDE DEF l
<1>9. ASSUME NEW i \in 1 .. n, NEW x, NEW u
      PROVE  i \in 1 .. Len(r) /\ (Event(t, i, x, u) <=> Event(s, i, x, u))
  <2>1. i \in 1 .. Len(r) /\ r[i] = q[i]
    BY <1>2, <1>3, <1>5
  <2>2. Esc(t, i) <=> Esc(s, i)
    <3>1. CASE i = 1
      BY <1>8, <3>1 DEF Esc
    <3>2. CASE i # 1
      <4>1. i - 1 \in 1 .. n
        BY <1>2, <3>2
      <4>2. QED
        BY <1>5, <1>8, <3>2, <4>1 DEF Esc
    <3>3. QED
      BY <3>1, <3>2
  <2>3. QED
    BY <1>8, <2>1, <2>2 DEF Event
<1>10. Event(t, n + l, k, up)
  <2>1. n + l \in 1 .. Len(r)
    BY <1>2, <1>3, <1>5
  <2>2. CASE k.e0
    <3>1. l = 2 /\ n + l # 1 /\ (n + l) - 1 = n + 1
      BY <1>2, <2>2 DEF l
    <3>2. Esc(t, n + l)
      BY <1>5, <1>8, <2>2, <3>1 DEF Esc
    <3>3. QED
      BY <1>5, <1>8, <2>1, <2>2, <3>2 DEF Event, b
  <2>3. CASE ~k.e0
    <3>1. l = 1
      BY <2>3 DEF l
    <3>2. ~Esc(t, n + l)
      <4>1. CASE n = 0
        <5>1. "E0ESC" \notin s.shift
          <6>1. q = <<>>
            BY <1>2, <4>1
          <6>2. QED
            BY <1>1, <6>1 DEF WholeCodes
        <5>2. n + l = 1
          BY <3>1, <4>1
        <5>3. QED
          BY <1>8, <5>1, <5>2 DEF Esc
      <4>2. CASE n # 0
        <5>1. q # <<>> /\ n \in 1 .. n
          BY <1>2, <4>2
        <5>2. r[n] # E0
          BY <1>1, <1>5, <5>1 DEF WholeCodes
        <5>3. n + l # 1 /\ (n + l) - 1 = n
          BY <1>2, <3>1, <4>2
        <5>4. QED
          BY <1>8, <5>2, <5>3 DEF Esc
      <4>3. QED
        BY <4>1, <4>2
    <3>3. QED
      BY <1>5, <1>8, <2>1, <2>3, <3>2 DEF Event, b
  <2>4. QED
    BY <2>2, <2>3
<1>11. ASSUME NEW i \in 1 .. Len(r), i \notin 1 .. n
       PROVE  i = n + l \/ (i # n + l /\ r[i] = E0)
  <2>1. CASE k.e0
    <3>1. l = 2
      BY <2>1 DEF l
    <3>2. i = n + l \/ i = n + 1
      <4>1. Len(r) = n + 2
        BY <1>5, <3>1
      <4>2. i \in 1 .. n + 2 /\ i \notin 1 .. n
        BY <1>11, <4>1
      <4> HIDE DEF n
      <4>3. i = n + 2 \/ i = n + 1
        BY <1>2, <4>2
      <4>4. QED
        BY <3>1, <4>3
    <3>3. QED
      BY <1>5, <2>1, <3>2
  <2>2. CASE ~k.e0
    <3>1. l = 1
      BY <2>2 DEF l
    <3>2. QED
      BY <1>2, <1>5, <1>11, <3>1
  <2>3. QED
    BY <2>1, <2>2
<1>12. WholeCodes(t)
  <2>1. ASSUME NEW i \in 1 .. Len(r)
        PROVE  r[i] = E0 \/ \E x \in Key, u \in BOOLEAN : Event(t, i, x, u)
    <3>1. CASE i \in 1 .. n
      <4>1. q[i] = E0 \/ \E x \in Key, u \in BOOLEAN : Event(s, i, x, u)
        BY <1>1, <3>1 DEF WholeCodes
      <4>2. QED
        BY <1>5, <1>9, <3>1, <4>1
    <3>2. CASE i \notin 1 .. n
      BY <1>10, <1>11, <3>2
    <3>3. QED
      BY <3>1, <3>2
  <2>2. r # <<>> /\ r[Len(r)] # E0
    <3>1. Len(r) > 0
      BY <1>2, <1>3, <1>5
    <3>2. QED
      BY <1>3, <1>5, <3>1
  <2>3. QED
    BY <1>8, <2>1, <2>2 DEF WholeCodes
<1>13. ASSUME NEW x \in Key, NEW i \in 1 .. n + 1,
              x \in s.held \/ ReleaseAhead(s, x, i)
       PROVE  x \in held1 \/ ReleaseAhead(t, x, i)
  <2>1. CASE x \in s.held
    <3>1. CASE x \in held1
      BY <3>1
    <3>2. CASE up /\ x = k
      <4>1. n + l \in i .. Len(r)
        BY <1>2, <1>3, <1>5
      <4>2. Event(t, n + l, x, TRUE)
        BY <1>10, <3>2
      <4>3. QED
        BY <1>8, <4>1, <4>2 DEF ReleaseAhead
    <3>3. QED
      BY <1>6, <2>1, <3>1, <3>2
  <2>2. CASE ReleaseAhead(s, x, i)
    <3>1. PICK j \in i .. n : Event(s, j, x, TRUE)
      BY <2>2 DEF ReleaseAhead
    <3>2. j \in 1 .. n
      BY <1>2
    <3>3. j \in i .. Len(r)
      <4>1. j \in 1 .. Len(r)
        BY <1>9, <3>2
      <4>2. QED
        BY <4>1
    <3>4. Event(t, j, x, TRUE)
      BY <1>9, <3>1, <3>2
    <3>5. QED
      BY <1>8, <3>3, <3>4 DEF ReleaseAhead
  <2>3. QED
    BY <1>13, <2>1, <2>2
<1>14. ASSUME NEW x \in Key, Covered(s, x) PROVE Covered(t, x)
  <2>1. 1 \in 1 .. n + 1
    BY <1>2
  <2>2. QED
    BY <1>8, <1>13, <1>14, <2>1 DEF Covered
<1>15. ASSUME NEW i \in 1 .. Len(r), NEW x \in Key, Event(t, i, x, FALSE)
       PROVE  x \in held1 \/ ReleaseAhead(t, x, i + 1)
  <2>1. CASE i \in 1 .. n
    <3>1. Event(s, i, x, FALSE)
      BY <1>9, <1>15, <2>1
    <3>2. i + 1 \in 1 .. n + 1
      BY <1>2, <2>1
    <3>3. x \in s.held \/ ReleaseAhead(s, x, i + 1)
      BY <1>1, <2>1, <3>1 DEF KbdGood
    <3>4. QED
      BY <1>13, <3>2, <3>3
  <2>2. CASE i \notin 1 .. n
    <3>1. r[i] = x.code /\ x.code \in Nat /\ x.code < 128
      BY <1>8, <1>15, KeyFacts DEF Event
    <3>2. r[i] # E0
      BY <3>1 DEF E0
    <3>3. i = n + l /\ x.code = b
      BY <1>5, <1>11, <2>2, <3>1, <3>2
    <3>4. ~up /\ x.code = k.code
      <4> DEFINE xc == x.code
                 kc == k.code
      <4>1. xc \in Nat /\ xc < 128 /\ kc \in Nat /\ xc = IF up THEN kc + 128 ELSE kc
        BY <1>3, <3>1, <3>3 DEF b
      <4> HIDE DEF xc, kc
      <4>2. ~up /\ xc = kc
        BY <4>1
      <4>3. QED
        BY <4>2 DEF xc, kc
    <3>5. x.e0 <=> k.e0
      BY <1>10, <1>15, <3>3 DEF Event
    <3>6. x = k
      BY <3>4, <3>5, KeyFacts
    <3>7. QED
      BY <1>6, <3>4, <3>6
  <2>3. QED
    BY <2>1, <2>2
<1>16. \A m \in t.shift \cap Modifier :
         \E x \in Key : m \in ModifierOf(x) /\ Covered(t, x)
  BY <1>1, <1>8, <1>14 DEF KbdGood
<1>17. t.reboot => \E x \in Key : x.code = 83 /\ x.e0 /\ Covered(t, x)
  BY <1>1, <1>8, <1>14 DEF KbdGood
<1>18. KbdGood(t)
  BY <1>8, <1>12, <1>15, <1>16, <1>17 DEF KbdGood
<1>19. QED
  BY <1>1, <1>18 DEF KbdInv, t

(* A byte is read: what waits moves up by one. *)
LEMMA ByteRead ==
  ASSUME NEW s, NEW t, KbdGood(s), KbdType(t), s.queue # <<>>,
         t.queue = Tail(s.queue), t.held = s.held,
         "E0ESC" \in t.shift <=> s.queue[1] = E0
  PROVE  /\ WholeCodes(t)
         /\ \A i \in 1 .. Len(t.queue), k \in Key :
              Event(t, i, k, FALSE) => k \in t.held \/ ReleaseAhead(t, k, i + 1)
         /\ \A k \in Key : k \in s.held \/ ReleaseAhead(s, k, 2) => Covered(t, k)
<1> DEFINE q == s.queue
           r == t.queue
           n == Len(q)
<1>1. q \in Seq(Nat) /\ n \in Nat /\ n # 0 /\ WholeCodes(s)
  BY DEF KbdGood, KbdType
<1>2. /\ r \in Seq(Nat) /\ Len(r) = n - 1
      /\ \A i \in 1 .. n - 1 : r[i] = q[i + 1]
  BY <1>1
<1> HIDE DEF r
<1>up. ASSUME NEW i \in 1 .. Len(r)
       PROVE  i \in 1 .. n - 1 /\ i + 1 \in 1 .. n
  <2>1. n \in Nat /\ Len(r) = n - 1 /\ i \in 1 .. n - 1
    BY <1>1, <1>2
  <2> HIDE DEF n
  <2>2. QED
    BY <2>1
<1>3. ASSUME NEW i \in 1 .. n - 1, NEW x, NEW u
      PROVE  i + 1 \in 1 .. n /\ (Event(t, i, x, u) <=> Event(s, i + 1, x, u))
  <2>1. i + 1 \in 1 .. n /\ i \in 1 .. Len(r) /\ r[i] = q[i + 1]
    BY <1>1, <1>2
  <2>2. Esc(t, i) <=> Esc(s, i + 1)
    <3>1. i + 1 # 1 /\ (i + 1) - 1 = i
      BY <1>1
    <3>2. CASE i = 1
      BY <3>1, <3>2 DEF Esc
    <3>3. CASE i # 1
      <4>1. i - 1 \in 1 .. n - 1 /\ (i - 1) + 1 = i
        BY <1>1, <3>3
      <4>2. r[i - 1] = q[i]
        BY <1>2, <4>1
      <4>3. QED
        BY <3>1, <3>3, <4>2 DEF Esc, r
    <3>4. QED
      BY <3>2, <3>3
  <2>3. QED
    BY <2>1, <2>2 DEF Event, r
<1>4. ASSUME NEW x, NEW i \in 1 .. n, ReleaseAhead(s, x, i + 1)
      PROVE  ReleaseAhead(t, x, i)
  <2>1. PICK j \in i + 1 .. n : Event(s, j, x, TRUE)
    BY <1>4 DEF ReleaseAhead
  <2>2. j - 1 \in 1 .. n - 1 /\ j - 1 \in i .. Len(r) /\ (j - 1) + 1 = j
    BY <1>1, <1>2
  <2>3. Event(t, j - 1, x, TRUE)
    BY <1>3, <2>1, <2>2
  <2>4. QED
    BY <2>2, <2>3 DEF ReleaseAhead, r
<1>5. WholeCodes(t)
  <2>1. ASSUME NEW i \in 1 .. Len(r)
        PROVE  r[i] = E0 \/ \E x \in Key, u \in BOOLEAN : Event(t, i, x, u)
    <3>1. i \in 1 .. n - 1 /\ i + 1 \in 1 .. n
      BY <1>up
    <3>2. q[i + 1] = E0 \/ \E x \in Key, u \in BOOLEAN : Event(s, i + 1, x, u)
      BY <1>1, <3>1 DEF WholeCodes
    <3>3. QED
      BY <1>2, <1>3, <3>1, <3>2
  <2>2. q[n] # E0
    BY <1>1 DEF WholeCodes
  <2>3. r # <<>> => r[Len(r)] # E0
    <3> SUFFICES ASSUME r # <<>> PROVE r[Len(r)] # E0
      OBVIOUS
    <3>1. Len(r) \in 1 .. n - 1 /\ Len(r) + 1 = n
      BY <1>1, <1>2
    <3>2. QED
      BY <1>2, <2>2, <3>1
  <2>4. "E0ESC" \in t.shift => r # <<>>
    <3> SUFFICES ASSUME q[1] = E0 PROVE r # <<>>
      OBVIOUS
    <3>1. n # 1
      BY <2>2
    <3>2. Len(r) = n - 1 /\ n \in Nat /\ n # 0
      BY <1>1, <1>2
    <3> HIDE DEF n
    <3>3. Len(r) # 0
      BY <3>1, <3>2
    <3>4. ASSUME r = <<>> PROVE FALSE
      BY <3>3, <3>4
    <3>5. QED
      BY <3>4
  <2>5. QED
    BY <2>1, <2>3, <2>4 DEF WholeCodes, r
<1>6. ASSUME NEW i \in 1 .. Len(r), NEW k \in Key, Event(t, i, k, FALSE)
      PROVE  k \in t.held \/ ReleaseAhead(t, k, i + 1)
  <2>1. i \in 1 .. n - 1 /\ i + 1 \in 1 .. n
    BY <1>up
  <2>2. Event(s, i + 1, k, FALSE)
    BY <1>3, <1>6, <2>1
  <2>3. k \in s.held \/ ReleaseAhead(s, k, (i + 1) + 1)
    BY <2>1, <2>2 DEF KbdGood
  <2>4. QED
    BY <1>4, <2>1, <2>3
<1>7. ASSUME NEW k \in Key, k \in s.held \/ ReleaseAhead(s, k, 2)
      PROVE  Covered(t, k)
  <2>1. 1 \in 1 .. n /\ 1 + 1 = 2
    BY <1>1
  <2>2. QED
    BY <1>4, <1>7, <2>1 DEF Covered
<1>8. QED
  BY <1>5, <1>6, <1>7 DEF r

(* kbd_proc_data reads a prefix, a release or a press. *)
LEMMA KbdProcDataInv == ASSUME KbdInv, KbdProcData PROVE KbdInv'
<1> DEFINE s == st
           t == st'
           q == st.queue
           byte == Head(q)
           s1 == [st EXCEPT !.queue = Tail(q), !.c = "NO", !.reboot = FALSE]
           data == Pressed(st.shift, byte)
           shift1 == AfterPress(st.shift, data)
           c1 == charcode(shift1, data)
           reboot1 == {"CTL", "ALT"} \subseteq shift1 /\ c1 = "DEL"
<1>1. job = "kbd" /\ KbdGood(s) /\ KbdType(s) /\ WholeCodes(s) /\ q # <<>>
  BY DEF KbdInv, KbdGood, KbdProcData
<1>2. /\ q \in Seq(Nat) /\ Len(q) \in Nat /\ 1 \in 1 .. Len(q)
      /\ Tail(q) \in Seq(Nat) /\ byte = q[1] /\ byte \in Nat
      /\ s.shift \in SUBSET Flag
  <2>1. q \in Seq(Nat) /\ s.shift \in SUBSET Flag
    BY <1>1 DEF KbdType
  <2>2. QED
    BY <1>1, <2>1
<1>3. /\ job' = job
      /\ t = CASE byte = E0 -> [s1 EXCEPT !.shift = @ \cup {"E0ESC"}]
               [] byte # E0 /\ byte >= 128 ->
                    [s1 EXCEPT !.shift = Released(@, byte)]
               [] OTHER -> [s1 EXCEPT !.shift = shift1, !.c = c1,
                                      !.reboot = reboot1]
  BY DEF KbdProcData, Becomes
<1> HIDE DEF byte, s1, data, shift1, c1, reboot1, t
<1>4. /\ KbdType(s1) /\ s1.queue = Tail(q) /\ s1.held = s.held
      /\ s1.shift = s.shift /\ s1.reboot = FALSE
  BY <1>1, <1>2 DEF KbdType, s1
<1>5. ASSUME NEW k \in Key, Covered(s, k), ~Event(s, 1, k, TRUE)
      PROVE  k \in s.held \/ ReleaseAhead(s, k, 2)
  <2>1. CASE k \in s.held
    BY <2>1
  <2>2. CASE ReleaseAhead(s, k, 1)
    <3>1. PICK j \in 1 .. Len(q) : Event(s, j, k, TRUE)
      BY <2>2 DEF ReleaseAhead
    <3>2. j # 1
      BY <1>5, <3>1
    <3>3. j \in 2 .. Len(q)
      BY <1>2, <3>2
    <3>4. QED
      BY <3>1, <3>3 DEF ReleaseAhead
  <2>3. QED
    BY <1>5, <2>1, <2>2 DEF Covered
<1>6. CASE byte = E0
  <2> DEFINE shift2 == s.shift \cup {"E0ESC"}
  <2>1. t = [s1 EXCEPT !.shift = shift2]
    <3>1. t = [s1 EXCEPT !.shift = @ \cup {"E0ESC"}]
      BY <1>3, <1>6, Zenon
    <3>2. QED
      BY <1>4, <3>1
  <2>2. shift2 \in SUBSET Flag
    BY <1>2 DEF Flag
  <2>3. "E0ESC" \in shift2
    OBVIOUS
  <2>4. \A m \in shift2 \cap Modifier : m \in s.shift
    BY DEF Modifier
  <2> HIDE DEF shift2
  <2>5. /\ KbdType(t) /\ t.queue = Tail(q) /\ t.held = s.held /\ t.shift = shift2
        /\ t.reboot = FALSE
    BY <1>4, <2>1, <2>2 DEF KbdType
  <2>6. /\ WholeCodes(t)
        /\ \A i \in 1 .. Len(t.queue), k \in Key :
             Event(t, i, k, FALSE) => k \in t.held \/ ReleaseAhead(t, k, i + 1)
        /\ \A k \in Key : k \in s.held \/ ReleaseAhead(s, k, 2) => Covered(t, k)
    BY <1>1, <1>2, <1>6, <2>3, <2>5, ByteRead
  <2>7. ASSUME NEW k \in Key PROVE ~Event(s, 1, k, TRUE)
    <3>1. k.code \in Nat /\ k.code # 96
      BY KeyFacts
    <3>2. k.code + 128 # 224
      <4> DEFINE kc == k.code
      <4>1. kc \in Nat /\ kc # 96
        BY <3>1
      <4> HIDE DEF kc
      <4>2. kc + 128 # 224
        BY <4>1
      <4>3. QED
        BY <4>2 DEF kc
    <3>3. QED
      BY <1>2, <1>6, <3>2 DEF Event, E0
  <2>8. \A m \in t.shift \cap Modifier :
          \E k \in Key : m \in ModifierOf(k) /\ Covered(t, k)
    <3> SUFFICES ASSUME NEW m \in t.shift \cap Modifier
                 PROVE  \E k \in Key : m \in ModifierOf(k) /\ Covered(t, k)
      OBVIOUS
    <3>1. m \in s.shift \cap Modifier
      BY <2>4, <2>5
    <3>2. PICK k \in Key : m \in ModifierOf(k) /\ Covered(s, k)
      BY <1>1, <3>1 DEF KbdGood
    <3>3. QED
      BY <1>5, <2>6, <2>7, <3>2
  <2>9. KbdGood(t)
    BY <2>5, <2>6, <2>8 DEF KbdGood
  <2>10. QED
    BY <1>1, <1>3, <2>9 DEF KbdInv, t
<1>7. CASE byte # E0
  <2>1. PICK k0 \in Key, up \in BOOLEAN : Event(s, 1, k0, up)
    BY <1>1, <1>2, <1>7 DEF WholeCodes
  <2>2. /\ byte = (IF up THEN k0.code + 128 ELSE k0.code)
        /\ ("E0ESC" \in s.shift) <=> k0.e0
    BY <1>2, <2>1 DEF Event, Esc
  <2>3. k0.code \in Nat /\ 1 <= k0.code /\ k0.code < 128 /\ k0.e0 \in BOOLEAN
    BY KeyFacts
  <2>4. CASE byte >= 128
    <3> DEFINE d == IF "E0ESC" \in s.shift THEN byte ELSE byte % 128
               shift2 == s.shift \ (shiftcode(d) \cup {"E0ESC"})
    <3>1. t = [s1 EXCEPT !.shift = shift2]
      <4>1. t = [s1 EXCEPT !.shift = Released(@, byte)]
        BY <1>3, <1>7, <2>4, Zenon
      <4>2. QED
        BY <1>4, <4>1 DEF Released
    <3>2. up /\ byte = k0.code + 128
      <4> DEFINE kc == k0.code
      <4>1. kc \in Nat /\ kc < 128 /\ byte = IF up THEN kc + 128 ELSE kc
        BY <2>2, <2>3
      <4> HIDE DEF kc
      <4>2. up /\ byte = kc + 128
        BY <1>2, <2>4, <4>1
      <4>3. QED
        BY <4>2 DEF kc
    <3>3. d = IF k0.e0 THEN k0.code + 128 ELSE k0.code
      <4>1. (k0.code + 128) % 128 = k0.code
        <5> DEFINE kc == k0.code
        <5>1. kc \in Nat /\ kc < 128
          BY <2>3
        <5> HIDE DEF kc
        <5>2. (kc + 128) % 128 = kc
          BY <5>1
        <5>3. QED
          BY <5>2 DEF kc
      <4>2. QED
        BY <2>2, <3>2, <4>1
    <3> HIDE DEF d
    <3>4. shiftcode(d) = ModifierOf(k0)
      BY <3>3 DEF ModifierOf
    <3>5. shift2 \in SUBSET Flag /\ "E0ESC" \notin shift2
      BY <1>2
    <3>6. \A m \in shift2 : m \in s.shift /\ m \notin ModifierOf(k0)
      BY <3>4
    <3> HIDE DEF shift2
    <3>7. /\ KbdType(t) /\ t.queue = Tail(q) /\ t.held = s.held
          /\ t.shift = shift2 /\ t.reboot = FALSE
      BY <1>4, <3>1, <3>5 DEF KbdType
    <3>8. /\ WholeCodes(t)
          /\ \A i \in 1 .. Len(t.queue), k \in Key :
               Event(t, i, k, FALSE) => k \in t.held \/ ReleaseAhead(t, k, i + 1)
          /\ \A k \in Key : k \in s.held \/ ReleaseAhead(s, k, 2) => Covered(t, k)
      BY <1>1, <1>2, <1>7, <3>5, <3>7, ByteRead
    <3>9. ASSUME NEW m \in t.shift \cap Modifier
          PROVE  \E k \in Key : m \in ModifierOf(k) /\ Covered(t, k)
      <4>1. m \in s.shift \cap Modifier /\ m \notin ModifierOf(k0)
        BY <3>6, <3>7
      <4>2. PICK k \in Key : m \in ModifierOf(k) /\ Covered(s, k)
        BY <1>1, <4>1 DEF KbdGood
      <4>3. ASSUME Event(s, 1, k, TRUE) PROVE FALSE
        <5>1. byte = k.code + 128 /\ (k.e0 <=> k0.e0)
          BY <1>2, <2>2, <4>3 DEF Event, Esc
        <5>2. k.code = k0.code
          <6> DEFINE kc == k.code
                     lc == k0.code
          <6>1. kc \in Nat /\ lc \in Nat /\ kc + 128 = lc + 128
            BY <2>3, <3>2, <5>1, KeyFacts
          <6> HIDE DEF kc, lc
          <6>2. kc = lc
            BY <6>1
          <6>3. QED
            BY <6>2 DEF kc, lc
        <5>3. k = k0
          BY <5>1, <5>2, KeyFacts
        <5>4. QED
          BY <4>1, <4>2, <5>3
      <4>4. QED
        BY <1>5, <3>8, <4>2, <4>3
    <3>10. KbdGood(t)
      BY <3>7, <3>8, <3>9 DEF KbdGood
    <3>11. QED
      BY <1>1, <1>3, <3>10 DEF KbdInv, t
  <2>5. CASE ~(byte >= 128)
    <3>1. t = [s1 EXCEPT !.shift = shift1, !.c = c1, !.reboot = reboot1]
      BY <1>3, <1>7, <2>5, Zenon
    <3>2. ~up /\ byte = k0.code
      <4> DEFINE kc == k0.code
      <4>1. kc \in Nat /\ kc < 128 /\ byte = IF up THEN kc + 128 ELSE kc
        BY <2>2, <2>3
      <4> HIDE DEF kc
      <4>2. ~up /\ byte = kc
        BY <1>2, <2>5, <4>1
      <4>3. QED
        BY <4>2 DEF kc
    <3>3. data = IF k0.e0 THEN k0.code + 128 ELSE k0.code
      BY <2>2, <3>2 DEF data, Pressed
    <3>4. shiftcode(data) = ModifierOf(k0)
      BY <3>3 DEF ModifierOf
    <3>5. /\ shiftcode(data) \subseteq Modifier
          /\ togglecode(data) \subseteq {"CAPSLOCK", "NUMLOCK", "SCROLLLOCK"}
          /\ c1 \in {"NO", "DEL", "ctrl-A", "a", "A"} /\ (c1 = "DEL" => data = 211)
      BY TableFacts DEF c1
    <3>6. /\ shift1 \in SUBSET Flag /\ "E0ESC" \notin shift1
          /\ \A m \in shift1 \cap Modifier : m \in s.shift \/ m \in ModifierOf(k0)
      BY <1>2, <3>4, <3>5 DEF shift1, AfterPress, SymDiff, Flag, Modifier
    <3>7. reboot1 \in BOOLEAN
      BY DEF reboot1
    <3>8. /\ KbdType(t) /\ t.queue = Tail(q) /\ t.held = s.held
          /\ t.shift = shift1 /\ t.reboot = reboot1
      <4>1. PICK rb \in BOOLEAN : rb = reboot1
        BY <3>7
      <4>2. t = [s1 EXCEPT !.shift = shift1, !.c = c1, !.reboot = rb]
        BY <3>1, <4>1, Zenon
      <4>3. /\ KbdType(t) /\ t.queue = Tail(q) /\ t.held = s.held
            /\ t.shift = shift1 /\ t.reboot = rb
        BY <1>4, <3>5, <3>6, <4>2 DEF KbdType
      <4>4. QED
        BY <4>1, <4>3, Zenon
    <3>9. /\ WholeCodes(t)
          /\ \A i \in 1 .. Len(t.queue), k \in Key :
               Event(t, i, k, FALSE) => k \in t.held \/ ReleaseAhead(t, k, i + 1)
          /\ \A k \in Key : k \in s.held \/ ReleaseAhead(s, k, 2) => Covered(t, k)
      BY <1>1, <1>2, <1>7, <3>6, <3>8, ByteRead
    <3>10. Covered(t, k0)
      <4>1. Event(s, 1, k0, FALSE)
        BY <2>1, <3>2
      <4>2. k0 \in s.held \/ ReleaseAhead(s, k0, 1 + 1)
        BY <1>1, <1>2, <4>1 DEF KbdGood
      <4>3. QED
        BY <3>9, <4>2
    <3>11. ASSUME NEW m \in t.shift \cap Modifier
           PROVE  \E k \in Key : m \in ModifierOf(k) /\ Covered(t, k)
      <4>1. CASE m \in ModifierOf(k0)
        BY <3>10, <4>1
      <4>2. CASE m \in s.shift
        <5>1. m \in s.shift \cap Modifier
          BY <4>2
        <5>2. PICK k \in Key : m \in ModifierOf(k) /\ Covered(s, k)
          BY <1>1, <5>1 DEF KbdGood
        <5>3. ~Event(s, 1, k, TRUE)
          <6> SUFFICES ASSUME Event(s, 1, k, TRUE) PROVE FALSE
            OBVIOUS
          <6> DEFINE kc == k.code
          <6>1. byte = kc + 128 /\ kc \in Nat
            BY <1>2, KeyFacts DEF Event
          <6> HIDE DEF kc
          <6>2. QED
            BY <1>2, <2>5, <6>1
        <5>4. QED
          BY <1>5, <3>9, <5>2, <5>3
      <4>3. QED
        BY <3>6, <3>8, <4>1, <4>2
    <3>12. reboot1 => \E k \in Key : k.code = 83 /\ k.e0 /\ Covered(t, k)
      <4> SUFFICES ASSUME reboot1 PROVE k0.code = 83 /\ k0.e0
        BY <3>10
      <4>1. data = 211
        BY <3>5 DEF reboot1
      <4> DEFINE kc == k0.code
      <4>2. kc \in Nat /\ kc < 128 /\ 211 = IF k0.e0 THEN kc + 128 ELSE kc
        BY <2>3, <3>3, <4>1
      <4> HIDE DEF kc
      <4>3. k0.e0 /\ kc = 83
        BY <4>2
      <4>4. QED
        BY <4>3 DEF kc
    <3>13. KbdGood(t)
      BY <3>8, <3>9, <3>11, <3>12 DEF KbdGood
    <3>14. QED
      BY <1>1, <1>3, <3>13 DEF KbdInv, t
  <2>6. QED
    BY <2>4, <2>5
<1>8. QED
  BY <1>6, <1>7

(* kbd_proc_data of kern/console.c: whenever all bytes are read, a         *)
(* modifier is on only if a key for it is down, no 0xE0 is pending, and    *)
(* only the Del key has rebooted the machine, for every keyboard and any   *)
(* order of presses, releases and polls.                                   *)
THEOREM KeyboardNeverSticks == KbdSpec => []ModifiersHeld
<1>1. KbdInit => KbdInv
  <2> SUFFICES ASSUME KbdInit PROVE KbdInv
    OBVIOUS
  <2>1. /\ job = "kbd" /\ st.queue = <<>> /\ st.shift = {} /\ st.held = {}
        /\ st.reboot = FALSE /\ KbdType(st)
    BY DEF KbdInit, KbdType
  <2>2. Len(st.queue) = 0
    BY <2>1
  <2>3. WholeCodes(st)
    BY <2>1, <2>2 DEF WholeCodes
  <2>4. QED
    BY <2>1, <2>2, <2>3 DEF KbdInv, KbdGood
<1>2. KbdInv /\ [KbdNext]_routineVars => KbdInv'
  <2> SUFFICES ASSUME KbdInv, [KbdNext]_routineVars PROVE KbdInv'
    OBVIOUS
  <2>1. CASE UNCHANGED routineVars
    BY <2>1 DEF routineVars, KbdInv
  <2>2. ASSUME NEW k \in Key, KeyDown(k) PROVE KbdInv'
    <3> DEFINE held1 == st.held \cup {k}
    <3>1. job' = job /\ st' = [st EXCEPT !.held = held1,
                                         !.queue = st.queue \o Codes(k, FALSE)]
      BY <2>2 DEF KeyDown, Becomes
    <3>2. IF FALSE THEN held1 = st.held \ {k} ELSE held1 = st.held \cup {k}
      OBVIOUS
    <3> HIDE DEF held1
    <3>3. QED
      BY <3>1, <3>2, CodesArrive
  <2>3. ASSUME NEW k \in Key, KeyUp(k) PROVE KbdInv'
    <3> DEFINE held1 == st.held \ {k}
    <3>1. job' = job /\ st' = [st EXCEPT !.held = held1,
                                         !.queue = st.queue \o Codes(k, TRUE)]
      BY <2>3 DEF KeyUp, Becomes
    <3>2. IF TRUE THEN held1 = st.held \ {k} ELSE held1 = st.held \cup {k}
      OBVIOUS
    <3> HIDE DEF held1
    <3>3. QED
      BY <3>1, <3>2, CodesArrive
  <2>4. QED
    BY <2>1, <2>2, <2>3, KbdProcDataInv DEF KbdNext
<1>3. KbdInv => ModifiersHeld
  <2> SUFFICES ASSUME KbdInv, st.queue = <<>> PROVE ModifiersHeld
    BY DEF ModifiersHeld
  <2>1. KbdGood(st) /\ WholeCodes(st) /\ Len(st.queue) = 0
    BY DEF KbdInv, KbdGood
  <2>2. \A k : ~ReleaseAhead(st, k, 1)
    BY <2>1 DEF ReleaseAhead
  <2>3. "E0ESC" \notin st.shift
    BY <2>1 DEF WholeCodes
  <2>4. ASSUME NEW m \in st.shift \cap Modifier
        PROVE  m \in UNION {ModifierOf(k) : k \in st.held}
    <3>1. PICK k \in Key : m \in ModifierOf(k) /\ k \in st.held
      BY <2>1, <2>2 DEF KbdGood, Covered
    <3>2. QED
      BY <3>1
  <2>5. ASSUME st.reboot PROVE [code |-> 83, e0 |-> TRUE] \in st.held
    <3>1. PICK k \in Key : k.code = 83 /\ k.e0 /\ k \in st.held
      BY <2>1, <2>2, <2>5 DEF KbdGood, Covered
    <3>2. k.e0 = TRUE
      BY <3>1, KeyFacts, Zenon
    <3>3. k = [code |-> k.code, e0 |-> k.e0]
      BY KeyAssumption
    <3>4. k = [code |-> 83, e0 |-> TRUE]
      BY <3>1, <3>2, <3>3, Zenon
    <3>5. QED
      BY <3>1, <3>4
  <2>6. QED
    BY <2>3, <2>4, <2>5 DEF ModifiersHeld
<1>4. QED
  BY <1>1, <1>2, <1>3, PTL DEF KbdSpec

------------------------------------------------------------------------------
(* debuginfo_eip: the search of the stabs.  First, maxima and minima. *)

(* A set of numbers between lo and hi has a greatest element. *)
LEMMA MaxOf ==
  ASSUME NEW lo \in Int, NEW hi \in Int, NEW S \in SUBSET (lo .. hi), S # {}
  PROVE  Max(S) \in S /\ \A k \in S : k <= Max(S)
<1> DEFINE T == {hi - k : k \in S}
<1>1. T \in SUBSET Nat /\ T # {}
  <2>1. \A k \in S : hi - k \in Nat
    OBVIOUS
  <2>2. QED
    BY <2>1
<1>2. PICK m \in T : \A k \in T : m <= k
  BY <1>1, LeastElement
<1>3. PICK x \in S : m = hi - x
  OBVIOUS
<1>4. \A y \in S : x >= y
  BY <1>2, <1>3
<1>5. QED
  BY <1>4 DEF Max

(* Which element it is. *)
LEMMA MaxIs ==
  ASSUME NEW S \in SUBSET Int, NEW x \in S, \A k \in S : k <= x
  PROVE  Max(S) = x
<1>1. \A y \in S : x >= y
  OBVIOUS
<1>2. PICK m : m = Max(S)
  OBVIOUS
<1>3. m \in S /\ \A y \in S : m >= y
  BY <1>1, <1>2 DEF Max
<1>4. m = x
  BY <1>3
<1>5. QED
  BY <1>2, <1>4

(* Which element the least is. *)
LEMMA MinIs ==
  ASSUME NEW S \in SUBSET Int, NEW x \in S, \A k \in S : x <= k
  PROVE  Min(S) = x
<1>1. PICK m : m = Min(S)
  OBVIOUS
<1>2. m \in S /\ \A y \in S : m =< y
  BY <1>1 DEF Min
<1>3. m = x
  BY <1>2
<1>4. QED
  BY <1>1, <1>3

------------------------------------------------------------------------------
(* debuginfo_eip and stab_binsearch of kern/kdebug.c.  While the routine   *)
(* runs, its state is one of these.                                        *)
StabState ==
  [pc : {"start", "search", "found"}, stabs : StabTable, eip : StabAddr,
   addr : 0 .. StabMod - 1, ok : BOOLEAN, type : {"SO", "FUN", "SLINE"},
   lo : Int, hi : Int, key : 0 .. StabMod - 1, l : Int, r : Int,
   left : Int, right : Int, any : BOOLEAN, lfile : Int, rfile : Int,
   lfun : Int, rfun : Int, fn : Int, line : {0}, file : {-1}, narg : {0},
   ret : {0}]

(* The stabs of the type in the region that is searched. *)
Typed(s) == OfType(s, s.lo, s.hi, s.type)

(* The region lies in the table.  The search for the file is of the whole  *)
(* table, the one for the function of the stabs of the file.               *)
Region(s) ==
  /\ 0 <= s.lo /\ s.lo <= s.hi + 1 /\ s.hi < Cardinality(DOMAIN s.stabs)
  /\ s.type = "SO" =>
       /\ s.lo = 0 /\ 0 <= s.hi
       /\ s.stabs[0].type = "SO" => s.stabs[0].value <= s.addr
  /\ s.type = "FUN" => 1 <= s.lfile /\ s.lfile = s.lo /\ s.rfile = s.hi

(* What an ordered region satisfies between two turns of the loop: stabs   *)
(* before l are below the key, left is the last of them, and stabs after r *)
(* are above the key, the first of them at r + 1.                          *)
Bisected(s) ==
  /\ \/ s.key = s.addr
     \/ s.key = s.addr + 1 /\ \E j \in Typed(s) : s.stabs[j].value = s.addr
  /\ \A j \in Typed(s) : j < s.l =>
       /\ s.stabs[j].value < s.key /\ j <= s.left
       /\ s.left \in Typed(s) /\ s.stabs[s.left].value < s.key
  /\ \A j \in Typed(s) : j > s.r => s.stabs[j].value > s.key
  /\ s.r = s.hi \/ s.r + 1 \in Typed(s)

Narrowing(s) ==
  /\ s.lo <= s.l /\ s.l <= s.r + 1 /\ s.r <= s.hi /\ s.right = s.r
  /\ s.lo <= s.left /\ s.addr <= s.key
  /\ s.type = "SO" => 0 <= s.r
  /\ ~s.any => /\ s.left = s.lo /\ s.r = s.hi
               /\ \A j \in Typed(s) : j >= s.l
  /\ s.any => Typed(s) # {}
  /\ Ordered(s, Typed(s)) /\ ~Adjacent(s) => Bisected(s)

FoundIn(s) ==
  /\ s.lo - 1 <= s.left /\ s.left <= s.right + 1 /\ s.right <= s.hi
  /\ s.type = "SO" => 0 <= s.left
  /\ ~Adjacent(s) => RegionRight(s)

StabOK(s) ==
  /\ s \in StabState /\ Region(s)
  /\ s.pc = "start" => s.type = "SO"
  /\ s.pc = "search" => Narrowing(s)
  /\ s.pc = "found" => FoundIn(s)

StabInv == job = "debuginfo_eip" /\ (st.pc # "done" => StabOK(st))

(* The stabs of a region are stabs of the table. *)
LEMMA TypedFacts ==
  ASSUME NEW s, s \in StabState, Region(s)
  PROVE  /\ Typed(s) \in SUBSET (s.lo .. s.hi)
         /\ \A j \in Typed(s) :
              /\ s.stabs[j].type = s.type
              /\ s.stabs[j].value \in 0 .. StabMod - 2
<1>1. s.stabs \in StabTable /\ s.type \in {"SO", "FUN", "SLINE"}
      /\ s.lo \in Int /\ s.hi \in Int
  BY DEF StabState
<1> DEFINE n == Cardinality(DOMAIN s.stabs)
<1>2. n \in Nat /\ DOMAIN s.stabs = 0 .. n - 1
  <2>1. IsFiniteSet(DOMAIN s.stabs) /\ DOMAIN s.stabs = 0 .. n - 1
    BY <1>1, StabAssumption
  <2>2. QED
    BY <2>1, FS_CardinalityType
<1>3. 0 <= s.lo /\ s.hi < n
  BY DEF Region
<1> HIDE DEF n
<1>4. Typed(s) \in SUBSET (s.lo .. s.hi)
      /\ \A j \in Typed(s) : s.stabs[j].type = s.type
  BY DEF Typed, OfType
<1>5. ASSUME NEW j \in Typed(s) PROVE s.stabs[j].value \in 0 .. StabMod - 2
  <2>1. j \in DOMAIN s.stabs
    BY <1>1, <1>2, <1>3, <1>4
  <2>2. /\ s.stabs[j].value \in 0 .. StabMod - 1
        /\ s.stabs[j].type \in {"SO", "FUN", "SLINE"} =>
             s.stabs[j].value # StabMod - 1
    BY <1>1, <2>1, StabAssumption
  <2> DEFINE v == s.stabs[j].value
  <2>3. v \in 0 .. StabMod - 1 /\ v # StabMod - 1
    BY <1>1, <1>4, <2>2
  <2> HIDE DEF v
  <2>4. v \in 0 .. StabMod - 2
    BY <2>3, StabAssumption
  <2>5. QED
    BY <2>4 DEF v
<1>6. QED
  BY <1>4, <1>5

(* What a state of the search depends on. *)
LEMMA SameRegion ==
  ASSUME NEW s, NEW t, t.stabs = s.stabs, t.addr = s.addr, t.type = s.type,
         t.lo = s.lo, t.hi = s.hi, t.lfile = s.lfile, t.rfile = s.rfile
  PROVE  /\ Typed(t) = Typed(s) /\ (Adjacent(t) <=> Adjacent(s))
         /\ Ordered(t, Typed(t)) <=> Ordered(s, Typed(s))
         /\ Region(s) => Region(t)
<1>1. Typed(t) = Typed(s)
  BY DEF Typed, OfType
<1>2. Ordered(t, Typed(t)) <=> Ordered(s, Typed(s))
  BY <1>1 DEF Ordered
<1>3. Adjacent(t) <=> Adjacent(s)
  BY <1>1 DEF Adjacent, Typed
<1>4. Region(s) => Region(t)
  BY DEF Region
<1>5. QED
  BY <1>1, <1>2, <1>3, <1>4

(* One turn of the loop of stab_binsearch. *)
LEMMA TurnOK ==
  ASSUME NEW s, s \in StabState, Region(s), s.pc = "search", Narrowing(s),
         s.l <= s.r
  PROVE  StabOK(Turn(s)) /\ Turn(s).pc = "search"
<1> DEFINE mid == (s.l + s.r) \div 2
           found == {k \in s.l .. mid : s.stabs[k].type = s.type}
           m == Max(found)
           v == s.stabs[m].value
           ks == Typed(s)
           t == Turn(s)
<1>1. /\ s.l \in Int /\ s.r \in Int /\ s.lo \in Int /\ s.hi \in Int
      /\ s.left \in Int /\ s.right \in Int /\ s.any \in BOOLEAN
      /\ s.key \in 0 .. StabMod - 1 /\ s.addr \in 0 .. StabMod - 1
      /\ s.type \in {"SO", "FUN", "SLINE"}
  BY DEF StabState
<1>2. /\ s.lo <= s.l /\ s.l <= s.r + 1 /\ s.r <= s.hi /\ s.right = s.r
      /\ s.lo <= s.left /\ s.addr <= s.key
      /\ s.type = "SO" => 0 <= s.r
  BY DEF Narrowing
<1>3. mid \in Int /\ s.l <= mid /\ mid <= s.r
  BY <1>1, <1>2
<1>4. /\ ks \in SUBSET (s.lo .. s.hi)
      /\ \A j \in ks : /\ s.stabs[j].type = s.type
                       /\ s.stabs[j].value \in 0 .. StabMod - 2
  BY TypedFacts
<1>5. StabMod \in Nat
  BY StabAssumption
<1>6. found = {k \in ks : s.l <= k /\ k <= mid}
  BY <1>1, <1>2, <1>3 DEF Typed, OfType
<1>7. ASSUME found # {}
      PROVE  /\ m \in ks /\ s.l <= m /\ m <= mid /\ m \in Int
             /\ \A k \in ks : s.l <= k /\ k <= mid => k <= m
             /\ v \in 0 .. StabMod - 2
  <2>1. found \in SUBSET (s.l .. mid)
    OBVIOUS
  <2> HIDE DEF found, mid
  <2>2. m \in found /\ \A k \in found : k <= m
    BY <1>1, <1>3, <1>7, <2>1, MaxOf
  <2> HIDE DEF m
  <2>3. m \in ks /\ s.l <= m /\ m <= mid /\ m \in Int
    BY <1>4, <1>6, <2>2
  <2>4. QED
    BY <1>4, <1>6, <2>2, <2>3
<1>8. t = CASE found = {} -> [s EXCEPT !.l = mid + 1]
            [] found # {} /\ v < s.key ->
                 [s EXCEPT !.any = TRUE, !.left = m, !.l = mid + 1]
            [] found # {} /\ v > s.key ->
                 [s EXCEPT !.any = TRUE, !.right = m - 1, !.r = m - 1]
            [] OTHER ->
                 [s EXCEPT !.any = TRUE, !.left = m, !.l = m,
                           !.key = (s.key + 1) % StabMod]
  BY DEF Turn
<1> DEFINE Same(u) == /\ u.stabs = s.stabs /\ u.addr = s.addr
                      /\ u.type = s.type /\ u.lo = s.lo /\ u.hi = s.hi
                      /\ u.lfile = s.lfile /\ u.rfile = s.rfile
                      /\ u.pc = "search"
<1> HIDE DEF found, mid, m, v, t, ks
<1>9. ASSUME NEW u, u \in StabState, Same(u),
             /\ u.lo <= u.l /\ u.l <= u.r + 1 /\ u.r <= u.hi /\ u.right = u.r
             /\ u.lo <= u.left /\ u.addr <= u.key
             /\ u.type = "SO" => 0 <= u.r
             /\ ~u.any => /\ u.left = u.lo /\ u.r = u.hi
                          /\ \A j \in ks : j >= u.l
             /\ u.any => ks # {},
             Ordered(s, ks) /\ ~Adjacent(s) =>
               /\ \/ u.key = u.addr
                  \/ /\ u.key = u.addr + 1
                     /\ \E j \in ks : s.stabs[j].value = u.addr
               /\ \A j \in ks : j < u.l =>
                    /\ s.stabs[j].value < u.key /\ j <= u.left
                    /\ u.left \in ks /\ s.stabs[u.left].value < u.key
               /\ \A j \in ks : j > u.r => s.stabs[j].value > u.key
               /\ u.r = u.hi \/ u.r + 1 \in ks
      PROVE  StabOK(u) /\ u.pc = "search"
  <2>1. /\ Typed(u) = ks /\ (Adjacent(u) <=> Adjacent(s))
        /\ Ordered(u, Typed(u)) <=> Ordered(s, ks)
        /\ Region(u) /\ u.stabs = s.stabs /\ u.pc = "search"
    BY <1>9, SameRegion DEF ks
  <2>2. Ordered(u, Typed(u)) /\ ~Adjacent(u) => Bisected(u)
    BY <1>9, <2>1 DEF Bisected
  <2>3. Narrowing(u)
    BY <1>9, <2>1, <2>2 DEF Narrowing
  <2>4. QED
    BY <1>9, <2>1, <2>3 DEF StabOK
<1>10. Ordered(s, ks) /\ ~Adjacent(s) =>
         /\ \/ s.key = s.addr
            \/ s.key = s.addr + 1 /\ \E j \in ks : s.stabs[j].value = s.addr
         /\ \A j \in ks : j < s.l =>
              /\ s.stabs[j].value < s.key /\ j <= s.left
              /\ s.left \in ks /\ s.stabs[s.left].value < s.key
         /\ \A j \in ks : j > s.r => s.stabs[j].value > s.key
         /\ s.r = s.hi \/ s.r + 1 \in ks
  BY DEF Narrowing, Bisected, ks
<1>11. /\ ~s.any => /\ s.left = s.lo /\ s.r = s.hi
                    /\ \A j \in ks : j >= s.l
       /\ s.any => ks # {}
  BY DEF Narrowing, ks
<1>12. CASE found = {}
  <2>1. t = [s EXCEPT !.l = mid + 1]
    BY <1>8, <1>12
  <2>2. t \in StabState /\ Same(t)
    BY <1>3, <2>1 DEF StabState
  <2>3. /\ t.l = mid + 1 /\ t.r = s.r /\ t.right = s.right /\ t.key = s.key
        /\ t.left = s.left /\ t.any = s.any
    BY <2>1 DEF StabState
  <2>4. \A j \in ks : j < mid + 1 => j < s.l
    BY <1>1, <1>3, <1>4, <1>6, <1>12
  <2>5. /\ t.lo <= t.l /\ t.l <= t.r + 1 /\ t.r <= t.hi /\ t.right = t.r
        /\ t.lo <= t.left /\ t.addr <= t.key
        /\ t.type = "SO" => 0 <= t.r
    BY <1>1, <1>2, <1>3, <2>2, <2>3
  <2>6. /\ ~t.any => /\ t.left = t.lo /\ t.r = t.hi
                     /\ \A j \in ks : j >= t.l
        /\ t.any => ks # {}
    BY <1>1, <1>3, <1>4, <1>11, <2>2, <2>3, <2>4
  <2>7. Ordered(s, ks) /\ ~Adjacent(s) =>
          /\ \/ t.key = t.addr
             \/ t.key = t.addr + 1 /\ \E j \in ks : s.stabs[j].value = t.addr
          /\ \A j \in ks : j < t.l =>
               /\ s.stabs[j].value < t.key /\ j <= t.left
               /\ t.left \in ks /\ s.stabs[t.left].value < t.key
          /\ \A j \in ks : j > t.r => s.stabs[j].value > t.key
          /\ t.r = t.hi \/ t.r + 1 \in ks
    BY <1>10, <2>2, <2>3, <2>4
  <2> HIDE DEF Same
  <2>8. QED
    BY <1>9, <2>2, <2>5, <2>6, <2>7 DEF t
<1>13. CASE found # {} /\ v < s.key
  <2>1. t = [s EXCEPT !.any = TRUE, !.left = m, !.l = mid + 1]
    <3>1. ~(v > s.key)
      BY <1>1, <1>7, <1>13
    <3>2. QED
      BY <1>8, <1>13, <3>1, Zenon
  <2>2. t \in StabState /\ Same(t)
    <3>1. m \in Int /\ mid + 1 \in Int
      BY <1>3, <1>7, <1>13
    <3>2. QED
      BY <2>1, <3>1 DEF StabState
  <2>3. /\ t.l = mid + 1 /\ t.r = s.r /\ t.right = s.right /\ t.key = s.key
        /\ t.left = m /\ t.any = TRUE
    BY <2>1 DEF StabState
  <2>4. ASSUME Ordered(s, ks), NEW j \in ks, j < mid + 1
        PROVE  s.stabs[j].value < s.key /\ j <= m
    <3>1. j <= m
      BY <1>1, <1>3, <1>4, <1>7, <1>13, <2>4
    <3>2. s.stabs[j].value <= v
      BY <1>7, <1>13, <2>4, <3>1 DEF Ordered, v
    <3>3. QED
      BY <1>1, <1>4, <1>7, <1>13, <3>1, <3>2
  <2>5. /\ t.lo <= t.l /\ t.l <= t.r + 1 /\ t.r <= t.hi /\ t.right = t.r
        /\ t.lo <= t.left /\ t.addr <= t.key
        /\ t.type = "SO" => 0 <= t.r
    BY <1>1, <1>2, <1>3, <1>7, <1>13, <2>2, <2>3
  <2>6. /\ ~t.any => /\ t.left = t.lo /\ t.r = t.hi
                     /\ \A j \in ks : j >= t.l
        /\ t.any => ks # {}
    BY <1>7, <1>13, <2>3
  <2>7. Ordered(s, ks) /\ ~Adjacent(s) =>
          /\ \/ t.key = t.addr
             \/ t.key = t.addr + 1 /\ \E j \in ks : s.stabs[j].value = t.addr
          /\ \A j \in ks : j < t.l =>
               /\ s.stabs[j].value < t.key /\ j <= t.left
               /\ t.left \in ks /\ s.stabs[t.left].value < t.key
          /\ \A j \in ks : j > t.r => s.stabs[j].value > t.key
          /\ t.r = t.hi \/ t.r + 1 \in ks
    BY <1>7, <1>10, <1>13, <2>2, <2>3, <2>4 DEF v
  <2> HIDE DEF Same
  <2>8. QED
    BY <1>9, <2>2, <2>5, <2>6, <2>7 DEF t
<1>14. CASE found # {} /\ v > s.key
  <2>1. t = [s EXCEPT !.any = TRUE, !.right = m - 1, !.r = m - 1]
    <3>1. ~(v < s.key)
      BY <1>1, <1>7, <1>14
    <3>2. QED
      BY <1>8, <1>14, <3>1, Zenon
  <2>2. t \in StabState /\ Same(t)
    <3>1. m - 1 \in Int
      BY <1>7, <1>14
    <3>2. QED
      BY <2>1, <3>1 DEF StabState
  <2>3. /\ t.l = s.l /\ t.r = m - 1 /\ t.right = m - 1 /\ t.key = s.key
        /\ t.left = s.left /\ t.any = TRUE
    BY <2>1 DEF StabState
  <2>4. ASSUME Ordered(s, ks), NEW j \in ks, j > m - 1
        PROVE  s.stabs[j].value > s.key
    <3>1. m <= j
      BY <1>4, <1>7, <1>14, <2>4
    <3>2. v <= s.stabs[j].value
      BY <1>7, <1>14, <2>4, <3>1 DEF Ordered, v
    <3>3. QED
      BY <1>1, <1>4, <1>7, <1>14, <3>1, <3>2
  <2>5. s.type = "SO" => 0 <= m - 1
    <3>1. ASSUME s.type = "SO", m = 0 PROVE FALSE
      <4>1. v <= s.addr
        BY <1>4, <1>7, <1>14, <3>1 DEF Region, v
      <4>2. QED
        BY <1>1, <1>2, <1>7, <1>14, <4>1
    <3>2. 0 <= s.lo
      BY DEF Region
    <3>3. QED
      BY <1>1, <1>2, <1>7, <1>14, <3>1, <3>2
  <2>6. /\ t.lo <= t.l /\ t.l <= t.r + 1 /\ t.r <= t.hi /\ t.right = t.r
        /\ t.lo <= t.left /\ t.addr <= t.key
        /\ t.type = "SO" => 0 <= t.r
    BY <1>1, <1>2, <1>3, <1>7, <1>14, <2>2, <2>3, <2>5
  <2>7. /\ ~t.any => /\ t.left = t.lo /\ t.r = t.hi
                     /\ \A j \in ks : j >= t.l
        /\ t.any => ks # {}
    BY <1>7, <1>14, <2>3
  <2>8. Ordered(s, ks) /\ ~Adjacent(s) =>
          /\ \/ t.key = t.addr
             \/ t.key = t.addr + 1 /\ \E j \in ks : s.stabs[j].value = t.addr
          /\ \A j \in ks : j < t.l =>
               /\ s.stabs[j].value < t.key /\ j <= t.left
               /\ t.left \in ks /\ s.stabs[t.left].value < t.key
          /\ \A j \in ks : j > t.r => s.stabs[j].value > t.key
          /\ t.r = t.hi \/ t.r + 1 \in ks
    <3>1. (m - 1) + 1 = m
      BY <1>7, <1>14
    <3>2. QED
      BY <1>7, <1>10, <1>14, <2>2, <2>3, <2>4, <3>1
  <2> HIDE DEF Same
  <2>9. QED
    BY <1>9, <2>2, <2>6, <2>7, <2>8 DEF t
<1>15. CASE found # {} /\ v = s.key
  <2>1. t = [s EXCEPT !.any = TRUE, !.left = m, !.l = m,
                      !.key = (s.key + 1) % StabMod]
    <3>1. ~(v < s.key) /\ ~(v > s.key)
      BY <1>1, <1>7, <1>15
    <3>2. QED
      BY <1>8, <1>15, <3>1, Zenon
  <2>2. (s.key + 1) % StabMod = s.key + 1 /\ s.key + 1 \in 0 .. StabMod - 1
    <3> DEFINE key == s.key
    <3>1. key \in 0 .. StabMod - 2
      BY <1>7, <1>15
    <3> HIDE DEF key
    <3>2. (key + 1) % StabMod = key + 1 /\ key + 1 \in 0 .. StabMod - 1
      BY <1>5, <3>1
    <3>3. QED
      BY <3>2 DEF key
  <2>3. t = [s EXCEPT !.any = TRUE, !.left = m, !.l = m, !.key = s.key + 1]
    BY <2>1, <2>2
  <2>4. t \in StabState /\ Same(t)
    BY <1>7, <1>15, <2>2, <2>3 DEF StabState
  <2>5. /\ t.l = m /\ t.r = s.r /\ t.right = s.right /\ t.key = s.key + 1
        /\ t.left = m /\ t.any = TRUE
    BY <2>3 DEF StabState
  <2>6. /\ t.lo <= t.l /\ t.l <= t.r + 1 /\ t.r <= t.hi /\ t.right = t.r
        /\ t.lo <= t.left /\ t.addr <= t.key
        /\ t.type = "SO" => 0 <= t.r
    BY <1>1, <1>2, <1>3, <1>7, <1>15, <2>4, <2>5
  <2>7. /\ ~t.any => /\ t.left = t.lo /\ t.r = t.hi
                     /\ \A j \in ks : j >= t.l
        /\ t.any => ks # {}
    BY <1>7, <1>15, <2>5
  <2>8. ASSUME Ordered(s, ks), ~Adjacent(s)
        PROVE  /\ t.key = t.addr + 1 /\ s.stabs[m].value = t.addr
               /\ \A j \in ks : j < t.l =>
                    /\ s.stabs[j].value < t.key /\ j <= t.left
                    /\ t.left \in ks /\ s.stabs[t.left].value < t.key
               /\ \A j \in ks : j > t.r => s.stabs[j].value > t.key
               /\ t.r = t.hi \/ t.r + 1 \in ks
    <3>1. s.key = s.addr
      <4>1. ASSUME s.key = s.addr + 1, NEW j \in ks, s.stabs[j].value = s.addr
            PROVE  FALSE
        BY <1>7, <1>15, <2>8, <4>1 DEF Adjacent, ks, Typed, v
      <4>2. QED
        BY <1>10, <2>8, <4>1
    <3>2. s.stabs[m].value = s.addr
      BY <1>15, <3>1 DEF v
    <3>3. ASSUME NEW j \in ks, j < m
          PROVE  s.stabs[j].value < s.key + 1 /\ j <= m
      <4>1. j <= m
        BY <1>4, <1>7, <1>15, <3>3
      <4>2. s.stabs[j].value <= v
        BY <1>7, <1>15, <2>8, <4>1 DEF Ordered, v
      <4>3. QED
        BY <1>1, <1>4, <1>7, <1>15, <4>1, <4>2
    <3>4. ASSUME NEW j \in ks, j > s.r
          PROVE  s.stabs[j].value > s.key + 1
      <4>1. s.stabs[j].value > s.key
        BY <1>10, <2>8, <3>4
      <4>2. s.stabs[j].value # s.addr + 1
        BY <1>7, <1>15, <2>8, <3>2 DEF Adjacent, ks, Typed
      <4>3. QED
        BY <1>1, <1>4, <3>1, <4>1, <4>2
    <3>5. s.stabs[m].value < s.key + 1
      BY <1>1, <3>1, <3>2
    <3>6. QED
      BY <1>7, <1>10, <1>15, <2>4, <2>5, <2>8, <3>1, <3>2, <3>3, <3>4, <3>5
  <2>9. Ordered(s, ks) /\ ~Adjacent(s) =>
          /\ \/ t.key = t.addr
             \/ t.key = t.addr + 1 /\ \E j \in ks : s.stabs[j].value = t.addr
          /\ \A j \in ks : j < t.l =>
               /\ s.stabs[j].value < t.key /\ j <= t.left
               /\ t.left \in ks /\ s.stabs[t.left].value < t.key
          /\ \A j \in ks : j > t.r => s.stabs[j].value > t.key
          /\ t.r = t.hi \/ t.r + 1 \in ks
    BY <1>7, <1>15, <2>8
  <2> HIDE DEF Same
  <2>10. QED
    BY <1>9, <2>4, <2>6, <2>7, <2>9 DEF t
<1>16. QED
  BY <1>1, <1>7, <1>12, <1>13, <1>14, <1>15

(* The end of stab_binsearch, once the region is empty. *)
LEMMA SettledOK ==
  ASSUME NEW s, s \in StabState, Region(s), s.pc = "search", Narrowing(s),
         s.l > s.r
  PROVE  StabOK(Settled(s)) /\ Settled(s).pc = "found"
<1> DEFINE ks == Typed(s)
           typed == {k \in s.left + 1 .. s.right : s.stabs[k].type = s.type}
           floor == IF s.right < s.left THEN s.right ELSE s.left
           last == IF typed = {} THEN floor ELSE Max(typed)
           t == Settled(s)
<1>1. /\ s.l \in Int /\ s.r \in Int /\ s.lo \in Int /\ s.hi \in Int
      /\ s.left \in Int /\ s.right \in Int /\ s.any \in BOOLEAN
      /\ s.key \in 0 .. StabMod - 1 /\ s.addr \in 0 .. StabMod - 1
      /\ s.type \in {"SO", "FUN", "SLINE"}
  BY DEF StabState
<1>2. /\ s.lo <= s.l /\ s.l = s.r + 1 /\ s.r <= s.hi /\ s.right = s.r
      /\ s.lo <= s.left /\ s.addr <= s.key
      /\ s.type = "SO" => 0 <= s.r
      /\ ~s.any => /\ s.left = s.lo /\ s.r = s.hi
                   /\ \A j \in ks : j >= s.l
      /\ s.any => ks # {}
  BY <1>1 DEF Narrowing
<1>3. /\ ks \in SUBSET (s.lo .. s.hi)
      /\ \A j \in ks : s.stabs[j].value \in 0 .. StabMod - 2
  BY TypedFacts
<1>4. 0 <= s.lo /\ s.lo <= s.hi + 1 /\ (s.type = "SO" => s.lo = 0)
  BY DEF Region
<1>5. /\ typed = {k \in ks : s.left < k /\ k <= s.right}
      /\ typed \in SUBSET (s.left + 1 .. s.right)
  BY <1>1, <1>2, <1>3 DEF Typed, OfType
<1>6. typed # {} => Max(typed) \in typed
  <2>1. s.left + 1 \in Int
    BY <1>1
  <2> HIDE DEF typed
  <2>2. QED
    BY <1>1, <1>5, <2>1, MaxOf
<1> HIDE DEF typed, ks
<1>7. /\ last \in Int /\ last <= s.right
      /\ last >= s.right \/ last >= s.left
      /\ typed = {} /\ s.left <= s.right => last = s.left
  <2>1. CASE typed = {}
    BY <1>1, <2>1
  <2>2. CASE typed # {}
    <3> DEFINE mx == Max(typed)
    <3>1. mx \in ks /\ s.left < mx /\ mx <= s.right
      BY <1>5, <1>6, <2>2
    <3>2. last = mx
      BY <2>2
    <3> HIDE DEF mx, last
    <3>3. mx \in Int
      BY <1>3, <3>1
    <3>4. QED
      BY <1>1, <2>2, <3>1, <3>2, <3>3
  <2>3. QED
    BY <2>1, <2>2
<1>8. t = IF s.any THEN [s EXCEPT !.pc = "found", !.left = last]
          ELSE [s EXCEPT !.pc = "found", !.right = s.left - 1]
  BY DEF Settled, typed
<1> DEFINE Same(u) == /\ u.stabs = s.stabs /\ u.addr = s.addr
                      /\ u.type = s.type /\ u.lo = s.lo /\ u.hi = s.hi
                      /\ u.lfile = s.lfile /\ u.rfile = s.rfile
                      /\ u.pc = "found"
<1> HIDE DEF last, t
<1>9. /\ t \in StabState /\ Same(t)
      /\ t.left = (IF s.any THEN last ELSE s.left)
      /\ t.right = (IF s.any THEN s.right ELSE s.left - 1)
  <2>1. CASE s.any
    <3>1. t = [s EXCEPT !.pc = "found", !.left = last]
      BY <1>8, <2>1
    <3>2. QED
      BY <1>7, <2>1, <3>1 DEF StabState
  <2>2. CASE ~s.any
    <3>1. t = [s EXCEPT !.pc = "found", !.right = s.left - 1]
      BY <1>8, <2>2
    <3>2. s.left - 1 \in Int
      BY <1>1
    <3>3. QED
      BY <2>2, <3>1, <3>2 DEF StabState
  <2>3. QED
    BY <2>1, <2>2
<1>10. /\ t.lo - 1 <= t.left /\ t.left <= t.right + 1 /\ t.right <= t.hi
       /\ t.type = "SO" => 0 <= t.left
  BY <1>1, <1>2, <1>4, <1>7, <1>9
<1>11. /\ Typed(t) = ks /\ (Adjacent(t) <=> Adjacent(s)) /\ Region(t)
       /\ Ordered(t, ks) <=> Ordered(s, ks)
  BY <1>9, SameRegion DEF ks
<1>12. ks = {} => t.left > t.right
  BY <1>1, <1>2, <1>9
<1> DEFINE below == Below(s, ks, s.addr)
           above == {k \in ks : k > Max(below)}
<1>13. ASSUME ~Adjacent(s), Ordered(s, ks), below # {}
       PROVE  /\ t.left = Max(below)
              /\ t.right = IF above = {} THEN s.hi ELSE Min(above) - 1
  <2>1. /\ \/ s.key = s.addr
           \/ s.key = s.addr + 1 /\ \E j \in ks : s.stabs[j].value = s.addr
        /\ \A j \in ks : j < s.l =>
             /\ s.stabs[j].value < s.key /\ j <= s.left
             /\ s.left \in ks /\ s.stabs[s.left].value < s.key
        /\ \A j \in ks : j > s.r => s.stabs[j].value > s.key
        /\ s.r = s.hi \/ s.r + 1 \in ks
    BY <1>13 DEF Narrowing, Bisected, ks
  <2>2. ASSUME NEW j \in ks
        PROVE  /\ j \in Int /\ (j <= s.r <=> s.stabs[j].value <= s.addr)
               /\ j < s.l <=> j <= s.r
    <3> DEFINE v == s.stabs[j].value
    <3>1. v \in Int /\ j \in Int
      BY <1>3
    <3>2. j < s.l => v < s.key
      BY <2>1
    <3>3. j > s.r => v > s.key
      BY <2>1
    <3>4. s.key = s.addr \/ s.key = s.addr + 1
      BY <2>1
    <3> HIDE DEF v
    <3>5. (j <= s.r <=> v <= s.addr) /\ (j < s.l <=> j <= s.r)
      BY <1>1, <1>2, <3>1, <3>2, <3>3, <3>4
    <3>6. QED
      BY <3>1, <3>5 DEF v
  <2>3. below = {j \in ks : j <= s.r}
    BY <2>2 DEF Below
  <2>4. /\ s.left \in below
        /\ \A j \in below : j <= s.left
    <3>1. PICK j \in ks : j <= s.r
      BY <1>13, <2>3
    <3>2. s.left \in ks /\ s.stabs[s.left].value < s.key
      BY <2>1, <2>2, <3>1
    <3>3. ~(s.left > s.r)
      <4>1. ASSUME s.left > s.r PROVE FALSE
        <5>1. s.stabs[s.left].value > s.key
          BY <2>1, <3>2, <4>1
        <5>2. s.stabs[s.left].value \in Int
          <6>1. s.stabs[s.left].value \in 0 .. StabMod - 2
            BY <1>3, <3>2
          <6>2. QED
            BY <6>1
        <5>3. QED
          BY <1>1, <3>2, <5>1, <5>2
      <4>2. QED
        BY <4>1
    <3>4. QED
      BY <1>1, <2>1, <2>2, <2>3, <3>2, <3>3
  <2>5. below \in SUBSET (s.lo .. s.hi)
    BY <1>3, <2>3
  <2> HIDE DEF below
  <2>6. below \in SUBSET Int
    BY <2>5
  <2>7. Max(below) = s.left
    BY <2>4, <2>6, MaxIs
  <2>8. above = {k \in ks : k > s.r}
    <3>1. above = {k \in ks : k > s.left}
      BY <2>7
    <3>2. \A k \in ks : k > s.left <=> k > s.r
      BY <1>1, <2>2, <2>3, <2>4
    <3> HIDE DEF above
    <3>3. QED
      BY <3>1, <3>2
  <2>9. s.any
    BY <1>1, <1>2, <2>2, <2>3, <2>4
  <2>10. typed = {}
    BY <1>1, <1>2, <1>5, <2>2, <2>3, <2>4
  <2>11. t.left = Max(below) /\ t.right = s.r
    <3>1. s.left <= s.right
      BY <1>2, <2>3, <2>4
    <3>2. QED
      BY <1>2, <1>7, <1>9, <2>7, <2>9, <2>10, <3>1
  <2>12. CASE above = {}
    <3>1. s.r = s.hi
      <4>1. ASSUME s.r + 1 \in ks PROVE FALSE
        BY <1>1, <2>8, <2>12, <4>1
      <4>2. QED
        BY <2>1, <4>1
    <3>2. QED
      BY <2>11, <2>12, <3>1
  <2>13. CASE above # {}
    <3>1. PICK j \in ks : j > s.r
      BY <2>8, <2>13
    <3>2. s.r + 1 \in ks
      BY <1>1, <1>3, <2>1, <3>1
    <3>3. above \in SUBSET (s.lo .. s.hi)
      BY <1>3
    <3>4. s.r + 1 \in above /\ \A k \in above : s.r + 1 <= k
      BY <1>1, <2>2, <2>8, <3>2
    <3>5. above \in SUBSET Int
      BY <3>3
    <3> HIDE DEF above
    <3>6. Min(above) = s.r + 1
      BY <3>4, <3>5, MinIs
    <3>7. QED
      BY <1>1, <2>11, <2>13, <3>6
  <2>14. QED
    BY <2>11, <2>12, <2>13
<1>14. ~Adjacent(t) => RegionRight(t)
  <2>1. Below(t, ks, t.addr) = below
    BY <1>9 DEF Below
  <2>2. t.hi = s.hi
    BY <1>9
  <2> HIDE DEF below, Same
  <2>3. ~Adjacent(t) =>
          LET b == Below(t, ks, t.addr)
              a == {k \in ks : k > Max(b)}
          IN  /\ ks = {} => t.left > t.right
              /\ Ordered(t, ks) /\ b # {} =>
                   /\ t.left = Max(b)
                   /\ t.right = IF a = {} THEN t.hi ELSE Min(a) - 1
    BY <1>11, <1>12, <1>13, <2>1, <2>2
  <2>4. OfType(t, t.lo, t.hi, t.type) = ks
    BY <1>11 DEF Typed
  <2>5. QED
    BY <2>3, <2>4, Zenon DEF RegionRight
<1>15. FoundIn(t)
  BY <1>10, <1>14 DEF FoundIn
<1>16. QED
  BY <1>9, <1>11, <1>15 DEF StabOK, t

(* A search starts: nothing is known yet. *)
LEMMA SearchOK ==
  ASSUME NEW s, s \in StabState, NEW lo \in Int, NEW hi \in Int,
         NEW type \in {"SO", "FUN", "SLINE"},
         0 <= lo, lo <= hi + 1, hi < Cardinality(DOMAIN s.stabs),
         type = "SO" => /\ lo = 0 /\ 0 <= hi
                        /\ s.stabs[0].type = "SO" => s.stabs[0].value <= s.addr,
         type = "FUN" => 1 <= s.lfile /\ s.lfile = lo /\ s.rfile = hi
  PROVE  StabOK(Search(s, lo, hi, type))
<1> DEFINE t == Search(s, lo, hi, type)
<1>1. /\ t \in StabState /\ t.pc = "search" /\ t.stabs = s.stabs
      /\ t.type = type /\ t.lo = lo /\ t.hi = hi /\ t.addr = s.addr
      /\ t.key = s.addr /\ t.l = lo /\ t.r = hi /\ t.left = lo
      /\ t.right = hi /\ t.any = FALSE
      /\ t.lfile = s.lfile /\ t.rfile = s.rfile
  BY DEF Search, StabState
<1> HIDE DEF t
<1>2. Region(t)
  BY <1>1 DEF Region
<1>3. Typed(t) \in SUBSET (lo .. hi)
  BY <1>1, <1>2, TypedFacts
<1>4. s.addr \in Int
  BY DEF StabState
<1>5. Bisected(t)
  BY <1>1, <1>3 DEF Bisected
<1>6. Narrowing(t)
  BY <1>1, <1>3, <1>4, <1>5 DEF Narrowing
<1>7. QED
  BY <1>1, <1>2, <1>6 DEF StabOK, t

(* Every step of the search keeps the invariant. *)
LEMMA StabStep == StabInv /\ [StabNext]_routineVars => StabInv'
<1> SUFFICES ASSUME StabInv, [StabNext]_routineVars PROVE StabInv'
  OBVIOUS
<1>1. CASE UNCHANGED routineVars
  BY <1>1 DEF routineVars, StabInv
<1>2. ASSUME st.pc # "done"
      PROVE  /\ StabOK(st) /\ st \in StabState /\ Region(st)
             /\ st.addr \in 0 .. StabMod - 1
             /\ st.lo \in Int /\ st.hi \in Int /\ st.left \in Int
             /\ st.right \in Int /\ st.lfile \in Int /\ st.rfile \in Int
  BY <1>2 DEF StabInv, StabOK, StabState
<1>3. job = "debuginfo_eip"
  BY DEF StabInv
<1>4. ASSUME NEW s, s \in StabState PROVE Fail(s).pc = "done"
  BY <1>4 DEF Fail, StabState
<1>5. CASE EipStart
  <2>1. st.pc = "start" /\ job' = job
        /\ st' = IF st.ok THEN Search(st, st.lo, st.hi, "SO") ELSE Fail(st)
    BY <1>5 DEF EipStart, At, Becomes
  <2>2. StabOK(st) /\ st \in StabState /\ Region(st)
    BY <1>2, <2>1
  <2>3. CASE st.ok
    <3>1. /\ 0 <= st.lo /\ st.lo <= st.hi + 1
          /\ st.hi < Cardinality(DOMAIN st.stabs) /\ st.lo = 0 /\ 0 <= st.hi
          /\ st.stabs[0].type = "SO" => st.stabs[0].value <= st.addr
      BY <2>1, <2>2 DEF StabOK, Region
    <3>2. StabOK(Search(st, st.lo, st.hi, "SO"))
      BY <1>2, <2>1, <2>2, <3>1, SearchOK
    <3>3. QED
      BY <1>3, <2>1, <2>3, <3>2 DEF StabInv
  <2>4. CASE ~st.ok
    BY <1>3, <1>4, <2>1, <2>2, <2>4 DEF StabInv
  <2>5. QED
    BY <2>3, <2>4
<1>6. CASE StabTurn
  <2>1. st.pc = "search" /\ job' = job /\ st' = Turn(st) /\ st.l <= st.r
    BY <1>6 DEF StabTurn, At, Becomes
  <2>2. StabOK(Turn(st))
    BY <1>2, <2>1, TurnOK DEF StabOK
  <2>3. QED
    BY <1>3, <2>1, <2>2 DEF StabInv
<1>7. CASE StabSettle
  <2>1. st.pc = "search" /\ job' = job /\ st' = Settled(st) /\ st.l > st.r
    BY <1>7 DEF StabSettle, At, Becomes
  <2>2. StabOK(Settled(st))
    BY <1>2, <2>1, SettledOK DEF StabOK
  <2>3. QED
    BY <1>3, <2>1, <2>2 DEF StabInv
<1>8. CASE FileFound
  <2> DEFINE s == [st EXCEPT !.lfile = st.left, !.rfile = st.right]
  <2>1. st.pc = "found" /\ st.type = "SO" /\ job' = job
        /\ st' = IF st.left = 0 THEN Fail(s)
                 ELSE Search(s, st.left, st.right, "FUN")
    BY <1>8 DEF FileFound, At, Becomes
  <2>2. /\ st.left <= st.right + 1 /\ st.right <= st.hi /\ 0 <= st.left
        /\ st.hi < Cardinality(DOMAIN st.stabs)
    BY <1>2, <2>1 DEF StabOK, FoundIn, Region
  <2>3. /\ s \in StabState /\ s.lfile = st.left /\ s.rfile = st.right
        /\ s.stabs = st.stabs
    BY <1>2, <2>1 DEF StabState
  <2> DEFINE n == Cardinality(DOMAIN st.stabs)
  <2>4. n \in Nat
    BY <1>2, <2>1, StabAssumption, FS_CardinalityType DEF StabState
  <2> HIDE DEF s
  <2>5. CASE st.left = 0
    BY <1>3, <1>4, <2>1, <2>3, <2>5 DEF StabInv
  <2>6. CASE st.left # 0
    <3>1. 0 <= st.left /\ 1 <= s.lfile /\ s.lfile = st.left
          /\ s.rfile = st.right
      BY <1>2, <2>1, <2>2, <2>3, <2>6
    <3>2. st.right < Cardinality(DOMAIN s.stabs)
      <4>1. st.right < n
        <5> HIDE DEF n
        <5>1. st.hi < n
          BY <2>2 DEF n
        <5>2. QED
          BY <1>2, <2>1, <2>2, <2>4, <5>1
      <4>2. QED
        BY <2>3, <4>1
    <3>3. StabOK(Search(s, st.left, st.right, "FUN"))
      BY <1>2, <2>1, <2>2, <2>3, <3>1, <3>2, SearchOK
    <3>4. QED
      BY <1>3, <2>1, <2>6, <3>3 DEF StabInv
  <2>7. QED
    BY <2>5, <2>6
<1>9. CASE FunFound
  <2> DEFINE s == [st EXCEPT !.lfun = st.left, !.rfun = st.right]
             f == st.left
             offset == (st.addr - st.stabs[f].value) % StabMod
             u == [s EXCEPT !.fn = f, !.addr = offset]
             n == Cardinality(DOMAIN st.stabs)
  <2>1. st.pc = "found" /\ st.type = "FUN" /\ job' = job
        /\ st' = IF st.left <= st.right
                 THEN Search(u, st.left, st.right, "SLINE")
                 ELSE Search(s, st.lfile, st.rfile, "SLINE")
    BY <1>9 DEF FunFound, At, Becomes
  <2>2. /\ st.lo - 1 <= st.left /\ st.right <= st.hi
        /\ st.hi < n /\ st.lo <= st.hi + 1
        /\ 1 <= st.lfile /\ st.lfile = st.lo /\ st.rfile = st.hi
    BY <1>2, <2>1 DEF StabOK, FoundIn, Region
  <2>3. n \in Nat /\ DOMAIN st.stabs = 0 .. n - 1
    BY <1>2, <2>1, StabAssumption, FS_CardinalityType DEF StabState
  <2>4. s \in StabState /\ s.stabs = st.stabs
    BY <1>2, <2>1 DEF StabState
  <2>5. CASE st.left <= st.right
    <3> HIDE DEF n
    <3>1. 0 <= st.left /\ st.right < n /\ f \in DOMAIN st.stabs
          /\ st.left <= st.right + 1
      BY <1>2, <2>1, <2>2, <2>3, <2>5
    <3>2. st.stabs[f].value \in 0 .. StabMod - 1
      BY <1>2, <2>1, <3>1, StabAssumption DEF StabState
    <3>3. offset \in 0 .. StabMod - 1
      <4> DEFINE v == st.stabs[f].value
                 a == st.addr
      <4> HIDE DEF v, a
      <4>1. v \in 0 .. StabMod - 1 /\ a \in 0 .. StabMod - 1
            /\ StabMod \in Nat \ {0}
        BY <1>2, <2>1, <3>2, StabAssumption DEF v, a
      <4>2. (a - v) % StabMod \in 0 .. StabMod - 1
        BY <4>1
      <4>3. QED
        BY <4>2 DEF v, a
    <3> HIDE DEF s, offset
    <3>4. u \in StabState /\ u.stabs = st.stabs
      BY <1>2, <2>1, <2>4, <3>3 DEF StabState
    <3> HIDE DEF u, f
    <3>5. st.right < Cardinality(DOMAIN u.stabs)
      BY <3>1, <3>4 DEF n
    <3>6. StabOK(Search(u, st.left, st.right, "SLINE"))
      BY <1>2, <2>1, <3>1, <3>4, <3>5, SearchOK
    <3>7. QED
      BY <1>3, <2>1, <2>5, <3>6 DEF StabInv
  <2>6. CASE ~(st.left <= st.right)
    <3> HIDE DEF s, u
    <3>1. 0 <= st.lfile
      BY <1>2, <2>1, <2>2
    <3>2. StabOK(Search(s, st.lfile, st.rfile, "SLINE"))
      BY <1>2, <2>1, <2>2, <2>4, <3>1, SearchOK
    <3>3. QED
      BY <1>3, <2>1, <2>6, <3>2 DEF StabInv
  <2>7. QED
    BY <2>5, <2>6
<1>10. CASE LineFound
  <2>1. st.pc = "found" /\ job' = job
    BY <1>10 DEF LineFound, At, Becomes
  <2>2. st'.pc = "done"
    <3>1. st \in StabState
      BY <1>2, <2>1
    <3>2. CASE st.left > st.right
      BY <1>4, <1>10, <3>1, <3>2 DEF LineFound, Becomes
    <3>3. CASE ~(st.left > st.right)
      BY <1>10, <3>1, <3>3 DEF LineFound, Becomes, StabState
    <3>4. QED
      BY <3>2, <3>3
  <2>3. QED
    BY <1>3, <2>1, <2>2 DEF StabInv
<1>11. QED
  BY <1>1, <1>5, <1>6, <1>7, <1>8, <1>9, <1>10 DEF StabNext

(* Every search starts and stays inside the table of stabs. *)
SearchInTable ==
  At("debuginfo_eip", "search") =>
    0 <= st.l /\ st.r < Cardinality(DOMAIN st.stabs)

(* stab_binsearch of kern/kdebug.c, as debuginfo_eip calls it three times: *)
(* on every table and for every address it reads stabs of the table only,  *)
(* and ends with the last stab of the type at or below the address and the *)
(* end of its region, where the stabs of the type are in order and no two  *)
(* of them, one at the address, are one byte apart.                        *)
THEOREM StabSearchCorrect == StabSpec => [](StabFound /\ SearchInTable)
<1>1. StabInit => StabInv
  <2> SUFFICES ASSUME StabInit PROVE StabInv
    OBVIOUS
  <2>1. PICK t \in StabTable, a \in StabAddr, ok \in BOOLEAN :
          /\ t[0].type = "SO" => t[0].value <= a
          /\ st = [pc |-> "start", stabs |-> t, eip |-> a, addr |-> a,
                   ok |-> ok, type |-> "SO", lo |-> 0,
                   hi |-> Cardinality(DOMAIN t) - 1, key |-> a, l |-> 0,
                   r |-> 0, left |-> 0, right |-> 0, any |-> FALSE,
                   lfile |-> 0, rfile |-> 0, lfun |-> 0, rfun |-> 0,
                   fn |-> -1, line |-> 0, file |-> -1, narg |-> 0, ret |-> 0]
    BY DEF StabInit
  <2> DEFINE n == Cardinality(DOMAIN t)
  <2>2. n \in Nat /\ n > 0 /\ a \in 0 .. StabMod - 1
    <3>1. n \in Nat /\ DOMAIN t = 0 .. n - 1 /\ DOMAIN t # {}
      BY StabAssumption, FS_CardinalityType
    <3> HIDE DEF n
    <3>2. n > 0
      BY <3>1
    <3>3. QED
      BY <3>1, <3>2, StabAssumption
  <2> HIDE DEF n
  <2>3. /\ st.pc = "start" /\ st.stabs = t /\ st.lo = 0 /\ st.hi = n - 1
        /\ st.type = "SO" /\ st.addr = a
    BY <2>1 DEF n
  <2>4. st \in StabState
    <3> DEFINE h == n - 1
    <3>1. h \in Int /\ -1 \in Int
      BY <2>2
    <3>2. st = [pc |-> "start", stabs |-> t, eip |-> a, addr |-> a,
                ok |-> ok, type |-> "SO", lo |-> 0, hi |-> h, key |-> a,
                l |-> 0, r |-> 0, left |-> 0, right |-> 0, any |-> FALSE,
                lfile |-> 0, rfile |-> 0, lfun |-> 0, rfun |-> 0,
                fn |-> -1, line |-> 0, file |-> -1, narg |-> 0, ret |-> 0]
      BY <2>1 DEF n
    <3> HIDE DEF h
    <3>3. QED
      BY <2>2, <3>1, <3>2 DEF StabState
  <2>5. Region(st)
    <3>1. st.hi < Cardinality(DOMAIN st.stabs) /\ 0 <= st.hi /\ st.hi \in Int
      BY <2>2, <2>3 DEF n
    <3>2. QED
      BY <2>1, <2>3, <3>1 DEF Region
  <2>6. job = "debuginfo_eip"
    BY DEF StabInit
  <2>7. QED
    BY <2>3, <2>4, <2>5, <2>6 DEF StabInv, StabOK
<1>2. StabInv /\ [StabNext]_routineVars => StabInv'
  BY StabStep
<1>3. StabInv => StabFound /\ SearchInTable
  <2> SUFFICES ASSUME StabInv PROVE StabFound /\ SearchInTable
    OBVIOUS
  <2>1. StabFound
    BY DEF StabInv, StabFound, At, StabOK, FoundIn
  <2>2. ASSUME st.pc = "search"
        PROVE  0 <= st.l /\ st.r < Cardinality(DOMAIN st.stabs)
    <3> DEFINE n == Cardinality(DOMAIN st.stabs)
    <3>1. StabOK(st)
      BY <2>2 DEF StabInv
    <3>2. n \in Nat
      BY <3>1, StabAssumption, FS_CardinalityType DEF StabOK, StabState
    <3>3. /\ st.l \in Int /\ st.r \in Int /\ st.lo \in Int /\ st.hi \in Int
          /\ 0 <= st.lo /\ st.lo <= st.l /\ st.r <= st.hi /\ st.hi < n
      BY <2>2, <3>1 DEF StabOK, StabState, Region, Narrowing
    <3> HIDE DEF n
    <3>4. 0 <= st.l /\ st.r < n
      BY <3>2, <3>3
    <3>5. QED
      BY <3>4 DEF n
  <2>3. QED
    BY <2>1, <2>2 DEF SearchInTable, At
<1>4. QED
  BY <1>1, <1>2, <1>3, PTL DEF StabSpec

------------------------------------------------------------------------------
(* A set of positions has a least element. *)
LEMMA MinOf ==
  ASSUME NEW S \in SUBSET Nat, S # {}
  PROVE  Min(S) \in S /\ \A k \in S : Min(S) <= k
<1>1. PICK m \in S : \A k \in S : m <= k
  BY LeastElement
<1>2. S \in SUBSET Int /\ m \in S
  OBVIOUS
<1>3. Min(S) = m
  BY <1>1, <1>2, MinIs
<1>4. QED
  BY <1>1, <1>3

(* runcmd of kern/monitor.c.  s lists the n numbers in S in order. *)
Orders(s, n, S) ==
  /\ n \in Nat /\ s \in [1 .. n -> S]
  /\ \A x \in S : \E k \in 1 .. n : s[k] = x
  /\ \A j, k \in 1 .. n : j < k => s[j] < s[k]

(* That is what InOrder says. *)
LEMMA OrdersIs ==
  ASSUME NEW S, NEW n \in Nat, NEW s \in [1 .. n -> S]
  PROVE  InOrder(s, S) <=> Orders(s, n, S)
<1>1. DOMAIN s = 1 .. n /\ \A k \in 1 .. n : s[k] \in S
  OBVIOUS
<1>2. {s[k] : k \in 1 .. n} = S <=> \A x \in S : \E k \in 1 .. n : s[k] = x
  BY <1>1
<1>3. QED
  BY <1>1, <1>2 DEF InOrder, Orders

(* One number more, greater than the others. *)
LEMMA OneMore ==
  ASSUME NEW S \in SUBSET Nat, NEW s, NEW n, Orders(s, n, S),
         NEW x \in Nat, \A k \in S : k < x
  PROVE  Orders([k \in 1 .. n + 1 |-> IF k = n + 1 THEN x ELSE s[k]], n + 1,
                S \cup {x})
<1> DEFINE t == [k \in 1 .. n + 1 |-> IF k = n + 1 THEN x ELSE s[k]]
<1>1. /\ n \in Nat /\ \A k \in 1 .. n : s[k] \in S /\ s[k] \in Nat
      /\ \A y \in S : \E k \in 1 .. n : s[k] = y
      /\ \A j, k \in 1 .. n : j < k => s[j] < s[k]
  BY DEF Orders
<1>2. /\ n + 1 \in Nat /\ n + 1 \in 1 .. n + 1
      /\ \A k \in 1 .. n + 1 : k # n + 1 => k \in 1 .. n
      /\ \A k \in 1 .. n : k \in 1 .. n + 1 /\ k # n + 1
  BY <1>1
<1>3. t \in [1 .. n + 1 -> S \cup {x}] /\ DOMAIN t = 1 .. n + 1
  BY <1>1, <1>2
<1>4. t[n + 1] = x /\ \A k \in 1 .. n : t[k] = s[k]
  BY <1>2
<1> HIDE DEF t
<1>5. \A y \in S \cup {x} : \E k \in 1 .. n + 1 : t[k] = y
  <2>1. ASSUME NEW y \in S \cup {x} PROVE \E k \in 1 .. n + 1 : t[k] = y
    BY <1>1, <1>2, <1>4
  <2>2. QED
    BY <2>1
<1>6. ASSUME NEW j \in 1 .. n + 1, NEW k \in 1 .. n + 1, j < k
      PROVE  t[j] < t[k]
  <2>1. j \in 1 .. n
    BY <1>1, <1>6
  <2>2. CASE k = n + 1
    BY <1>1, <1>4, <2>1, <2>2
  <2>3. CASE k # n + 1
    BY <1>1, <1>2, <1>4, <1>6, <2>1, <2>3
  <2>4. QED
    BY <2>2, <2>3
<1>7. Orders(t, n + 1, S \cup {x})
  BY <1>2, <1>3, <1>5, <1>6 DEF Orders
<1>8. QED
  BY <1>7 DEF t

(* Every set of positions up to m can be put in order. *)
LEMMA OrderExists ==
  ASSUME NEW m \in Nat, NEW S \in SUBSET (1 .. m)
  PROVE  \E n \in 0 .. m : \E s : Orders(s, n, S)
<1> DEFINE Upto(k) == {x \in S : x <= k}
           T == {k \in 0 .. m : \E n \in 0 .. k : \E s : Orders(s, n, Upto(k))}
<1>0. \A x \in S : x \in Nat /\ 1 <= x /\ x <= m
  OBVIOUS
<1>1. 0 \in T
  <2>1. Upto(0) = {} /\ 0 \in 0 .. m /\ 0 \in 0 .. 0
    <3>1. \A x \in S : ~(x <= 0)
      BY <1>0
    <3>2. Upto(0) = {}
      BY <3>1
    <3>3. 0 \in 0 .. m /\ 0 \in 0 .. 0
      OBVIOUS
    <3>4. QED
      BY <3>2, <3>3
  <2> DEFINE none == [k \in 1 .. 0 |-> 0]
  <2>2. none \in [1 .. 0 -> {}]
    OBVIOUS
  <2>3. Orders(none, 0, {})
    BY <2>2 DEF Orders
  <2> HIDE DEF none, Upto
  <2>4. QED
    BY <2>1, <2>3
<1>2. ASSUME NEW k \in 0 .. m - 1, k \in T PROVE k + 1 \in T
  <2>1. PICK n \in 0 .. k : \E s : Orders(s, n, Upto(k))
    BY <1>2
  <2>2. PICK s : Orders(s, n, Upto(k))
    BY <2>1
  <2>3. /\ k + 1 \in 0 .. m /\ k + 1 \in Nat /\ n \in 0 .. k + 1
        /\ n + 1 \in 0 .. k + 1 /\ Upto(k) \in SUBSET Nat
    <3>1. /\ k + 1 \in 0 .. m /\ k + 1 \in Nat /\ n \in 0 .. k + 1
          /\ n + 1 \in 0 .. k + 1
      OBVIOUS
    <3>2. Upto(k) \in SUBSET Nat
      BY <1>0
    <3>3. QED
      BY <3>1, <3>2
  <2>4. CASE k + 1 \in S
    <3>1. Upto(k + 1) = Upto(k) \cup {k + 1} /\ \A x \in Upto(k) : x < k + 1
      <4>1. \A x \in S : x <= k + 1 <=> (x <= k \/ x = k + 1)
        BY <1>0, <2>3
      <4>2. Upto(k + 1) = Upto(k) \cup {k + 1}
        BY <2>4, <4>1
      <4>3. \A x \in Upto(k) : x < k + 1
        BY <1>0, <2>3
      <4>4. QED
        BY <4>2, <4>3
    <3> HIDE DEF Upto
    <3>2. \E t : Orders(t, n + 1, Upto(k) \cup {k + 1})
      BY <2>2, <2>3, <3>1, OneMore
    <3>3. QED
      BY <2>3, <3>1, <3>2
  <2>5. CASE k + 1 \notin S
    <3>1. Upto(k + 1) = Upto(k)
      <4>1. \A x \in S : x <= k + 1 <=> x <= k
        BY <1>0, <2>3, <2>5
      <4>2. QED
        BY <4>1
    <3> HIDE DEF Upto
    <3>2. QED
      BY <2>2, <2>3, <3>1
  <2>6. QED
    BY <2>4, <2>5
<1>3. m \in T
  <2>1. m \in 0 .. m
    OBVIOUS
  <2> HIDE DEF T
  <2>2. QED
    BY <1>1, <1>2, <2>1, UpTo
<1>4. Upto(m) = S
  BY <1>0
<1> HIDE DEF Upto
<1>5. QED
  BY <1>3, <1>4

(* The numbers in S below p. *)
Before(S, p) == {k \in S : k < p}

(* They come first in the order. *)
LEMMA OrderPrefix ==
  ASSUME NEW S \in SUBSET Nat, NEW p \in Nat, NEW s, NEW n, Orders(s, n, S),
         NEW a, NEW l, Orders(a, l, Before(S, p))
  PROVE  /\ l <= n /\ \A k \in 1 .. l : a[k] = s[k]
         /\ (\E q \in S : p <= q) => l < n
         /\ (\A q \in S : q < p) => l = n
<1> DEFINE A == Before(S, p)
           T == {k \in 0 .. l : k <= n /\ \A j \in 1 .. k : a[j] = s[j]}
<1>1. A \in SUBSET Nat /\ A \subseteq S
  BY DEF Before
<1>2. /\ n \in Nat /\ \A k \in 1 .. n : s[k] \in S /\ s[k] \in Nat
      /\ \A x \in S : \E k \in 1 .. n : s[k] = x
      /\ \A j, k \in 1 .. n : j < k => s[j] < s[k]
  BY DEF Orders
<1>3. /\ l \in Nat /\ \A k \in 1 .. l : a[k] \in A /\ a[k] \in Nat
      /\ \A x \in A : \E k \in 1 .. l : a[k] = x
      /\ \A j, k \in 1 .. l : j < k => a[j] < a[k]
  <2>1. Orders(a, l, A)
    OBVIOUS
  <2> HIDE DEF A
  <2>2. QED
    BY <1>1, <2>1 DEF Orders
<1>4. \A x \in S : x \in A <=> x < p
  BY DEF Before
<1>5. \A x \in A : x < p
  BY DEF Before
<1> HIDE DEF A
<1>6. 0 \in T
  BY <1>2, <1>3
<1>7. ASSUME NEW k \in 0 .. l - 1, k \in T PROVE k + 1 \in T
  <2>1. k <= n /\ \A j \in 1 .. k : a[j] = s[j]
    BY <1>7
  <2>2. k + 1 \in 1 .. l /\ k \in Nat /\ k + 1 \in 0 .. l
    BY <1>3
  <2>3. a[k + 1] \in A /\ a[k + 1] \in S /\ a[k + 1] \in Nat
    BY <1>1, <1>3, <2>2
  <2>4. PICK i \in 1 .. n : s[i] = a[k + 1]
    BY <1>2, <2>3
  <2>5. ~(i <= k)
    <3>1. ASSUME i <= k PROVE FALSE
      <4>1. i \in 1 .. k /\ i \in 1 .. l /\ i < k + 1
        BY <1>3, <2>2, <3>1
      <4>2. a[i] < a[k + 1] /\ a[i] \in Nat
        BY <1>3, <2>2, <4>1
      <4>3. a[i] = a[k + 1]
        BY <2>1, <2>4, <4>1
      <4>4. QED
        BY <4>2, <4>3
    <3>2. QED
      BY <3>1
  <2>6. k + 1 <= i /\ k + 1 <= n /\ k + 1 \in 1 .. n
    BY <1>2, <2>2, <2>5
  <2>7. s[k + 1] <= a[k + 1] /\ s[k + 1] \in S /\ s[k + 1] \in Nat
    <3>1. s[k + 1] \in S /\ s[k + 1] \in Nat /\ s[i] \in Nat
      BY <1>2, <2>6
    <3>2. k + 1 = i \/ k + 1 < i
      BY <2>2, <2>6
    <3>3. s[k + 1] = s[i] \/ s[k + 1] < s[i]
      BY <1>2, <2>6, <3>2
    <3>4. QED
      BY <2>4, <3>1, <3>3
  <2>8. s[k + 1] \in A
    <3>1. a[k + 1] < p
      BY <1>5, <2>3
    <3>2. s[k + 1] < p
      BY <2>3, <2>7, <3>1
    <3>3. QED
      BY <1>4, <2>7, <3>2
  <2>9. PICK j \in 1 .. l : a[j] = s[k + 1]
    BY <1>3, <2>8
  <2>10. ~(j <= k)
    <3>1. ASSUME j <= k PROVE FALSE
      <4>1. j \in 1 .. k /\ j \in 1 .. n /\ j < k + 1
        BY <1>2, <2>1, <2>2, <3>1
      <4>2. s[j] < s[k + 1] /\ s[j] \in Nat
        BY <1>2, <2>6, <4>1
      <4>3. s[j] = s[k + 1]
        BY <2>1, <2>9, <4>1
      <4>4. QED
        BY <4>2, <4>3
    <3>2. QED
      BY <3>1
  <2>11. a[k + 1] <= a[j]
    <3>1. k + 1 = j \/ k + 1 < j
      BY <1>3, <2>2, <2>10
    <3>2. a[k + 1] = a[j] \/ a[k + 1] < a[j]
      BY <1>3, <2>2, <3>1
    <3>3. QED
      BY <1>3, <2>2, <3>2
  <2>12. a[k + 1] = s[k + 1]
    BY <2>3, <2>7, <2>9, <2>11
  <2>13. \A x \in 1 .. k + 1 : a[x] = s[x]
    <3>1. \A x \in 1 .. k + 1 : x = k + 1 \/ x \in 1 .. k
      BY <2>2
    <3>2. QED
      BY <2>1, <2>12, <3>1
  <2>14. QED
    BY <2>2, <2>6, <2>13
<1>8. l \in T
  <2>1. l \in 0 .. l
    BY <1>3
  <2> HIDE DEF T
  <2>2. QED
    BY <1>3, <1>6, <1>7, <2>1, UpTo
<1>9. l <= n /\ \A k \in 1 .. l : a[k] = s[k]
  BY <1>8
<1>10. ASSUME NEW q \in S, p <= q PROVE l < n
  <2>1. PICK i \in 1 .. n : s[i] = q
    BY <1>2
  <2>2. ~(i <= l)
    <3>1. ASSUME i <= l PROVE FALSE
      <4>1. i \in 1 .. l
        BY <1>3, <3>1
      <4>2. a[i] = q /\ a[i] < p /\ a[i] \in Nat
        BY <1>3, <1>5, <1>9, <2>1, <4>1
      <4>3. QED
        BY <1>10, <4>2
    <3>2. QED
      BY <3>1
  <2>3. QED
    BY <1>2, <1>3, <2>2
<1>11. ASSUME \A q \in S : q < p, l # n PROVE FALSE
  <2>1. l + 1 \in 1 .. n
    BY <1>2, <1>3, <1>9, <1>11
  <2>2. s[l + 1] \in A
    BY <1>2, <1>4, <1>11, <2>1
  <2>3. PICK i \in 1 .. l : a[i] = s[l + 1]
    BY <1>3, <2>2
  <2>4. i \in 1 .. n /\ i < l + 1
    BY <1>2, <1>3, <2>1
  <2>5. s[i] < s[l + 1] /\ s[i] = s[l + 1] /\ s[i] \in Nat
    BY <1>2, <1>9, <2>1, <2>3, <2>4
  <2>6. QED
    BY <2>5
<1>12. QED
  BY <1>9, <1>10, <1>11

------------------------------------------------------------------------------
(* The line with the whitespace before position p cleared, and its end. *)
Cleared(line, p) ==
  [k \in 1 .. Len(line) + 1 |->
     IF k = Len(line) + 1 \/ (k < p /\ line[k] \in WHITESPACE)
     THEN "nul" ELSE line[k]]

(* The terminator is in no line, and is no whitespace. *)
LEMMA LineFacts ==
  ASSUME NEW line \in CmdLine
  PROVE  /\ Len(line) \in Nat /\ DOMAIN line = 1 .. Len(line)
         /\ \A k \in 1 .. Len(line) : line[k] # "nul"
         /\ "nul" \notin WHITESPACE
<1> DEFINE C == {line[k] : k \in DOMAIN line} \ {"nul"}
<1>1. line \in Seq(C)
  BY MonitorAssumption
<1>2. "nul" \notin C
  OBVIOUS
<1> HIDE DEF C
<1>3. /\ Len(line) \in Nat /\ DOMAIN line = 1 .. Len(line)
      /\ \A k \in 1 .. Len(line) : line[k] \in C
  BY <1>1
<1>4. "nul" \notin WHITESPACE
  BY DEF WHITESPACE
<1>5. QED
  BY <1>2, <1>3, <1>4

(* Its characters. *)
LEMMA ClearedFacts ==
  ASSUME NEW line \in CmdLine, NEW p
  PROVE  LET b == Cleared(line, p)
             L == Len(line)
         IN  /\ DOMAIN b = 1 .. L + 1 /\ Len(b) = L + 1 /\ b[L + 1] = "nul"
             /\ \A k \in 1 .. L : /\ k < p /\ line[k] \in WHITESPACE
                                      => b[k] = "nul"
                                  /\ ~(k < p /\ line[k] \in WHITESPACE)
                                      => b[k] = line[k]
<1> DEFINE b == Cleared(line, p)
           L == Len(line)
           c(k) == IF k = L + 1 \/ (k < p /\ line[k] \in WHITESPACE)
                   THEN "nul" ELSE line[k]
           C == {c(k) : k \in 1 .. L + 1}
<1>1. L \in Nat
  BY LineFacts
<1>2. b = [k \in 1 .. L + 1 |-> c(k)]
  BY DEF Cleared
<1>3. /\ L + 1 \in 1 .. L + 1 /\ L + 1 \in Nat
      /\ \A k \in 1 .. L : k \in 1 .. L + 1 /\ k # L + 1
  BY <1>1
<1> HIDE DEF b, L
<1>4. b \in [1 .. L + 1 -> C]
  BY <1>2
<1>5. b \in Seq(C)
  BY <1>3, <1>4, SeqDef
<1>6. DOMAIN b = 1 .. L + 1
  BY <1>2
<1>7. Len(b) = L + 1
  <2>1. Len(b) \in Nat /\ DOMAIN b = 1 .. Len(b)
    BY <1>5
  <2>2. QED
    BY <1>3, <1>6, <2>1
<1>8. b[L + 1] = "nul"
  BY <1>2, <1>3
<1>9. ASSUME NEW k \in 1 .. L
      PROVE  /\ k < p /\ line[k] \in WHITESPACE => b[k] = "nul"
             /\ ~(k < p /\ line[k] \in WHITESPACE) => b[k] = line[k]
  BY <1>2, <1>3
<1>10. QED
  BY <1>6, <1>7, <1>8, <1>9 DEF b, L

(* Whitespace is stepped over. *)
LEMMA SpaceSkipped ==
  ASSUME NEW line \in CmdLine, NEW p \in 1 .. Len(line) + 1
  PROVE  LET q == SkipSpace(Cleared(line, p), p)
         IN  /\ q \in p .. Len(line) + 1
             /\ \A k \in p .. q - 1 : line[k] \in WHITESPACE
             /\ q # Len(line) + 1 => line[q] \notin WHITESPACE
<1> DEFINE b == Cleared(line, p)
           L == Len(line)
           S == {k \in p .. Len(b) : b[k] \notin WHITESPACE}
           q == Min(S)
<1>1. L \in Nat /\ "nul" \notin WHITESPACE
  BY LineFacts
<1>2. /\ Len(b) = L + 1 /\ b[L + 1] = "nul"
      /\ \A k \in 1 .. L : ~(k < p /\ line[k] \in WHITESPACE)
                             => b[k] = line[k]
  BY ClearedFacts
<1>3. p \in Nat /\ p <= L + 1 /\ 1 <= p
  BY <1>1
<1>4. SkipSpace(b, p) = q
  BY DEF SkipSpace
<1> HIDE DEF b, L
<1>5. \A k \in p .. L : b[k] = line[k]
  <2>1. SUFFICES ASSUME NEW k \in p .. L PROVE b[k] = line[k]
    OBVIOUS
  <2>2. k \in 1 .. L /\ ~(k < p)
    BY <1>1, <1>3
  <2>3. QED
    BY <1>2, <2>2
<1>6. S \in SUBSET Nat /\ L + 1 \in S
  BY <1>1, <1>2, <1>3
<1>7. q \in S /\ \A k \in S : q <= k
  <2> HIDE DEF S
  <2>1. S # {}
    BY <1>6
  <2>2. QED
    BY <1>6, <2>1, MinOf
<1> HIDE DEF q
<1>8. q \in p .. L + 1 /\ b[q] \notin WHITESPACE
  BY <1>2, <1>7
<1>9. ASSUME NEW k \in p .. q - 1 PROVE line[k] \in WHITESPACE
  <2>1. k \in p .. L /\ k \in p .. L + 1 /\ k < q /\ k \in Nat /\ q \in Nat
    BY <1>1, <1>3, <1>8
  <2>2. k \notin S
    BY <1>7, <2>1
  <2>3. b[k] \in WHITESPACE
    BY <1>2, <2>1, <2>2
  <2>4. QED
    BY <1>5, <2>1, <2>3
<1>10. ASSUME q # L + 1 PROVE line[q] \notin WHITESPACE
  <2>1. q \in p .. L
    BY <1>1, <1>3, <1>8, <1>10
  <2>2. QED
    BY <1>5, <1>8, <2>1
<1>11. QED
  BY <1>4, <1>8, <1>9, <1>10 DEF b, L

(* ... and cleared. *)
LEMMA SpaceCleared ==
  ASSUME NEW line \in CmdLine, NEW p \in 1 .. Len(line) + 1,
         NEW q \in p .. Len(line) + 1,
         \A k \in p .. q - 1 : line[k] \in WHITESPACE
  PROVE  Gobble(Cleared(line, p), p, q) = Cleared(line, q)
<1> DEFINE b == Cleared(line, p)
           c == Cleared(line, q)
           g == Gobble(b, p, q)
           L == Len(line)
<1>1. L \in Nat
  BY LineFacts
<1>2. /\ DOMAIN b = 1 .. L + 1 /\ b[L + 1] = "nul"
      /\ \A k \in 1 .. L : /\ k < p /\ line[k] \in WHITESPACE
                                => b[k] = "nul"
                           /\ ~(k < p /\ line[k] \in WHITESPACE)
                                => b[k] = line[k]
  BY ClearedFacts
<1>3. c = [k \in 1 .. L + 1 |->
             IF k = L + 1 \/ (k < q /\ line[k] \in WHITESPACE)
             THEN "nul" ELSE line[k]]
  BY DEF Cleared
<1>4. g = [k \in 1 .. L + 1 |-> IF p <= k /\ k < q THEN "nul" ELSE b[k]]
  BY <1>2 DEF Gobble
<1>5. p \in Nat /\ q \in Nat /\ 1 <= p /\ p <= q /\ q <= L + 1
  BY <1>1
<1> HIDE DEF b, c, g, L
<1>6. ASSUME NEW k \in 1 .. L + 1
      PROVE  (IF p <= k /\ k < q THEN "nul" ELSE b[k]) =
             (IF k = L + 1 \/ (k < q /\ line[k] \in WHITESPACE)
              THEN "nul" ELSE line[k])
  <2>1. CASE k = L + 1
    BY <1>1, <1>2, <1>5, <2>1
  <2>2. CASE k # L + 1 /\ p <= k /\ k < q
    <3>1. k \in p .. q - 1
      BY <1>1, <1>5, <2>2
    <3>2. line[k] \in WHITESPACE
      BY <3>1
    <3>3. QED
      BY <2>2, <3>2
  <2>3. CASE k # L + 1 /\ q <= k
    <3>1. k \in 1 .. L /\ ~(k < p) /\ ~(k < q)
      BY <1>1, <1>5, <2>3
    <3>2. QED
      BY <1>2, <2>3, <3>1
  <2>4. CASE k # L + 1 /\ k < p
    <3>1. k \in 1 .. L /\ k < q /\ ~(p <= k)
      BY <1>1, <1>5, <2>4
    <3>2. QED
      BY <1>2, <2>4, <3>1
  <2>5. QED
    BY <1>1, <1>5, <2>1, <2>2, <2>3, <2>4
<1>7. QED
  BY <1>3, <1>4, <1>6 DEF b, c, g

(* The word from q on is stepped over, and nothing in it cleared. *)
LEMMA WordSkipped ==
  ASSUME NEW line \in CmdLine, NEW q \in 1 .. Len(line),
         line[q] \notin WHITESPACE
  PROVE  LET e == FirstOf(Cleared(line, q), q, WHITESPACE \cup {"nul"})
         IN  /\ e \in q + 1 .. Len(line) + 1
             /\ \A k \in q .. e - 1 : line[k] \notin WHITESPACE
             /\ e # Len(line) + 1 => line[e] \in WHITESPACE
             /\ Cleared(line, q) = Cleared(line, e)
<1> DEFINE b == Cleared(line, q)
           L == Len(line)
           cs == WHITESPACE \cup {"nul"}
           S == {k \in q .. Len(b) : b[k] \in cs}
           e == Min(S)
<1>1. L \in Nat /\ "nul" \notin WHITESPACE
      /\ \A k \in 1 .. L : line[k] # "nul"
  BY LineFacts
<1>2. /\ Len(b) = L + 1 /\ b[L + 1] = "nul"
      /\ \A k \in 1 .. L : ~(k < q /\ line[k] \in WHITESPACE)
                             => b[k] = line[k]
  BY ClearedFacts
<1>3. q \in Nat /\ q <= L /\ 1 <= q
  BY <1>1
<1>4. FirstOf(b, q, cs) = e
  BY DEF FirstOf
<1> HIDE DEF b, L
<1>5. \A k \in q .. L : /\ b[k] = line[k] /\ line[k] # "nul"
                        /\ k \in 1 .. L
  <2>1. SUFFICES ASSUME NEW k \in q .. L
                 PROVE  b[k] = line[k] /\ line[k] # "nul" /\ k \in 1 .. L
    OBVIOUS
  <2>2. k \in 1 .. L /\ ~(k < q)
    BY <1>1, <1>3
  <2>3. QED
    BY <1>1, <1>2, <2>2
<1>6. S \in SUBSET Nat /\ L + 1 \in S
  BY <1>1, <1>2, <1>3
<1>7. e \in S /\ \A k \in S : e <= k
  <2> HIDE DEF S
  <2>1. S # {}
    BY <1>6
  <2>2. QED
    BY <1>6, <2>1, MinOf
<1> HIDE DEF e
<1>8. e \in q .. L + 1 /\ b[e] \in cs
  BY <1>2, <1>7
<1>9. e # q
  <2>1. q \in q .. L
    BY <1>1, <1>3
  <2>2. b[q] \notin cs
    BY <1>5, <2>1 DEF L
  <2>3. QED
    BY <1>8, <2>2
<1>10. e \in q + 1 .. L + 1
  BY <1>1, <1>3, <1>8, <1>9
<1>11. ASSUME NEW k \in q .. e - 1 PROVE line[k] \notin WHITESPACE
  <2>1. k \in q .. L /\ k \in q .. L + 1 /\ k < e /\ k \in Nat /\ e \in Nat
    BY <1>1, <1>3, <1>8
  <2>2. k \notin S
    BY <1>7, <2>1
  <2>3. b[k] \notin cs
    BY <1>2, <2>1, <2>2
  <2>4. QED
    BY <1>5, <2>1, <2>3
<1>12. ASSUME e # L + 1 PROVE line[e] \in WHITESPACE
  <2>1. e \in q .. L
    BY <1>1, <1>3, <1>8, <1>12
  <2>2. line[e] \in cs /\ line[e] # "nul"
    BY <1>5, <1>8, <2>1
  <2>3. QED
    BY <2>2
<1>13. Cleared(line, q) = Cleared(line, e)
  <2>1. ASSUME NEW k \in 1 .. L + 1
        PROVE  (IF k = L + 1 \/ (k < q /\ line[k] \in WHITESPACE)
                THEN "nul" ELSE line[k]) =
               (IF k = L + 1 \/ (k < e /\ line[k] \in WHITESPACE)
                THEN "nul" ELSE line[k])
    <3>1. (k < q /\ line[k] \in WHITESPACE) <=>
          (k < e /\ line[k] \in WHITESPACE)
      <4>1. CASE k < q
        BY <1>1, <1>3, <1>10, <4>1
      <4>2. CASE q <= k /\ k < e
        <5>1. k \in q .. e - 1
          BY <1>1, <1>3, <1>10, <4>2
        <5>2. line[k] \notin WHITESPACE
          BY <1>11, <5>1
        <5>3. QED
          BY <5>2
      <4>3. CASE e <= k
        BY <1>1, <1>3, <1>10, <4>3
      <4>4. QED
        BY <1>1, <1>3, <1>10, <4>1, <4>2, <4>3
    <3>2. QED
      BY <3>1
  <2>2. QED
    BY <2>1 DEF Cleared, L
<1>14. QED
  BY <1>4, <1>10, <1>11, <1>12, <1>13 DEF b, L

(* Where the next word starts. *)
LEMMA NextStart ==
  ASSUME NEW line \in CmdLine, NEW p \in 1 .. Len(line) + 1,
         p = 1 \/ p = Len(line) + 1 \/ line[p] \in WHITESPACE,
         NEW q \in p .. Len(line) + 1,
         \A k \in p .. q - 1 : line[k] \in WHITESPACE
  PROVE  /\ q = Len(line) + 1 => \A k \in WordStarts(line) : k < p
         /\ q # Len(line) + 1 /\ line[q] \notin WHITESPACE =>
              q \in WordStarts(line)
<1> DEFINE L == Len(line)
           W == WordStarts(line)
<1>1. L \in Nat /\ DOMAIN line = 1 .. L
  BY LineFacts
<1>2. p \in Nat /\ q \in Nat /\ 1 <= p /\ p <= q /\ q <= L + 1
  BY <1>1
<1>3. \A k : k \in W <=> /\ k \in 1 .. L /\ line[k] \notin WHITESPACE
                         /\ k = 1 \/ line[k - 1] \in WHITESPACE
  BY <1>1 DEF WordStarts
<1> HIDE DEF L, W
<1>4. ASSUME NEW k \in W, p <= k PROVE q <= k
  <2>1. k \in 1 .. L /\ line[k] \notin WHITESPACE
    BY <1>3
  <2>2. k \notin p .. q - 1
    BY <2>1
  <2>3. QED
    BY <1>1, <1>2, <1>4, <2>1, <2>2
<1>5. ASSUME q = L + 1, NEW k \in W PROVE k < p
  <2>1. k \in Nat /\ k <= L
    BY <1>1, <1>3
  <2>2. ~(p <= k)
    BY <1>1, <1>2, <1>4, <1>5, <2>1
  <2>3. QED
    BY <1>2, <2>1, <2>2
<1>6. ASSUME q # L + 1, line[q] \notin WHITESPACE PROVE q \in W
  <2>1. q \in 1 .. L
    BY <1>1, <1>2, <1>6
  <2>2. CASE q = p
    <3>1. p = 1
      BY <1>6, <2>2 DEF L
    <3>2. QED
      BY <1>3, <1>6, <2>1, <2>2, <3>1
  <2>3. CASE q # p
    <3>1. q - 1 \in p .. q - 1
      BY <1>2, <2>3
    <3>2. line[q - 1] \in WHITESPACE
      BY <3>1
    <3>3. QED
      BY <1>3, <1>6, <2>1, <3>2
  <2>4. QED
    BY <2>2, <2>3
<1>7. QED
  BY <1>5, <1>6 DEF L, W

(* With that word, there is one more start before its end. *)
LEMMA OneMoreStart ==
  ASSUME NEW line \in CmdLine, NEW p \in 1 .. Len(line) + 1,
         p = 1 \/ p = Len(line) + 1 \/ line[p] \in WHITESPACE,
         NEW q \in p .. Len(line) + 1,
         \A k \in p .. q - 1 : line[k] \in WHITESPACE,
         NEW e \in q + 1 .. Len(line) + 1, q \in WordStarts(line),
         \A k \in q .. e - 1 : line[k] \notin WHITESPACE
  PROVE  Before(WordStarts(line), e) = Before(WordStarts(line), p) \cup {q}
<1> DEFINE L == Len(line)
           W == WordStarts(line)
<1>1. L \in Nat /\ DOMAIN line = 1 .. L
  BY LineFacts
<1>2. p \in Nat /\ q \in Nat /\ 1 <= p /\ p <= q /\ q <= L + 1
  BY <1>1
<1>3. \A k : k \in W <=> /\ k \in 1 .. L /\ line[k] \notin WHITESPACE
                         /\ k = 1 \/ line[k - 1] \in WHITESPACE
  BY <1>1 DEF WordStarts
<1> HIDE DEF L, W
<1>4. ASSUME NEW k \in W, p <= k PROVE q <= k
  <2>1. k \in 1 .. L /\ line[k] \notin WHITESPACE
    BY <1>3
  <2>2. k \notin p .. q - 1
    BY <2>1
  <2>3. QED
    BY <1>1, <1>2, <1>4, <2>1, <2>2
<1>5. /\ e \in Nat /\ q < e /\ q \in W
  BY <1>1, <1>2 DEF W, L
<1>6. ASSUME NEW k \in W, k < e, ~(k < p) PROVE k = q
  <2>1. k \in Nat /\ 1 <= k /\ k <= L
    BY <1>1, <1>3
  <2>2. q <= k
    BY <1>2, <1>4, <1>6, <2>1
  <2>3. ASSUME k # q PROVE FALSE
    <3>1. k - 1 \in q .. e - 1 /\ k # 1
      BY <1>2, <1>5, <1>6, <2>1, <2>2, <2>3
    <3>2. line[k - 1] \notin WHITESPACE
      BY <3>1
    <3>3. QED
      BY <1>3, <3>1, <3>2
  <2>4. QED
    BY <2>3
<1>7. ASSUME NEW k \in W, k < p PROVE k < e
  <2>1. k \in Nat
    BY <1>1, <1>3
  <2>2. QED
    BY <1>2, <1>5, <1>7, <2>1
<1>8. Before(W, e) = Before(W, p) \cup {q}
  BY <1>5, <1>6, <1>7 DEF Before
<1>9. QED
  BY <1>8 DEF W

(* A string that ends where its word does is the word. *)
LEMMA StringIsWord ==
  ASSUME NEW line \in CmdLine, NEW k \in 1 .. Len(line)
  PROVE  StringAt(Cleared(line, Len(line) + 1), k) = WordFrom(line, k)
<1> DEFINE L == Len(line)
           b == Cleared(line, L + 1)
           S == {x \in k .. Len(b) : b[x] \in {"nul"}}
           ends == {x \in k .. L : line[x] \in WHITESPACE}
           last == IF ends = {} THEN L ELSE Min(ends) - 1
           f == Min(S)
<1>1. L \in Nat /\ \A x \in 1 .. L : line[x] # "nul"
  BY LineFacts
<1>2. /\ Len(b) = L + 1 /\ b[L + 1] = "nul"
      /\ \A x \in 1 .. L : /\ x < L + 1 /\ line[x] \in WHITESPACE
                                => b[x] = "nul"
                           /\ ~(x < L + 1 /\ line[x] \in WHITESPACE)
                                => b[x] = line[x]
  BY ClearedFacts
<1>3. StringAt(b, k) = SubSeq(b, k, f - 1) /\ FirstOf(b, k, {"nul"}) = f
  BY DEF StringAt, FirstOf
<1>4. WordFrom(line, k) = SubSeq(line, k, last)
  BY DEF WordFrom
<1>5. k \in Nat /\ 1 <= k /\ k <= L
  BY <1>1
<1> HIDE DEF L, b
<1>6. \A x \in k .. L : /\ x \in 1 .. L
                        /\ b[x] = "nul" <=> line[x] \in WHITESPACE
                        /\ b[x] # "nul" => b[x] = line[x]
  <2>1. SUFFICES ASSUME NEW x \in k .. L
                 PROVE  /\ x \in 1 .. L
                        /\ b[x] = "nul" <=> line[x] \in WHITESPACE
                        /\ b[x] # "nul" => b[x] = line[x]
    OBVIOUS
  <2>2. x \in 1 .. L /\ x < L + 1
    BY <1>1, <1>5
  <2>3. QED
    BY <1>1, <1>2, <2>2
<1>7. S \in SUBSET Nat /\ L + 1 \in S
  BY <1>1, <1>2, <1>5
<1>8. f \in S /\ \A x \in S : f <= x
  <2> HIDE DEF S
  <2>1. S # {}
    BY <1>7
  <2>2. QED
    BY <1>7, <2>1, MinOf
<1> HIDE DEF f
<1>9. f \in k .. L + 1 /\ b[f] = "nul"
  BY <1>2, <1>8
<1>10. f - 1 = last
  <2>1. \A x \in ends : x \in Nat /\ x \in S
    BY <1>1, <1>2, <1>5, <1>6
  <2>2. CASE ends = {}
    <3>1. ASSUME f # L + 1 PROVE FALSE
      <4>1. f \in k .. L
        BY <1>1, <1>5, <1>9, <3>1
      <4>2. f \in ends
        BY <1>6, <1>9, <4>1
      <4>3. QED
        BY <2>2, <4>2
    <3>2. QED
      BY <1>1, <2>2, <3>1
  <2>3. CASE ends # {}
    <3>1. PICK y \in ends : TRUE
      BY <2>3
    <3>2. f <= y /\ y \in Nat /\ y <= L
      BY <1>1, <1>5, <1>8, <2>1
    <3>3. f \in k .. L
      BY <1>1, <1>5, <1>9, <3>2
    <3>4. f \in ends
      BY <1>6, <1>9, <3>3
    <3>5. ends \in SUBSET Int /\ \A x \in ends : f <= x
      BY <1>8, <2>1
    <3> HIDE DEF ends
    <3>6. Min(ends) = f
      BY <3>4, <3>5, MinIs
    <3>7. QED
      BY <2>3, <3>6
  <2>4. QED
    BY <2>2, <2>3
<1>11. \A x \in k .. f - 1 : b[x] = line[x]
  <2>1. SUFFICES ASSUME NEW x \in k .. f - 1 PROVE b[x] = line[x]
    OBVIOUS
  <2>2. x \in k .. L /\ x \in k .. L + 1 /\ x < f /\ x \in Nat /\ f \in Nat
    BY <1>1, <1>5, <1>9
  <2>3. x \notin S
    BY <1>8, <2>2
  <2>4. b[x] # "nul"
    BY <1>2, <2>2, <2>3
  <2>5. QED
    BY <1>6, <2>2, <2>4
<1> DEFINE t == f - 1
<1>12. SubSeq(b, k, t) = SubSeq(line, k, t)
  <2>1. t \in Int /\ k \in Int /\ k - 1 <= t
    BY <1>1, <1>5, <1>9
  <2>2. \A x \in k .. t : b[x] = line[x]
    BY <1>11
  <2> HIDE DEF t
  <2> DEFINE C == {line[x] : x \in k .. t}
             u == SubSeq(b, k, t)
             v == SubSeq(line, k, t)
  <2>3. \A x \in k .. t : b[x] \in C /\ line[x] \in C
    BY <2>2
  <2> HIDE DEF C
  <2>4. /\ u \in Seq(C) /\ Len(u) = (IF k <= t THEN t - k + 1 ELSE 0)
        /\ \A i \in 1 .. t - k + 1 : u[i] = b[k + i - 1]
    <3>1. \A x \in k .. t : b[x] \in C
      BY <2>3
    <3>2. QED
      BY <2>1, <3>1, SubSeqProperties
  <2>5. /\ v \in Seq(C) /\ Len(v) = (IF k <= t THEN t - k + 1 ELSE 0)
        /\ \A i \in 1 .. t - k + 1 : v[i] = line[k + i - 1]
    BY <2>1, <2>3, SubSeqProperties
  <2> HIDE DEF u, v
  <2>6. Len(u) = Len(v) /\ Len(u) = t - k + 1
    BY <2>1, <2>4, <2>5
  <2>7. \A i \in 1 .. Len(u) : u[i] = v[i]
    <3>1. SUFFICES ASSUME NEW i \in 1 .. t - k + 1 PROVE u[i] = v[i]
      BY <2>6
    <3>2. k + i - 1 \in k .. t
      BY <1>5, <2>1
    <3>3. QED
      BY <2>2, <2>4, <2>5, <3>2
  <2>8. u = v
    BY <2>4, <2>5, <2>6, <2>7, SeqEqual
  <2>9. QED
    BY <2>8 DEF u, v
<1>13. QED
  BY <1>3, <1>4, <1>10, <1>12 DEF b, L

(* The words of a line are those at its word starts, in order. *)
LEMMA WordsFacts ==
  ASSUME NEW line \in CmdLine
  PROVE  \E n \in Nat : \E s :
           /\ Orders(s, n, WordStarts(line))
           /\ Words(line) = [k \in 1 .. n |-> WordFrom(line, s[k])]
<1> DEFINE L == Len(line)
           W == WordStarts(line)
           SS == UNION {[1 .. n -> W] : n \in 0 .. L}
           s == CHOOSE x \in SS : InOrder(x, W)
<1>1. L \in Nat /\ W \in SUBSET (1 .. L)
  BY LineFacts DEF WordStarts
<1>2. Words(line) = [k \in DOMAIN s |-> WordFrom(line, s[k])]
  BY DEF Words
<1> HIDE DEF L, W
<1>3. PICK n \in 0 .. L : \E x : Orders(x, n, W)
  BY <1>1, OrderExists
<1>4. PICK x : Orders(x, n, W)
  BY <1>3
<1>5. x \in SS /\ InOrder(x, W)
  <2>1. n \in Nat /\ x \in [1 .. n -> W]
    BY <1>4 DEF Orders
  <2>2. InOrder(x, W)
    BY <1>4, <2>1, OrdersIs
  <2>3. QED
    BY <2>1, <2>2
<1>6. s \in SS /\ InOrder(s, W)
  <2> HIDE DEF SS
  <2>1. QED
    BY <1>5
<1> HIDE DEF s
<1>7. PICK l \in 0 .. L : s \in [1 .. l -> W]
  BY <1>6
<1>8. l \in Nat /\ DOMAIN s = 1 .. l
  BY <1>1, <1>7
<1>9. Orders(s, l, W)
  BY <1>6, <1>7, <1>8, OrdersIs
<1>10. QED
  BY <1>2, <1>8, <1>9 DEF W

------------------------------------------------------------------------------
(* The fields of the state of runcmd. *)
IsCmdState(s) ==
  s = [pc |-> s.pc, line |-> s.line, buf |-> s.buf, p |-> s.p,
       argv |-> s.argv, ran |-> s.ran, answer |-> s.answer]

(* What runcmd makes of a line. *)
Outcome(line, ran, answer) ==
  LET words == Words(line)
      runs == words # <<>> /\ words[1] \in Command /\ Len(words) < MAXARGS
  IN  /\ (answer = "ran") = runs
      /\ runs => ran = words
      /\ (answer = "too many") = (Len(words) >= MAXARGS)

(* The words found so far are those before p, and the whitespace before p  *)
(* is cleared.                                                             *)
CmdPhase(s) ==
  LET L == Len(s.line)
      W == WordStarts(s.line)
  IN  \/ /\ s.pc = "gobble" /\ s.p \in 1 .. L + 1
         /\ s.p = 1 \/ s.p = L + 1 \/ s.line[s.p] \in WHITESPACE
         /\ s.buf = Cleared(s.line, s.p)
         /\ Orders(s.argv, Len(s.argv), Before(W, s.p))
         /\ Len(s.argv) <= MAXARGS - 1
      \/ /\ s.pc = "lookup" /\ s.buf = Cleared(s.line, L + 1)
         /\ Orders(s.argv, Len(s.argv), W) /\ Len(s.argv) <= MAXARGS - 1
      \/ s.pc = "done" /\ Outcome(s.line, s.ran, s.answer)

CmdOK(s) == IsCmdState(s) /\ s.line \in CmdLine /\ CmdPhase(s)

CmdInv == job = "runcmd" /\ CmdOK(st)

(* How long a list of n things is. *)
LEMMA LengthOf ==
  ASSUME NEW n \in Nat, NEW S, NEW s \in [1 .. n -> S]
  PROVE  s \in Seq(S) /\ Len(s) = n
<1>1. s \in Seq(S)
  BY SeqDef
<1>2. Len(s) \in Nat /\ DOMAIN s = 1 .. Len(s) /\ DOMAIN s = 1 .. n
  BY <1>1
<1>3. QED
  BY <1>1, <1>2

(* A position after all the others, appended. *)
LEMMA OrdersAppend ==
  ASSUME NEW S \in SUBSET Nat, NEW s, NEW n, Orders(s, n, S),
         NEW x \in Nat, \A k \in S : k < x
  PROVE  Orders(Append(s, x), n + 1, S \cup {x}) /\ Len(Append(s, x)) = n + 1
<1> DEFINE t == [k \in 1 .. n + 1 |-> IF k = n + 1 THEN x ELSE s[k]]
           a == Append(s, x)
           T == S \cup {x}
<1>1. Orders(t, n + 1, T)
  BY OneMore
<1>2. n \in Nat /\ s \in [1 .. n -> S]
  BY DEF Orders
<1>3. s \in Seq(S) /\ Len(s) = n
  BY <1>2, LengthOf
<1>4. s \in Seq(T) /\ x \in T
  <2>1. S \subseteq T /\ x \in T
    OBVIOUS
  <2> HIDE DEF T
  <2>2. QED
    BY <1>3, <2>1, SeqMonotonic
<1> HIDE DEF T
<1>5. /\ a \in Seq(T) /\ Len(a) = n + 1
      /\ \A i \in 1 .. n : a[i] = s[i]
      /\ a[n + 1] = x
  BY <1>3, <1>4, AppendProperties
<1> HIDE DEF a
<1>6. a \in [1 .. n + 1 -> T]
  BY <1>5, LenProperties
<1>7. \A k \in 1 .. n + 1 : a[k] = t[k]
  <2>1. \A k \in 1 .. n + 1 : k = n + 1 \/ (k \in 1 .. n /\ k # n + 1)
    BY <1>2
  <2>2. QED
    BY <1>5, <2>1
<1>8. t \in [1 .. n + 1 -> T]
  BY <1>1 DEF Orders
<1>9. a = t
  <2> HIDE DEF t
  <2>1. t \in Seq(T) /\ Len(t) = n + 1
    BY <1>2, <1>8, LengthOf
  <2>2. QED
    BY <1>5, <1>7, <2>1, SeqEqual
<1>10. QED
  BY <1>1, <1>5, <1>9 DEF a, T

(* The words of the line, when all of them are found. *)
LEMMA AllFound ==
  ASSUME NEW line \in CmdLine, NEW a, Orders(a, Len(a), WordStarts(line))
  PROVE  /\ Words(line) = [k \in DOMAIN a |-> WordFrom(line, a[k])]
         /\ Len(Words(line)) = Len(a)
<1> DEFINE W == WordStarts(line)
           L == Len(line)
           l == Len(a)
<1>1. PICK n \in Nat : \E s :
           /\ Orders(s, n, W)
           /\ Words(line) = [k \in 1 .. n |-> WordFrom(line, s[k])]
  BY WordsFacts
<1>2. PICK s : /\ Orders(s, n, W)
               /\ Words(line) = [k \in 1 .. n |-> WordFrom(line, s[k])]
  BY <1>1
<1>3. L \in Nat /\ W \in SUBSET (1 .. L)
  BY LineFacts DEF WordStarts
<1>4. Orders(a, l, W)
  OBVIOUS
<1> HIDE DEF W, L, l
<1>5. PICK p \in Nat : p = L + 1
  BY <1>3
<1>6. l = n /\ \A k \in 1 .. l : a[k] = s[k]
  <2>1. \A q \in W : q \in Nat /\ q < p
    BY <1>3, <1>5
  <2>2. W \in SUBSET Nat /\ Before(W, p) = W
    BY <2>1 DEF Before
  <2>3. Orders(a, l, Before(W, p))
    BY <1>4, <2>2
  <2>4. W \in SUBSET Nat /\ Orders(s, n, W)
    BY <1>2, <2>2
  <2>5. \A k \in 1 .. l : a[k] = s[k]
    BY <2>3, <2>4, OrderPrefix
  <2>6. l = n
    <3>1. \A q \in W : q < p
      BY <2>1
    <3>2. QED
      BY <2>3, <2>4, <3>1, OrderPrefix
  <2>7. QED
    BY <2>5, <2>6
<1>7. DOMAIN a = 1 .. l
  BY <1>4 DEF Orders
<1>8. Words(line) = [k \in DOMAIN a |-> WordFrom(line, a[k])]
  BY <1>2, <1>6, <1>7
<1>9. Len(Words(line)) = n
  <2> DEFINE f == [k \in 1 .. n |-> WordFrom(line, s[k])]
             C == {WordFrom(line, s[k]) : k \in 1 .. n}
  <2>1. f \in [1 .. n -> C]
    OBVIOUS
  <2> HIDE DEF f, C
  <2>2. Len(f) = n
    BY <2>1, LengthOf
  <2>3. QED
    BY <1>2, <2>2 DEF f
<1>10. QED
  BY <1>6, <1>8, <1>9 DEF l

(* There are more words than those found before p. *)
LEMMA TooMany ==
  ASSUME NEW line \in CmdLine, NEW p \in Nat, NEW a,
         Orders(a, Len(a), Before(WordStarts(line), p)),
         \E q \in WordStarts(line) : p <= q
  PROVE  Len(Words(line)) \in Nat /\ Len(a) < Len(Words(line))
<1> DEFINE W == WordStarts(line)
           l == Len(a)
<1>1. PICK n \in Nat : \E s :
           /\ Orders(s, n, W)
           /\ Words(line) = [k \in 1 .. n |-> WordFrom(line, s[k])]
  BY WordsFacts
<1>2. PICK s : /\ Orders(s, n, W)
               /\ Words(line) = [k \in 1 .. n |-> WordFrom(line, s[k])]
  BY <1>1
<1>3. W \in SUBSET Nat
  BY LineFacts DEF WordStarts
<1>4. Orders(a, l, Before(W, p)) /\ \E q \in W : p <= q
  OBVIOUS
<1>5. l < n
  <2> HIDE DEF W, l
  <2>1. QED
    BY <1>2, <1>3, <1>4, OrderPrefix
<1>6. Len(Words(line)) = n
  <2> DEFINE f == [k \in 1 .. n |-> WordFrom(line, s[k])]
             C == {WordFrom(line, s[k]) : k \in 1 .. n}
  <2>1. f \in [1 .. n -> C]
    OBVIOUS
  <2> HIDE DEF f, C
  <2>2. Len(f) = n
    BY <2>1, LengthOf
  <2>3. QED
    BY <1>2, <2>2 DEF f
<1>7. QED
  BY <1>5, <1>6

(* A turn of the loop. *)
AfterWord(s) ==
  LET q == SkipSpace(s.buf, s.p)
      u == [s EXCEPT !.buf = Gobble(@, s.p, q)]
  IN  CASE u.buf[q] = "nul" -> [u EXCEPT !.pc = "lookup"]
        [] u.buf[q] # "nul" /\ Len(s.argv) = MAXARGS - 1 ->
             [u EXCEPT !.pc = "done", !.answer = "too many"]
        [] OTHER ->
             [u EXCEPT !.p = FirstOf(u.buf, q, WHITESPACE \cup {"nul"}),
                       !.argv = Append(@, q)]

(* It finds the next word, the end of the line, or one word too many. *)
LEMMA NextWordOK ==
  ASSUME NEW s, CmdOK(s), s.pc = "gobble"
  PROVE  CmdOK(AfterWord(s))
<1> DEFINE line == s.line
           L == Len(line)
           W == WordStarts(line)
           p == s.p
           n == Len(s.argv)
           q == SkipSpace(s.buf, p)
           g == Gobble(s.buf, p, q)
           u == [s EXCEPT !.buf = Gobble(@, p, q)]
           e == FirstOf(u.buf, q, WHITESPACE \cup {"nul"})
           a == AfterWord(s)
<1>1. IsCmdState(s) /\ line \in CmdLine /\ CmdPhase(s)
  BY DEF CmdOK
<1>2. /\ p \in 1 .. L + 1 /\ (p = 1 \/ p = L + 1 \/ line[p] \in WHITESPACE)
      /\ s.buf = Cleared(line, p)
      /\ Orders(s.argv, n, Before(W, p)) /\ n <= MAXARGS - 1
  BY <1>1 DEF CmdPhase
<1>3. /\ L \in Nat /\ \A k \in 1 .. L : line[k] # "nul"
      /\ W \in SUBSET (1 .. L) /\ MAXARGS \in Nat
  BY <1>1, LineFacts, MonitorAssumption DEF WordStarts
<1>4. /\ q \in p .. L + 1
      /\ \A k \in p .. q - 1 : line[k] \in WHITESPACE
      /\ q # L + 1 => line[q] \notin WHITESPACE
  <2>1. q = SkipSpace(Cleared(line, p), p)
    BY <1>2
  <2> HIDE DEF q, line, p, L
  <2>2. QED
    BY <1>1, <1>2, <2>1, SpaceSkipped DEF L
<1>5. g = Cleared(line, q)
  <2>1. g = Gobble(Cleared(line, p), p, q)
    BY <1>2
  <2> HIDE DEF q, line, p, L, g
  <2>2. QED
    BY <1>1, <1>2, <1>4, <2>1, SpaceCleared DEF L
<1>6. u.buf = g
  BY <1>1 DEF IsCmdState
<1>7. g[q] = "nul" <=> q = L + 1
  <2> HIDE DEF q, line, p, L, g, W
  <2>1. /\ Cleared(line, q)[L + 1] = "nul"
        /\ \A k \in 1 .. L : ~(k < q /\ line[k] \in WHITESPACE)
                               => Cleared(line, q)[k] = line[k]
    BY <1>1, ClearedFacts DEF L
  <2>2. ASSUME q # L + 1 PROVE g[q] # "nul"
    <3>1. q \in 1 .. L /\ ~(q < q)
      BY <1>2, <1>3, <1>4, <2>2
    <3>2. QED
      BY <1>3, <1>5, <2>1, <3>1
  <2>3. QED
    BY <1>5, <2>1, <2>2
<1>8. u = [pc |-> "gobble", line |-> line, buf |-> g, p |-> p,
           argv |-> s.argv, ran |-> s.ran, answer |-> s.answer]
  BY <1>1 DEF IsCmdState
<1>9. /\ q = L + 1 => \A k \in W : k < p
      /\ q # L + 1 => q \in W
  <2> HIDE DEF q
  <2>1. QED
    BY <1>1, <1>2, <1>4, NextStart
<1>10. n \in Nat
  BY <1>2 DEF Orders
<1>11. p \in Nat /\ q \in Nat /\ p <= q /\ W \in SUBSET Nat
  <2> HIDE DEF q, p, W, L
  <2>1. QED
    BY <1>2, <1>3, <1>4
<1>12. CASE g[q] = "nul"
  <2>1. a = [u EXCEPT !.pc = "lookup"]
    BY <1>6, <1>12 DEF AfterWord
  <2> HIDE DEF u, a, g, q
  <2>2. a = [pc |-> "lookup", line |-> line, buf |-> g, p |-> p,
             argv |-> s.argv, ran |-> s.ran, answer |-> s.answer]
    BY <1>8, <2>1
  <2>3. /\ IsCmdState(a) /\ a.pc = "lookup" /\ a.line = line /\ a.buf = g
        /\ a.argv = s.argv
    BY <2>2 DEF IsCmdState
  <2>4. Before(W, p) = W
    BY <1>7, <1>9, <1>12 DEF Before
  <2>5. Orders(a.argv, Len(a.argv), W) /\ Len(a.argv) <= MAXARGS - 1
    BY <1>2, <2>3, <2>4
  <2>6. a.buf = Cleared(line, L + 1)
    BY <1>5, <1>7, <1>12, <2>3
  <2>7. CmdPhase(a)
    BY <2>3, <2>5, <2>6 DEF CmdPhase
  <2>8. CmdOK(a)
    BY <1>1, <2>3, <2>7 DEF CmdOK
  <2>9. QED
    BY <2>8 DEF a
<1>13. CASE g[q] # "nul" /\ n = MAXARGS - 1
  <2>1. a = [u EXCEPT !.pc = "done", !.answer = "too many"]
    BY <1>6, <1>13 DEF AfterWord
  <2> HIDE DEF u, a, g, q
  <2>2. a = [pc |-> "done", line |-> line, buf |-> g, p |-> p,
             argv |-> s.argv, ran |-> s.ran, answer |-> "too many"]
    BY <1>8, <2>1
  <2>3. /\ IsCmdState(a) /\ a.pc = "done" /\ a.line = line
        /\ a.answer = "too many"
    BY <2>2 DEF IsCmdState
  <2>4. q \in W /\ p <= q
    BY <1>7, <1>9, <1>11, <1>13
  <2>5. Len(Words(line)) \in Nat /\ n < Len(Words(line))
    <3> HIDE DEF p
    <3>1. QED
      BY <1>1, <1>2, <1>11, <2>4, TooMany
  <2>6. Len(Words(line)) >= MAXARGS /\ ~(Len(Words(line)) < MAXARGS)
    <3> HIDE DEF n
    <3>1. QED
      BY <1>3, <1>10, <1>13, <2>5
  <2>7. Outcome(line, a.ran, a.answer)
    BY <2>3, <2>6 DEF Outcome
  <2>8. CmdPhase(a)
    BY <2>3, <2>7 DEF CmdPhase
  <2>9. CmdOK(a)
    BY <1>1, <2>3, <2>8 DEF CmdOK
  <2>10. QED
    BY <2>9 DEF a
<1>14. CASE g[q] # "nul" /\ n # MAXARGS - 1
  <2>1. a = [u EXCEPT !.p = e, !.argv = Append(@, q)]
    BY <1>6, <1>14 DEF AfterWord
  <2>2. e = FirstOf(g, q, WHITESPACE \cup {"nul"})
    BY <1>6
  <2> HIDE DEF u, a, g, q, e
  <2>3. a = [pc |-> "gobble", line |-> line, buf |-> g, p |-> e,
             argv |-> Append(s.argv, q), ran |-> s.ran,
             answer |-> s.answer]
    BY <1>8, <2>1
  <2>4. /\ IsCmdState(a) /\ a.pc = "gobble" /\ a.line = line /\ a.buf = g
        /\ a.p = e /\ a.argv = Append(s.argv, q)
    BY <2>3 DEF IsCmdState
  <2>5. q \in W /\ q \in 1 .. L /\ line[q] \notin WHITESPACE
    BY <1>3, <1>4, <1>7, <1>9, <1>14
  <2>6. /\ e \in q + 1 .. L + 1
        /\ \A k \in q .. e - 1 : line[k] \notin WHITESPACE
        /\ e # L + 1 => line[e] \in WHITESPACE
        /\ Cleared(line, q) = Cleared(line, e)
    <3>1. e = FirstOf(Cleared(line, q), q, WHITESPACE \cup {"nul"})
      BY <1>5, <2>2
    <3>2. QED
      BY <1>1, <2>5, <3>1, WordSkipped
  <2>7. Before(W, e) = Before(W, p) \cup {q}
    <3> HIDE DEF line, p
    <3>1. QED
      BY <1>1, <1>2, <1>4, <2>5, <2>6, OneMoreStart
  <2>8. /\ Orders(a.argv, n + 1, Before(W, e)) /\ Len(a.argv) = n + 1
    <3>1. Before(W, p) \in SUBSET Nat /\ \A k \in Before(W, p) : k < q
      <4>1. \A k \in Before(W, p) : k \in Nat /\ k < p
        BY <1>11 DEF Before
      <4> HIDE DEF p
      <4>2. QED
        BY <1>11, <4>1
    <3>2. /\ Orders(Append(s.argv, q), n + 1, Before(W, p) \cup {q})
          /\ Len(Append(s.argv, q)) = n + 1
      <4>1. Orders(s.argv, n, Before(W, p)) /\ q \in Nat
        BY <1>2, <1>11
      <4> HIDE DEF n, p, W
      <4>2. QED
        BY <3>1, <4>1, OrdersAppend
    <3>3. QED
      BY <2>4, <2>7, <3>2
  <2>9. n + 1 <= MAXARGS - 1
    <3> HIDE DEF n
    <3>1. QED
      BY <1>2, <1>3, <1>10, <1>14
  <2>10. e \in 1 .. L + 1
    <3> HIDE DEF L
    <3>1. QED
      BY <1>3, <2>5, <2>6
  <2>11. CmdPhase(a)
    BY <1>5, <2>4, <2>6, <2>8, <2>9, <2>10 DEF CmdPhase
  <2>12. CmdOK(a)
    BY <1>1, <2>4, <2>11 DEF CmdOK
  <2>13. QED
    BY <2>12 DEF a
<1>15. QED
  BY <1>12, <1>13, <1>14

(* The lookup of the command. *)
AfterLookup(s) ==
  LET words == [k \in DOMAIN s.argv |-> StringAt(s.buf, s.argv[k])]
  IN  [s EXCEPT
         !.pc = "done",
         !.ran = IF words # <<>> /\ words[1] \in Command THEN words ELSE <<>>,
         !.answer = CASE words = <<>> -> "nothing"
                      [] words # <<>> /\ words[1] \in Command -> "ran"
                      [] OTHER -> "unknown"]

(* It looks for the first word of the line, with all of its words. *)
LEMMA LookupOK ==
  ASSUME NEW s, CmdOK(s), s.pc = "lookup"
  PROVE  CmdOK(AfterLookup(s))
<1> DEFINE line == s.line
           W == WordStarts(line)
           n == Len(s.argv)
           words == [k \in DOMAIN s.argv |-> StringAt(s.buf, s.argv[k])]
           known == words # <<>> /\ words[1] \in Command
           ran == IF words # <<>> /\ words[1] \in Command THEN words ELSE <<>>
           answer == CASE words = <<>> -> "nothing"
                       [] words # <<>> /\ words[1] \in Command -> "ran"
                       [] OTHER -> "unknown"
           a == AfterLookup(s)
<1>1. IsCmdState(s) /\ line \in CmdLine /\ CmdPhase(s)
  BY DEF CmdOK
<1>2. /\ s.buf = Cleared(line, Len(line) + 1)
      /\ Orders(s.argv, n, W) /\ n <= MAXARGS - 1
  BY <1>1 DEF CmdPhase
<1>3. /\ W \in SUBSET (1 .. Len(line)) /\ MAXARGS \in Nat /\ n \in Nat
      /\ DOMAIN s.argv = 1 .. n /\ \A k \in 1 .. n : s.argv[k] \in W
  BY <1>1, <1>2, LineFacts, MonitorAssumption DEF WordStarts, Orders
<1>4. /\ Words(line) = [k \in DOMAIN s.argv |-> WordFrom(line, s.argv[k])]
      /\ Len(Words(line)) = n
  BY <1>1, <1>2, AllFound
<1>5. words = Words(line)
  <2>1. ASSUME NEW k \in DOMAIN s.argv
        PROVE  StringAt(s.buf, s.argv[k]) = WordFrom(line, s.argv[k])
    <3>1. s.argv[k] \in 1 .. Len(line)
      BY <1>3
    <3>2. QED
      BY <1>1, <1>2, <3>1, StringIsWord
  <2>2. QED
    BY <1>4, <2>1
<1>6. a = [s EXCEPT !.pc = "done", !.ran = ran, !.answer = answer]
  BY DEF AfterLookup
<1>7. /\ known => ran = words /\ answer = "ran"
      /\ ~known => answer \in {"nothing", "unknown"}
  <2> HIDE DEF words
  <2>1. QED
    OBVIOUS
<1> HIDE DEF words, ran, answer, a
<1>8. a = [pc |-> "done", line |-> line, buf |-> s.buf, p |-> s.p,
           argv |-> s.argv, ran |-> ran, answer |-> answer]
  BY <1>1, <1>6 DEF IsCmdState
<1>9. /\ IsCmdState(a) /\ a.pc = "done" /\ a.line = line /\ a.ran = ran
      /\ a.answer = answer
  BY <1>8 DEF IsCmdState
<1>10. Len(Words(line)) < MAXARGS /\ ~(Len(Words(line)) >= MAXARGS)
  <2> HIDE DEF n
  <2>1. QED
    BY <1>2, <1>3, <1>4
<1>11. Outcome(line, ran, answer)
  <2> DEFINE w == Words(line)
             runs == w # <<>> /\ w[1] \in Command /\ Len(w) < MAXARGS
  <2>1. runs <=> known
    BY <1>5, <1>10
  <2>2. (answer = "ran") <=> runs
    BY <1>7, <2>1
  <2>3. runs => ran = w
    BY <1>5, <1>7, <2>1
  <2>4. (answer = "too many") <=> (Len(w) >= MAXARGS)
    BY <1>7, <1>10
  <2>5. /\ (answer = "ran") = runs
        /\ (answer = "too many") = (Len(w) >= MAXARGS)
    <3> HIDE DEF w
    <3>1. (answer = "ran") = runs
      BY <2>2, Zenon
    <3>2. (answer = "too many") = (Len(w) >= MAXARGS)
      <4>1. (answer = "too many") = FALSE
        BY <1>7
      <4>2. (Len(w) >= MAXARGS) = FALSE
        BY <1>10 DEF w
      <4>3. QED
        BY <4>1, <4>2
    <3>3. QED
      BY <3>1, <3>2, Zenon
  <2>6. QED
    BY <2>3, <2>5 DEF Outcome
<1>12. CmdPhase(a)
  BY <1>9, <1>11 DEF CmdPhase
<1>13. CmdOK(a)
  BY <1>1, <1>9, <1>12 DEF CmdOK
<1>14. QED
  BY <1>13 DEF a

(* The invariant holds before the first word is looked for. *)
LEMMA CmdStarts == MonitorInit => CmdInv
<1>1. SUFFICES ASSUME MonitorInit PROVE CmdInv
  OBVIOUS
<1>2. job = "runcmd"
  BY <1>1 DEF MonitorInit
<1>3. PICK line \in CmdLine :
        st = [pc |-> "gobble", line |-> line, buf |-> Append(line, "nul"),
              p |-> 1, argv |-> <<>>, ran |-> <<>>, answer |-> "none"]
  BY <1>1 DEF MonitorInit
<1> DEFINE L == Len(line)
           W == WordStarts(line)
           C == {line[k] : k \in 1 .. L} \cup {"nul"}
           b == Append(line, "nul")
<1>4. /\ IsCmdState(st) /\ st.pc = "gobble" /\ st.line = line /\ st.buf = b
      /\ st.p = 1 /\ st.argv = <<>>
  BY <1>3 DEF IsCmdState
<1>5. L \in Nat /\ DOMAIN line = 1 .. L /\ W \in SUBSET (1 .. L)
      /\ MAXARGS \in Nat \ {0}
  BY LineFacts, MonitorAssumption DEF WordStarts
<1>6. line \in Seq(C)
  <2>1. line \in Seq({line[k] : k \in DOMAIN line} \ {"nul"})
    BY MonitorAssumption
  <2>2. {line[k] : k \in DOMAIN line} \ {"nul"} \subseteq C
    BY <1>5
  <2> HIDE DEF C
  <2>3. QED
    BY <2>1, <2>2, SeqMonotonic
<1>7. /\ b \in Seq(C) /\ Len(b) = L + 1 /\ b[L + 1] = "nul"
      /\ \A k \in 1 .. L : b[k] = line[k]
  <2>1. "nul" \in C
    OBVIOUS
  <2> HIDE DEF C
  <2>2. QED
    BY <1>6, <2>1, AppendProperties
<1> HIDE DEF b, C, L
<1>8. b = Cleared(line, 1)
  <2> DEFINE c(k) == IF k = L + 1 \/ (k < 1 /\ line[k] \in WHITESPACE)
                     THEN "nul" ELSE line[k]
  <2>1. Cleared(line, 1) = [k \in 1 .. L + 1 |-> c(k)]
    BY DEF Cleared, L
  <2>2. b \in [1 .. L + 1 -> C]
    BY <1>7, LenProperties
  <2>3. b = [k \in 1 .. L + 1 |-> b[k]]
    BY <2>2
  <2>4. \A k \in 1 .. L + 1 : b[k] = c(k)
    <3>1. \A k \in 1 .. L + 1 : ~(k < 1) /\ (k = L + 1 \/ k \in 1 .. L)
      BY <1>5
    <3>2. QED
      BY <1>7, <3>1
  <2> HIDE DEF c
  <2>5. QED
    BY <2>1, <2>3, <2>4
<1>9. Orders(<<>>, 0, Before(W, 1)) /\ Len(<<>>) = 0
  <2>1. Before(W, 1) = {}
    <3>1. \A k \in W : ~(k < 1)
      BY <1>5
    <3>2. QED
      BY <3>1 DEF Before
  <2>2. <<>> \in [1 .. 0 -> {}] /\ Len(<<>>) = 0
    OBVIOUS
  <2>3. QED
    BY <2>1, <2>2 DEF Orders
<1>10. 1 \in 1 .. L + 1 /\ 0 <= MAXARGS - 1
  BY <1>5
<1>11. CmdPhase(st)
  BY <1>4, <1>8, <1>9, <1>10 DEF CmdPhase, L
<1>12. QED
  BY <1>2, <1>4, <1>11 DEF CmdInv, CmdOK

(* Every step of runcmd keeps it. *)
LEMMA CmdSteps == CmdInv /\ [MonitorNext]_routineVars => CmdInv'
<1>1. SUFFICES ASSUME CmdInv, [MonitorNext]_routineVars PROVE CmdInv'
  OBVIOUS
<1>2. job = "runcmd" /\ CmdOK(st)
  BY <1>1 DEF CmdInv
<1>3. ASSUME NEW s, Becomes(s), CmdOK(s) PROVE CmdInv'
  <2>1. st' = s /\ job' = job
    BY <1>3 DEF Becomes
  <2>2. CmdOK(st')
    BY <1>3, <2>1
  <2>3. QED
    BY <1>2, <2>1, <2>2 DEF CmdInv
<1>4. CASE NextWord
  <2>1. st.pc = "gobble" /\ Becomes(AfterWord(st))
    BY <1>4 DEF NextWord, At, AfterWord
  <2>2. QED
    BY <1>2, <1>3, <2>1, NextWordOK
<1>5. CASE LookupCommand
  <2>1. st.pc = "lookup" /\ Becomes(AfterLookup(st))
    BY <1>5 DEF LookupCommand, At, AfterLookup
  <2>2. QED
    BY <1>2, <1>3, <2>1, LookupOK
<1>6. CASE UNCHANGED routineVars
  BY <1>2, <1>6 DEF routineVars, CmdInv
<1>7. QED
  BY <1>1, <1>4, <1>5, <1>6 DEF MonitorNext

(* Whatever line is typed and however long, runcmd runs a command exactly  *)
(* when the first word of the line is its name and there are fewer than    *)
(* MAXARGS words, and passes it the words of the line.                     *)
THEOREM MonitorCorrect == MonitorSpec => []ArgvIsWords
<1>1. CmdInv => ArgvIsWords
  <2>1. SUFFICES ASSUME CmdInv, At("runcmd", "done")
                 PROVE  Outcome(st.line, st.ran, st.answer)
    BY DEF ArgvIsWords, Outcome
  <2>2. CmdPhase(st) /\ st.pc = "done"
    BY <2>1 DEF CmdInv, CmdOK, At
  <2>3. QED
    BY <2>2 DEF CmdPhase
<1>2. QED
  BY <1>1, CmdStarts, CmdSteps, PTL DEF MonitorSpec

------------------------------------------------------------------------------
(* vprintfmt and printnum of lib/printfmt.c.  The digits. *)
DigitChar == {HexDigit[d] : d \in 1 .. 16}

(* Sixteen different characters. *)
LEMMA HexDigits ==
  /\ \A i, j \in 1 .. 16 : HexDigit[i] = HexDigit[j] => i = j
  /\ HexDigit[1] = "0"
  /\ \A i \in 1 .. 16 : HexDigit[i] # "nul"
<1>1. HexDigit = <<"0", "1", "2", "3", "4", "5", "6", "7",
                   "8", "9", "a", "b", "c", "d", "e", "f">>
  BY DEF HexDigit
<1>2. ASSUME NEW i \in 1 .. 16, NEW j \in 1 .. 16, HexDigit[i] = HexDigit[j]
      PROVE  i = j
  BY <1>1, <1>2
<1>3. HexDigit[1] = "0"
  BY <1>1
<1>4. ASSUME NEW i \in 1 .. 16 PROVE HexDigit[i] # "nul"
  BY <1>1
<1>5. QED
  BY <1>2, <1>3, <1>4

(* The value of a digit. *)
LEMMA DigitValues ==
  /\ \A k \in 0 .. 15 : DigitValue(HexDigit[k + 1]) = k
  /\ \A c \in DigitChar : DigitValue(c) \in Nat
<1>1. ASSUME NEW k \in 0 .. 15 PROVE DigitValue(HexDigit[k + 1]) = k
  <2> DEFINE x == HexDigit[k + 1]
             d == CHOOSE j \in 0 .. 15 : HexDigit[j + 1] = x
  <2>1. DigitValue(x) = d
    BY DEF DigitValue
  <2>2. d \in 0 .. 15 /\ HexDigit[d + 1] = x
    <3> HIDE DEF x
    <3>1. \E j \in 0 .. 15 : HexDigit[j + 1] = x
      BY DEF x
    <3>2. QED
      BY <3>1
  <2> HIDE DEF d
  <2>3. d + 1 \in 1 .. 16 /\ k + 1 \in 1 .. 16
    BY <2>2
  <2>4. d + 1 = k + 1
    BY <2>2, <2>3, HexDigits
  <2>5. QED
    BY <2>1, <2>2, <2>4
<1>2. ASSUME NEW c \in DigitChar PROVE DigitValue(c) \in Nat
  <2>1. PICK d \in 1 .. 16 : c = HexDigit[d]
    BY DEF DigitChar
  <2>2. d - 1 \in 0 .. 15 /\ (d - 1) + 1 = d
    OBVIOUS
  <2>3. DigitValue(HexDigit[(d - 1) + 1]) = d - 1
    BY <1>1, <2>2
  <2>4. DigitValue(c) = d - 1
    BY <2>1, <2>2, <2>3
  <2>5. QED
    BY <2>2, <2>4
<1>3. QED
  BY <1>1, <1>2

(* v has the values of the first digits of ds. *)
Values(v, ds, base) ==
  /\ v \in [0 .. Len(ds) -> Nat] /\ v[0] = 0
  /\ \A k \in 1 .. Len(ds) : v[k] = v[k - 1] * base + DigitValue(ds[k])

(* The last is that of ds. *)
LEMMA ValueOfFacts ==
  ASSUME NEW ds \in Seq(DigitChar), NEW base \in Nat
  PROVE  \E v : Values(v, ds, base) /\ ValueOf(ds, base) = v[Len(ds)]
<1> DEFINE n == Len(ds)
           next(k, x) == x * base + DigitValue(ds[k])
           Is(v) == v = [k \in 0 .. n |->
                           IF k = 0 THEN 0 ELSE next(k, v[k - 1])]
           Step == [y \in (1 .. n) \X Nat |-> next(y[1], y[2])]
           w == CHOOSE v : Is(v)
<1>1. n \in Nat
  OBVIOUS
<1>2. \A k \in 1 .. n, x \in Nat : next(k, x) \in Nat
  <2>1. SUFFICES ASSUME NEW k \in 1 .. n, NEW x \in Nat
                 PROVE  next(k, x) \in Nat
    OBVIOUS
  <2>2. ds[k] \in DigitChar
    OBVIOUS
  <2>3. DigitValue(ds[k]) \in Nat
    BY <2>2, DigitValues
  <2>4. x * base \in Nat
    OBVIOUS
  <2>5. QED
    BY <2>3, <2>4
<1>3. ValueOf(ds, base) = w[n]
  BY DEF ValueOf
<1> HIDE DEF next
<1>4. Step \in Steps(n, Nat)
  BY <1>2 DEF Steps
<1>5. \A k \in 1 .. n, x \in Nat : Step[<<k, x>>] = next(k, x)
  OBVIOUS
<1> HIDE DEF Step, n
<1>6. PICK f : DefinedBy(f, 0, Step, n, Nat)
  BY <1>1, <1>4, RecursionUpTo
<1>7. /\ f \in [0 .. n -> Nat] /\ f[0] = 0
      /\ \A k \in 1 .. n : f[k] = next(k, f[k - 1])
  <2>1. /\ f \in [0 .. n -> Nat] /\ f[0] = 0
        /\ \A k \in 1 .. n : f[k] = Step[<<k, f[k - 1]>>]
    BY <1>6 DEF DefinedBy
  <2>2. \A k \in 1 .. n : f[k - 1] \in Nat
    BY <1>1, <2>1
  <2>3. QED
    BY <1>5, <2>1, <2>2
<1>8. Is(f)
  <2>1. ASSUME NEW k \in 0 .. n, k # 0 PROVE f[k] = next(k, f[k - 1])
    <3>1. k \in 1 .. n
      BY <1>1, <2>1
    <3>2. QED
      BY <1>7, <3>1
  <2>2. QED
    BY <1>7, <2>1
<1>9. Is(w)
  <2> HIDE DEF Is
  <2>1. QED
    BY <1>8
<1> HIDE DEF w
<1>10. w[0] = 0 /\ \A k \in 1 .. n : w[k] = next(k, w[k - 1])
  <2>1. 0 \in 0 .. n /\ \A k \in 1 .. n : k \in 0 .. n /\ k # 0
    BY <1>1
  <2>2. QED
    BY <1>9, <2>1
<1>11. w \in [0 .. n -> Nat]
  <2> DEFINE T == {k \in 0 .. n : w[k] \in Nat}
  <2>1. 0 \in T
    BY <1>1, <1>10
  <2>2. ASSUME NEW k \in 0 .. n - 1, k \in T PROVE k + 1 \in T
    <3>1. k + 1 \in 1 .. n /\ (k + 1) - 1 = k /\ k + 1 \in 0 .. n
      BY <1>1
    <3>2. w[k + 1] = next(k + 1, w[k])
      BY <1>10, <3>1
    <3>3. w[k + 1] \in Nat
      BY <1>2, <2>2, <3>1, <3>2
    <3>4. QED
      BY <3>1, <3>3
  <2>3. \A k \in 0 .. n : k \in T
    <3> HIDE DEF T
    <3>1. QED
      BY <1>1, <2>1, <2>2, UpTo
  <2>4. \A k \in 0 .. n : w[k] \in Nat
    BY <2>3
  <2>5. w = [k \in 0 .. n |-> w[k]]
    BY <1>9
  <2>6. QED
    BY <2>4, <2>5
<1>12. Values(w, ds, base)
  BY <1>10, <1>11 DEF Values, next, n
<1>13. QED
  BY <1>3, <1>12 DEF n

(* The value when there is one digit more. *)
LEMMA ValueAppend ==
  ASSUME NEW ds \in Seq(DigitChar), NEW base \in Nat, NEW c \in DigitChar
  PROVE  /\ ValueOf(ds, base) \in Nat
         /\ ValueOf(Append(ds, c), base) =
              ValueOf(ds, base) * base + DigitValue(c)
<1> DEFINE n == Len(ds)
           es == Append(ds, c)
<1>1. /\ n \in Nat /\ es \in Seq(DigitChar) /\ Len(es) = n + 1
      /\ \A k \in 1 .. n : es[k] = ds[k]
      /\ es[n + 1] = c
  BY AppendProperties
<1> HIDE DEF es
<1>2. PICK v : Values(v, ds, base) /\ ValueOf(ds, base) = v[n]
  BY ValueOfFacts
<1>3. PICK w : Values(w, es, base) /\ ValueOf(es, base) = w[Len(es)]
  BY <1>1, ValueOfFacts
<1>4. /\ v \in [0 .. n -> Nat] /\ v[0] = 0
      /\ \A k \in 1 .. n : v[k] = v[k - 1] * base + DigitValue(ds[k])
  BY <1>2 DEF Values
<1>5. /\ w \in [0 .. n + 1 -> Nat] /\ w[0] = 0
      /\ \A k \in 1 .. n + 1 : w[k] = w[k - 1] * base + DigitValue(es[k])
  BY <1>1, <1>3 DEF Values
<1> HIDE DEF n
<1> DEFINE T == {k \in 0 .. n : v[k] = w[k]}
<1>6. 0 \in T
  BY <1>1, <1>4, <1>5
<1>7. ASSUME NEW k \in 0 .. n - 1, k \in T PROVE k + 1 \in T
  <2>1. /\ k + 1 \in 1 .. n /\ k + 1 \in 1 .. n + 1 /\ (k + 1) - 1 = k
        /\ k + 1 \in 0 .. n
    BY <1>1
  <2>2. v[k + 1] = v[k] * base + DigitValue(ds[k + 1])
    BY <1>4, <2>1
  <2>3. w[k + 1] = w[k] * base + DigitValue(es[k + 1])
    BY <1>5, <2>1
  <2>4. v[k] = w[k] /\ es[k + 1] = ds[k + 1]
    BY <1>1, <1>7, <2>1
  <2>5. v[k + 1] = w[k + 1]
    BY <2>2, <2>3, <2>4
  <2>6. QED
    BY <2>1, <2>5
<1>8. n \in T
  <2>1. n \in 0 .. n
    BY <1>1
  <2> HIDE DEF T
  <2>2. QED
    BY <1>1, <1>6, <1>7, <2>1, UpTo
<1>9. /\ v[n] = w[n] /\ v[n] \in Nat /\ n + 1 \in 1 .. n + 1
      /\ (n + 1) - 1 = n
  BY <1>1, <1>4, <1>8
<1>10. w[n + 1] = w[n] * base + DigitValue(c)
  BY <1>1, <1>5, <1>9
<1>11. QED
  BY <1>1, <1>2, <1>3, <1>9, <1>10 DEF es

(* The value of one digit. *)
LEMMA ValueOne ==
  ASSUME NEW base \in Nat, NEW c \in DigitChar
  PROVE  ValueOf(<<c>>, base) = DigitValue(c)
<1> DEFINE e == <<>>
<1>1. e \in Seq(DigitChar) /\ Append(e, c) = <<c>> /\ Len(e) = 0
  OBVIOUS
<1> HIDE DEF e
<1>2. PICK v : Values(v, e, base) /\ ValueOf(e, base) = v[Len(e)]
  BY <1>1, ValueOfFacts
<1>3. ValueOf(e, base) = 0
  BY <1>1, <1>2 DEF Values
<1>4. ValueOf(Append(e, c), base) = 0 * base + DigitValue(c)
  BY <1>1, <1>3, ValueAppend
<1>5. DigitValue(c) \in Nat
  BY DigitValues
<1>6. QED
  BY <1>1, <1>4, <1>5

(* Division by the bases of vprintfmt. *)
LEMMA DivBase ==
  ASSUME NEW k \in Nat, NEW base \in {8, 10, 16}
  PROVE  /\ k \div base \in Nat /\ k % base \in 0 .. base - 1
         /\ k = (k \div base) * base + (k % base)
         /\ k >= base => 1 <= k \div base /\ k \div base < k
<1>1. CASE base = 8
  BY <1>1
<1>2. CASE base = 10
  BY <1>2
<1>3. CASE base = 16
  BY <1>3
<1>4. QED
  BY <1>1, <1>2, <1>3

(* The digits of k when f has those of the smaller numbers. *)
DigitsFrom(f, base, k) ==
  IF k < base THEN <<HexDigit[k + 1]>>
  ELSE Append(f[k \div base], HexDigit[(k % base) + 1])

(* A digit of a base is one of the sixteen. *)
LEMMA DigitOfBase ==
  ASSUME NEW base \in {8, 10, 16}, NEW k \in 0 .. base - 1
  PROVE  /\ HexDigit[k + 1] \in DigitChar
         /\ DigitValue(HexDigit[k + 1]) = k
         /\ k + 1 \in 1 .. base
         /\ k # 0 => HexDigit[k + 1] # "0"
<1>1. k \in 0 .. 15 /\ k + 1 \in 1 .. 16 /\ k + 1 \in 1 .. base
  OBVIOUS
<1>2. HexDigit[k + 1] \in DigitChar
  BY <1>1 DEF DigitChar
<1>3. DigitValue(HexDigit[k + 1]) = k
  BY <1>1, DigitValues
<1>4. ASSUME k # 0 PROVE HexDigit[k + 1] # "0"
  <2>1. 1 \in 1 .. 16 /\ k + 1 # 1
    BY <1>1, <1>4
  <2>2. QED
    BY <1>1, <2>1, HexDigits
<1>5. QED
  BY <1>1, <1>2, <1>3, <1>4

(* The digits of all the numbers up to n can be had. *)
LEMMA DigitsExist ==
  ASSUME NEW n \in Nat, NEW base \in {8, 10, 16}
  PROVE  \E f \in [0 .. n -> Seq(DigitChar)] :
           \A k \in 0 .. n : f[k] = DigitsFrom(f, base, k)
<1> DEFINE Ok(f, m) == /\ f \in [0 .. m -> Seq(DigitChar)]
                       /\ \A k \in 0 .. m : f[k] = DigitsFrom(f, base, k)
           T == {m \in 0 .. n : \E f : Ok(f, m)}
<1>1. 0 \in T
  <2> DEFINE f == [k \in 0 .. 0 |-> <<HexDigit[1]>>]
  <2>1. HexDigit[1] \in DigitChar
    BY DEF DigitChar
  <2>2. f \in [0 .. 0 -> Seq(DigitChar)]
    BY <2>1
  <2>3. 0 < base /\ 0 + 1 = 1
    OBVIOUS
  <2>4. \A k \in 0 .. 0 : f[k] = DigitsFrom(f, base, k)
    BY <2>3 DEF DigitsFrom
  <2> HIDE DEF f
  <2>5. Ok(f, 0)
    BY <2>2, <2>4
  <2> HIDE DEF Ok
  <2>6. QED
    BY <2>5
<1>2. ASSUME NEW m \in 0 .. n - 1, m \in T PROVE m + 1 \in T
  <2>1. PICK f : Ok(f, m)
    BY <1>2
  <2>2. /\ f \in [0 .. m -> Seq(DigitChar)]
        /\ \A k \in 0 .. m : f[k] = DigitsFrom(f, base, k)
    BY <2>1
  <2> DEFINE d == DigitsFrom(f, base, m + 1)
             g == [k \in 0 .. m + 1 |-> IF k = m + 1 THEN d ELSE f[k]]
  <2>3. \A k \in 0 .. m + 1 : k >= base => k \div base \in 0 .. m
    <3>1. SUFFICES ASSUME NEW k \in 0 .. m + 1, k >= base
                   PROVE  k \div base \in 0 .. m
      OBVIOUS
    <3>2. k \in Nat
      OBVIOUS
    <3>3. k \div base \in Nat /\ k \div base < k
      BY <3>1, <3>2, DivBase
    <3>4. QED
      BY <3>1, <3>3
  <2>4. d \in Seq(DigitChar)
    <3>1. m + 1 \in Nat /\ m + 1 \in 0 .. m + 1
      OBVIOUS
    <3>2. CASE m + 1 < base
      <4>1. m + 1 \in 0 .. base - 1
        BY <3>1, <3>2
      <4>2. HexDigit[(m + 1) + 1] \in DigitChar
        BY <4>1, DigitOfBase
      <4>3. QED
        BY <3>2, <4>2 DEF DigitsFrom
    <3>3. CASE ~(m + 1 < base)
      <4>1. (m + 1) % base \in 0 .. base - 1
        BY <3>1, DivBase
      <4>2. HexDigit[((m + 1) % base) + 1] \in DigitChar
        BY <4>1, DigitOfBase
      <4>3. (m + 1) \div base \in 0 .. m
        BY <2>3, <3>1, <3>3
      <4>4. f[(m + 1) \div base] \in Seq(DigitChar)
        BY <2>2, <4>3
      <4>5. d = Append(f[(m + 1) \div base], HexDigit[((m + 1) % base) + 1])
        BY <3>3 DEF DigitsFrom
      <4>6. ASSUME NEW x \in Seq(DigitChar), NEW c \in DigitChar
            PROVE  Append(x, c) \in Seq(DigitChar)
        OBVIOUS
      <4> HIDE DEF d
      <4>7. QED
        BY <4>2, <4>4, <4>5, <4>6
    <3>4. QED
      BY <3>2, <3>3
  <2> HIDE DEF d
  <2>5. g \in [0 .. m + 1 -> Seq(DigitChar)]
    BY <2>2, <2>4
  <2>6. g[m + 1] = d /\ \A k \in 0 .. m : g[k] = f[k]
    OBVIOUS
  <2> HIDE DEF g
  <2>7. ASSUME NEW k \in 0 .. m + 1
        PROVE  DigitsFrom(g, base, k) = DigitsFrom(f, base, k)
    <3>1. k >= base => g[k \div base] = f[k \div base]
      BY <2>3, <2>6
    <3>2. QED
      BY <3>1 DEF DigitsFrom
  <2>8. ASSUME NEW k \in 0 .. m + 1 PROVE g[k] = DigitsFrom(g, base, k)
    <3>1. CASE k = m + 1
      BY <2>6, <2>7, <3>1 DEF d
    <3>2. CASE k # m + 1
      <4>1. k \in 0 .. m
        BY <3>2
      <4>2. QED
        BY <2>2, <2>6, <2>7, <4>1
    <3>3. QED
      BY <3>1, <3>2
  <2>9. Ok(g, m + 1)
    BY <2>5, <2>8
  <2>10. m + 1 \in 0 .. n
    OBVIOUS
  <2> HIDE DEF Ok
  <2>11. QED
    BY <2>9, <2>10
<1>3. n \in T
  <2>1. n \in 0 .. n
    OBVIOUS
  <2> HIDE DEF T
  <2>2. QED
    BY <1>1, <1>2, <2>1, UpTo
<1>4. PICK f : Ok(f, n)
  BY <1>3
<1>5. QED
  BY <1>4

(* d are the digits of k. *)
AreDigits(d, k, base) ==
  /\ d \in Seq(DigitChar) /\ Len(d) >= 1
  /\ \A i \in 1 .. Len(d) : \E x \in 1 .. base : d[i] = HexDigit[x]
  /\ ValueOf(d, base) = k
  /\ k >= 1 => d[1] # "0"
  /\ k < base => Len(d) = 1

(* One digit, and one digit more. *)
LEMMA DigitsOne ==
  ASSUME NEW base \in {8, 10, 16}, NEW k \in 0 .. base - 1
  PROVE  AreDigits(<<HexDigit[k + 1]>>, k, base)
<1> DEFINE c == HexDigit[k + 1]
           d == <<c>>
<1>1. c \in DigitChar /\ DigitValue(c) = k /\ k + 1 \in 1 .. base
  BY DigitOfBase
<1>2. k >= 1 => c # "0"
  BY DigitOfBase
<1>3. base \in Nat
  OBVIOUS
<1>4. ValueOf(d, base) = k
  BY <1>1, <1>3, ValueOne
<1>5. \E x \in 1 .. base : c = HexDigit[x]
  BY <1>1
<1> HIDE DEF c
<1>6. d \in Seq(DigitChar) /\ Len(d) = 1 /\ d[1] = c
  BY <1>1
<1> HIDE DEF d
<1>7. \A i \in 1 .. Len(d) : d[i] = c
  BY <1>6
<1>8. QED
  BY <1>2, <1>4, <1>5, <1>6, <1>7 DEF AreDigits, d, c

(* A digit more, for a number that many times as large. *)
LEMMA DigitsMore ==
  ASSUME NEW base \in {8, 10, 16}, NEW k \in Nat, k >= base,
         NEW d, AreDigits(d, k \div base, base)
  PROVE  AreDigits(Append(d, HexDigit[(k % base) + 1]), k, base)
<1> DEFINE c == HexDigit[(k % base) + 1]
           e == Append(d, c)
           q == k \div base
           r == k % base
<1>1. /\ q \in Nat /\ r \in 0 .. base - 1 /\ k = q * base + r /\ 1 <= q
  BY DivBase
<1> HIDE DEF q
<1>2. c \in DigitChar /\ DigitValue(c) = r /\ r + 1 \in 1 .. base
  BY <1>1, DigitOfBase
<1>3. /\ d \in Seq(DigitChar) /\ Len(d) >= 1 /\ ValueOf(d, base) = q
      /\ d[1] # "0"
      /\ \A i \in 1 .. Len(d) : \E x \in 1 .. base : d[i] = HexDigit[x]
  BY <1>1 DEF AreDigits, q
<1>4. \E x \in 1 .. base : c = HexDigit[x]
  BY <1>2
<1> HIDE DEF c
<1>5. /\ e \in Seq(DigitChar) /\ Len(e) = Len(d) + 1
      /\ \A i \in 1 .. Len(d) : e[i] = d[i]
      /\ e[Len(d) + 1] = c
  BY <1>2, <1>3, AppendProperties
<1>6. base \in Nat
  OBVIOUS
<1>7. ValueOf(e, base) = ValueOf(d, base) * base + DigitValue(c)
  BY <1>2, <1>3, <1>6, ValueAppend
<1>8. ValueOf(e, base) = k
  BY <1>1, <1>2, <1>3, <1>7
<1> HIDE DEF e, r
<1>9. Len(d) \in Nat /\ Len(e) >= 1 /\ 1 \in 1 .. Len(d)
  BY <1>3, <1>5
<1>10. e[1] # "0"
  BY <1>3, <1>5, <1>9
<1>11. ASSUME NEW i \in 1 .. Len(e)
       PROVE  \E x \in 1 .. base : e[i] = HexDigit[x]
  <2>1. i \in 1 .. Len(d) \/ i = Len(d) + 1
    BY <1>5, <1>9
  <2>2. QED
    BY <1>3, <1>4, <1>5, <2>1
<1>12. ~(k < base)
  OBVIOUS
<1>13. AreDigits(e, k, base)
  BY <1>5, <1>8, <1>9, <1>10, <1>11, <1>12 DEF AreDigits
<1>14. QED
  BY <1>13 DEF e, c

(* Digits are the digits. *)
LEMMA DigitsRight ==
  ASSUME NEW num \in Nat, NEW base \in {8, 10, 16}
  PROVE  AreDigits(Digits(num, base), num, base)
<1> DEFINE from(f, k) == IF k < base THEN <<HexDigit[k + 1]>>
                         ELSE Append(f[k \div base], HexDigit[(k % base) + 1])
           Is(f) == f = [k \in 0 .. num |-> from(f, k)]
           w == CHOOSE f : Is(f)
<1>1. Digits(num, base) = w[num]
  BY DEF Digits
<1>2. \A f, k : from(f, k) = DigitsFrom(f, base, k)
  BY DEF DigitsFrom
<1> HIDE DEF from
<1>3. PICK f \in [0 .. num -> Seq(DigitChar)] :
        \A k \in 0 .. num : f[k] = DigitsFrom(f, base, k)
  BY DigitsExist
<1>4. Is(f)
  BY <1>2, <1>3
<1>5. Is(w)
  <2> HIDE DEF Is
  <2>1. QED
    BY <1>4
<1> HIDE DEF w
<1>6. \A k \in 0 .. num : w[k] = DigitsFrom(w, base, k)
  BY <1>2, <1>5
<1> DEFINE Wrong == {k \in 0 .. num : ~AreDigits(w[k], k, base)}
<1>7. ASSUME Wrong # {} PROVE FALSE
  <2>1. Wrong \in SUBSET Nat
    OBVIOUS
  <2>2. PICK k \in Wrong : \A x \in Wrong : k <= x
    BY <1>7, <2>1, LeastElement
  <2>3. k \in 0 .. num /\ k \in Nat /\ ~AreDigits(w[k], k, base)
    OBVIOUS
  <2>4. CASE k < base
    <3>1. k \in 0 .. base - 1
      BY <2>3, <2>4
    <3>2. w[k] = <<HexDigit[k + 1]>>
      BY <1>6, <2>3, <2>4 DEF DigitsFrom
    <3>3. QED
      BY <2>3, <3>1, <3>2, DigitsOne
  <2>5. CASE ~(k < base)
    <3>1. k >= base
      BY <2>3, <2>5
    <3>2. k \div base \in Nat /\ k \div base < k
      BY <2>3, <3>1, DivBase
    <3>3. k \div base \in 0 .. num /\ k \div base \notin Wrong
      BY <2>2, <2>3, <3>2
    <3>4. AreDigits(w[k \div base], k \div base, base)
      BY <3>3
    <3>5. w[k] = Append(w[k \div base], HexDigit[(k % base) + 1])
      BY <1>6, <2>3, <2>5 DEF DigitsFrom
    <3>6. QED
      BY <2>3, <3>1, <3>4, <3>5, DigitsMore
  <2>6. QED
    BY <2>4, <2>5
<1>8. num \in 0 .. num
  OBVIOUS
<1>9. AreDigits(w[num], num, base)
  BY <1>7, <1>8
<1>10. QED
  BY <1>1, <1>9

(* The padding. *)
LEMMA PadFacts ==
  ASSUME NEW c, NEW k \in Int
  PROVE  /\ Pad(c, k) \in Seq({c})
         /\ k > 0 => Len(Pad(c, k)) = k
         /\ k <= 0 => Len(Pad(c, k)) = 0
<1>1. CASE k > 0
  <2> DEFINE p == [i \in 1 .. k |-> c]
  <2>1. k \in Nat /\ p \in [1 .. k -> {c}]
    BY <1>1
  <2>2. p \in Seq({c}) /\ Len(p) = k
    BY <2>1, SeqDef
  <2>3. Pad(c, k) = p
    BY <1>1 DEF Pad
  <2>4. QED
    BY <1>1, <2>2, <2>3
<1>2. CASE ~(k > 0)
  <2>1. Pad(c, k) = <<>>
    BY <1>2 DEF Pad
  <2>2. QED
    BY <1>2, <2>1
<1>3. QED
  BY <1>1, <1>2

(* What follows the first part of a sequence is the second. *)
LEMMA SecondPart ==
  ASSUME NEW S, NEW p \in Seq(S), NEW d \in Seq(S)
  PROVE  /\ p \o d \in Seq(S) /\ Len(p \o d) = Len(p) + Len(d)
         /\ SubSeq(p \o d, Len(p) + 1, Len(p) + Len(d)) = d
<1> DEFINE t == p \o d
           a == Len(p)
           b == Len(d)
<1>1. /\ t \in Seq(S) /\ Len(t) = a + b /\ a \in Nat /\ b \in Nat
      /\ \A i \in 1 .. a + b : t[i] = IF i <= a THEN p[i] ELSE d[i - a]
  BY ConcatProperties
<1> DEFINE u == SubSeq(t, a + 1, a + b)
<1>2. u = [i \in 1 .. b |-> t[i + a]]
  <2>1. u = [i \in 1 .. (1 + (a + b) - (a + 1)) |-> t[i + (a + 1) - 1]]
    BY DEF SubSeq
  <2>2. 1 + (a + b) - (a + 1) = b /\ \A i \in 1 .. b : i + (a + 1) - 1 = i + a
    BY <1>1
  <2> HIDE DEF a, b, t, u
  <2>3. QED
    BY <2>1, <2>2
<1>3. d = [i \in 1 .. b |-> d[i]]
  OBVIOUS
<1> HIDE DEF t, u, a, b
<1>4. \A i \in 1 .. b : t[i + a] = d[i]
  <2>1. \A i \in 1 .. b : i + a \in 1 .. a + b /\ ~(i + a <= a) /\ (i + a) - a = i
    BY <1>1
  <2>2. QED
    BY <1>1, <2>1
<1>5. u = d
  BY <1>2, <1>3, <1>4
<1>6. QED
  BY <1>1, <1>5 DEF t, u, a, b

(* printnum prints every number right, in the three bases, whatever width. *)
THEOREM PrintnumRight ==
  ASSUME NEW v \in Nat, NEW base \in {8, 10, 16}, NEW width \in Int, NEW padc
  PROVE  NumberRight([value |-> v, base |-> base, width |-> width,
                      text |-> printnum(v, base, width, padc)])
<1> DEFINE d == Digits(v, base)
           p == Pad(padc, width - Len(d))
           t == p \o d
           num == [value |-> v, base |-> base, width |-> width,
                   text |-> printnum(v, base, width, padc)]
           S == DigitChar \cup {padc}
<1>1. AreDigits(d, v, base)
  BY DigitsRight
<1>2. num.text = t /\ num.value = v /\ num.base = base /\ num.width = width
  BY DEF printnum
<1> HIDE DEF d, num
<1>3. /\ d \in Seq(DigitChar) /\ Len(d) >= 1 /\ Len(d) \in Nat
      /\ \A i \in 1 .. Len(d) : \E x \in 1 .. base : d[i] = HexDigit[x]
      /\ ValueOf(d, base) = v
      /\ v >= 1 => d[1] # "0"
      /\ v < base => Len(d) = 1
  BY <1>1 DEF AreDigits
<1>4. d \in Seq(S)
  BY <1>3
<1>5. width - Len(d) \in Int
  BY <1>3
<1>6. /\ p \in Seq({padc}) /\ Len(p) \in Nat
      /\ Len(p) = 0 \/ Len(p) = width - Len(d)
  <2>1. p \in Seq({padc})
    BY <1>5, PadFacts
  <2>2. Len(p) \in Nat
    BY <2>1
  <2>3. width - Len(d) > 0 \/ width - Len(d) <= 0
    BY <1>5
  <2>4. Len(p) = 0 \/ Len(p) = width - Len(d)
    BY <1>5, <2>3, PadFacts
  <2>5. QED
    BY <2>1, <2>2, <2>4
<1> HIDE DEF p
<1>7. p \in Seq(S)
  BY <1>6
<1> HIDE DEF S
<1>8. /\ Len(t) = Len(p) + Len(d)
      /\ SubSeq(t, Len(p) + 1, Len(p) + Len(d)) = d
  BY <1>4, <1>7, SecondPart
<1> HIDE DEF t
<1>9. SubSeq(num.text, Len(p) + 1, Len(num.text)) = d
  BY <1>2, <1>8
<1>10. Len(p) \in 0 .. Len(num.text) - 1
  BY <1>2, <1>3, <1>6, <1>8
<1>11. Len(p) = 0 \/ Len(num.text) = num.width
  BY <1>2, <1>3, <1>6, <1>8
<1>12. DOMAIN d = 1 .. Len(d)
  BY <1>3
<1>13. \A i \in DOMAIN d : \E x \in 1 .. num.base : d[i] = HexDigit[x]
  BY <1>2, <1>3, <1>12
<1>14. Len(d) > 1 => d[1] # "0"
  <2>1. Len(d) > 1 => ~(v < base)
    BY <1>3
  <2>2. ~(v < base) => v >= 1
    OBVIOUS
  <2>3. QED
    BY <1>3, <2>1, <2>2
<1>15. ValueOf(d, num.base) = num.value
  BY <1>2, <1>3
<1>16. NumberRight(num)
  BY <1>9, <1>10, <1>11, <1>13, <1>14, <1>15 DEF NumberRight
<1>17. QED
  BY <1>16 DEF num

------------------------------------------------------------------------------
(* A sequence, of anything. *)
IsSeq(q) ==
  /\ Len(q) \in Nat /\ DOMAIN q = 1 .. Len(q)
  /\ q = [k \in 1 .. Len(q) |-> q[k]]

(* Two sequences are of elements of one set. *)
LEMMA OneSet ==
  ASSUME NEW p, NEW q, IsSeq(p), IsSeq(q), NEW c
  PROVE  \E S : p \in Seq(S) /\ q \in Seq(S) /\ c \in S
<1> DEFINE S == {p[k] : k \in 1 .. Len(p)} \cup {q[k] : k \in 1 .. Len(q)}
                \cup {c}
<1>1. \A k \in 1 .. Len(p) : p[k] \in S
  OBVIOUS
<1>2. \A k \in 1 .. Len(q) : q[k] \in S
  OBVIOUS
<1>3. c \in S
  OBVIOUS
<1> HIDE DEF S
<1>4. p \in [1 .. Len(p) -> S] /\ q \in [1 .. Len(q) -> S]
  BY <1>1, <1>2 DEF IsSeq
<1>5. p \in Seq(S) /\ q \in Seq(S)
  BY <1>4, SeqDef DEF IsSeq
<1>6. QED
  BY <1>3, <1>5

(* The members of Seq are sequences. *)
LEMMA SeqIsSeq ==
  ASSUME NEW S, NEW q \in Seq(S)
  PROVE  IsSeq(q)
<1>1. Len(q) \in Nat /\ DOMAIN q = 1 .. Len(q) /\ q \in [1 .. Len(q) -> S]
  BY LenProperties
<1>2. q = [k \in 1 .. Len(q) |-> q[k]]
  BY <1>1
<1>3. QED
  BY <1>1, <1>2 DEF IsSeq

(* One element more. *)
LEMMA AppendFacts ==
  ASSUME NEW p, NEW q, IsSeq(p), IsSeq(q), NEW c
  PROVE  /\ IsSeq(Append(p, c)) /\ IsSeq(p \o q)
         /\ Len(Append(p, c)) = Len(p) + 1
         /\ p \o Append(q, c) = Append(p \o q, c)
         /\ p \o <<>> = p
         /\ \A k \in 0 .. Len(p) :
              SubSeq(Append(p, c), 1, k) = SubSeq(p, 1, k)
         /\ SubSeq(p, 1, Len(p)) = p
<1>1. PICK S : p \in Seq(S) /\ q \in Seq(S) /\ c \in S
  BY OneSet
<1>2. Append(p, c) \in Seq(S) /\ p \o q \in Seq(S)
  BY <1>1
<1>3. IsSeq(Append(p, c)) /\ IsSeq(p \o q)
  BY <1>2, SeqIsSeq
<1>4. Len(Append(p, c)) = Len(p) + 1
  BY <1>1
<1>5. p \o <<>> = p
  BY <1>1
<1>6. p \o Append(q, c) = Append(p \o q, c)
  <2> DEFINE e == Append(q, c)
             l == p \o e
             r == Append(p \o q, c)
             a == Len(p)
             b == Len(q)
  <2>1. e \in Seq(S) /\ a \in Nat /\ b \in Nat /\ Len(e) = b + 1
    BY <1>1, AppendProperties
  <2>2. /\ l \in Seq(S) /\ Len(l) = a + (b + 1)
        /\ \A i \in 1 .. a + (b + 1) :
             l[i] = IF i <= a THEN p[i] ELSE e[i - a]
    <3> HIDE DEF e
    <3>1. l \in Seq(S) /\ Len(l) = Len(p) + Len(e)
      BY <1>1, <2>1, ConcatProperties
    <3>2. \A i \in 1 .. Len(p) + Len(e) :
            l[i] = IF i <= Len(p) THEN p[i] ELSE e[i - Len(p)]
      BY <1>1, <2>1, ConcatProperties
    <3>3. QED
      BY <2>1, <3>1, <3>2
  <2>3. /\ Len(p \o q) = a + b
        /\ \A i \in 1 .. a + b : (p \o q)[i] = IF i <= a THEN p[i] ELSE q[i - a]
    BY <1>1, ConcatProperties
  <2>4. /\ r \in Seq(S) /\ Len(r) = (a + b) + 1
        /\ \A i \in 1 .. a + b : r[i] = (p \o q)[i]
        /\ r[(a + b) + 1] = c
    BY <1>1, <1>2, <2>3, AppendProperties
  <2>5. /\ \A i \in 1 .. b : e[i] = q[i]
        /\ e[b + 1] = c
    BY <1>1, AppendProperties
  <2> HIDE DEF l, r, a, b, e
  <2>6. ASSUME NEW i \in 1 .. a + (b + 1) PROVE l[i] = r[i]
    <3>1. CASE i <= a
      <4>1. i \in 1 .. a + b
        BY <2>1, <3>1
      <4>2. QED
        BY <2>2, <2>3, <2>4, <3>1, <4>1
    <3>2. CASE ~(i <= a) /\ i <= a + b
      <4>1. i \in 1 .. a + b /\ i - a \in 1 .. b
        BY <2>1, <3>2
      <4>2. QED
        BY <2>2, <2>3, <2>4, <2>5, <3>2, <4>1
    <3>3. CASE i = a + b + 1
      <4>1. ~(i <= a) /\ i - a = b + 1 /\ (a + b) + 1 = i
        BY <2>1, <3>3
      <4>2. QED
        BY <2>2, <2>4, <2>5, <4>1
    <3>4. QED
      BY <2>1, <3>1, <3>2, <3>3
  <2>7. Len(l) = Len(r) /\ Len(l) = a + (b + 1)
    BY <2>1, <2>2, <2>4
  <2>8. l = r
    BY <2>2, <2>4, <2>6, <2>7, SeqEqual
  <2>9. QED
    BY <2>8 DEF l, r, e
<1>7. ASSUME NEW k \in 0 .. Len(p)
      PROVE  SubSeq(Append(p, c), 1, k) = SubSeq(p, 1, k)
  <2> DEFINE e == Append(p, c)
  <2>1. \A i \in 1 .. Len(p) : e[i] = p[i]
    BY <1>1, AppendProperties
  <2>2. Len(p) \in Nat
    BY <1>1
  <2> HIDE DEF e
  <2>3. \A i \in 1 .. k : i \in 1 .. Len(p)
    BY <2>2
  <2>4. SubSeq(e, 1, k) = [i \in 1 .. k |-> e[i]]
    BY <2>2 DEF SubSeq
  <2>5. SubSeq(p, 1, k) = [i \in 1 .. k |-> p[i]]
    BY <2>2 DEF SubSeq
  <2>6. SubSeq(e, 1, k) = SubSeq(p, 1, k)
    BY <2>1, <2>3, <2>4, <2>5
  <2>7. QED
    BY <2>6 DEF e
<1>8. SubSeq(p, 1, Len(p)) = p
  BY <1>1
<1>9. QED
  BY <1>3, <1>4, <1>5, <1>6, <1>7, <1>8

(* What is appended to a part is appended to the whole. *)
LEMMA ConcatAppend ==
  ASSUME NEW p, NEW q, IsSeq(p), IsSeq(q), NEW c
  PROVE  p \o Append(q, c) = Append(p \o q, c)
BY AppendFacts

------------------------------------------------------------------------------
(* The inductive invariant of what arrives: what is on its way. *)
PrintFields ==
  {"pc", "fmt", "args", "i", "sink", "n", "buf", "cnt", "todo", "sent",
   "flushed", "out", "padc", "width", "precision", "lflag", "altflag", "num",
   "ret"}

(* What snprintf has room for. *)
Room(s) == IF Len(s.out) < s.n THEN Len(s.out) ELSE s.n - 1

Carried(s) ==
  /\ s.sink \in Sink /\ s.n \in Int
  /\ IsSeq(s.out) /\ IsSeq(s.sent) /\ IsSeq(s.buf)
  /\ s.sink = "kernel" => s.sent = s.out
  /\ s.sink = "user" => /\ s.sent \o s.buf = s.out
                        /\ Len(s.buf) < BufLen - 1 /\ s.cnt = Len(s.out)
                        /\ s.flushed \in Nat /\ s.flushed < BufLen
  /\ s.sink = "snprintf" => /\ s.n >= 1 /\ s.cnt = Len(s.out)
                            /\ s.buf = SubSeq(s.out, 1, Room(s))

(* t has the same on its way as s. *)
Kept(s, t) ==
  /\ DOMAIN t = DOMAIN s
  /\ t.sink = s.sink /\ t.n = s.n /\ t.out = s.out /\ t.sent = s.sent
  /\ t.buf = s.buf /\ t.cnt = s.cnt /\ t.flushed = s.flushed

(* The arguments and the format are kept, and what was made of them. *)
FormatKept(s, t) ==
  /\ DOMAIN t = DOMAIN s
  /\ t.pc = s.pc /\ t.fmt = s.fmt /\ t.i = s.i /\ t.width = s.width
  /\ t.num = s.num

DeliverOK(s) ==
  /\ DOMAIN s = PrintFields
  /\ s.pc \in {"call", "text", "escape", "done"}
  /\ s.sink \in Sink /\ s.n \in Int
  /\ s.pc = "call" => /\ s.out = <<>> /\ s.sent = <<>> /\ s.buf = <<>>
                      /\ s.cnt = 0 /\ s.flushed = 0
  /\ s.pc \in {"text", "escape"} => Carried(s)
  /\ s.pc = "done" => Delivered(s)

DeliverInv == job = "printf" /\ DeliverOK(st)

(* Only the fields that Kept names matter to what is on its way. *)
LEMMA KeptCarried ==
  ASSUME NEW s, NEW t, Kept(s, t), Carried(s)
  PROVE  Carried(t)
BY DEF Kept, Carried, Room

(* sprintputch *)
LEMMA SnprintfPutch ==
  ASSUME NEW s, DOMAIN s = PrintFields, Carried(s), NEW c,
         s.sink = "snprintf"
  PROVE  Carried(putch(s, c)) /\ FormatKept(s, putch(s, c))
<1> DEFINE o == Append(s.out, c)
           f == IF Len(s.buf) < s.n - 1 THEN Append(s.buf, c) ELSE s.buf
           t == putch(s, c)
<1>1. /\ t.out = o /\ t.buf = f /\ t.cnt = s.cnt + 1 /\ t.n = s.n
      /\ t.sent = s.sent /\ t.sink = s.sink
  BY DEF putch, sprintputch, PrintFields
<1>2. FormatKept(s, t)
  BY DEF putch, sprintputch, PrintFields, FormatKept
<1> HIDE DEF t
<1>3. /\ s.n \in Int /\ s.n >= 1 /\ s.cnt = Len(s.out)
      /\ s.buf = SubSeq(s.out, 1, Room(s)) /\ s.sink \in Sink
      /\ IsSeq(s.out) /\ IsSeq(s.buf) /\ IsSeq(s.sent)
  BY DEF Carried
<1> DEFINE l == Len(s.out)
<1>4. /\ IsSeq(o) /\ IsSeq(f) /\ Len(o) = l + 1 /\ l \in Nat
      /\ SubSeq(s.out, 1, l) = s.out /\ SubSeq(o, 1, l + 1) = o
      /\ \A k \in 0 .. l : SubSeq(o, 1, k) = SubSeq(s.out, 1, k)
  <2>1. IsSeq(o) /\ Len(o) = l + 1 /\ SubSeq(s.out, 1, l) = s.out
    BY <1>3, AppendFacts
  <2>2. \A k \in 0 .. l : SubSeq(o, 1, k) = SubSeq(s.out, 1, k)
    BY <1>3, AppendFacts
  <2>3. IsSeq(Append(s.buf, c))
    BY <1>3, AppendFacts
  <2>4. IsSeq(f)
    BY <1>3, <2>3
  <2>5. l \in Nat
    BY <1>3 DEF IsSeq
  <2>6. SubSeq(o, 1, Len(o)) = o
    <3> HIDE DEF o
    <3>1. QED
      BY <2>1, AppendFacts
  <2>7. QED
    BY <2>1, <2>2, <2>4, <2>5, <2>6
<1>5. f = SubSeq(o, 1, IF l + 1 < s.n THEN l + 1 ELSE s.n - 1)
  <2>1. CASE l + 1 < s.n
    <3>1. Room(s) = l /\ s.buf = s.out
      BY <1>3, <1>4, <2>1 DEF Room
    <3>2. Len(s.buf) < s.n - 1
      BY <1>3, <1>4, <2>1, <3>1
    <3>3. f = o
      BY <3>1, <3>2
    <3>4. QED
      BY <1>4, <2>1, <3>3
  <2>2. CASE ~(l + 1 < s.n)
    <3>1. Room(s) = s.n - 1 /\ s.n - 1 \in 0 .. l
      BY <1>3, <1>4, <2>2 DEF Room
    <3>2. s.buf = SubSeq(o, 1, s.n - 1)
      BY <1>3, <1>4, <3>1
    <3>3. Len(s.buf) = s.n - 1
      <4>1. PICK S : s.out \in Seq(S)
        BY <1>3, OneSet
      <4>2. Len(SubSeq(s.out, 1, s.n - 1)) = s.n - 1
        BY <3>1, <4>1
      <4>3. QED
        BY <1>3, <3>1, <4>2
    <3>4. f = s.buf
      <4>1. ASSUME NEW x \in Nat, NEW y \in Int, x = y - 1
            PROVE  ~(x < y - 1)
        BY <4>1
      <4>2. Len(s.buf) \in Nat /\ s.n \in Int
        BY <1>3 DEF IsSeq
      <4>3. ~(Len(s.buf) < s.n - 1)
        BY <3>3, <4>1, <4>2
      <4>4. QED
        BY <4>3, Zenon
    <3>5. QED
      BY <2>2, <3>2, <3>4
  <2>3. QED
    BY <2>1, <2>2
<1>6. Room(t) = IF l + 1 < s.n THEN l + 1 ELSE s.n - 1
  BY <1>1, <1>4 DEF Room
<1> HIDE DEF o, f, l
<1>7. /\ t.cnt = Len(t.out) /\ t.buf = SubSeq(t.out, 1, Room(t))
      /\ t.sink = "snprintf" /\ t.n >= 1
  BY <1>1, <1>3, <1>4, <1>5, <1>6 DEF l
<1>8. Carried(t)
  BY <1>1, <1>3, <1>4, <1>7 DEF Carried
<1>9. QED
  BY <1>2, <1>8 DEF t

(* putch of the kernel *)
LEMMA KernelPutchKeeps ==
  ASSUME NEW s, DOMAIN s = PrintFields, Carried(s), NEW c, s.sink = "kernel"
  PROVE  Carried(putch(s, c)) /\ FormatKept(s, putch(s, c))
<1> DEFINE t == putch(s, c)
<1>1. /\ t.out = Append(s.out, c) /\ t.sent = Append(s.sent, c)
      /\ t.buf = s.buf /\ t.n = s.n /\ t.sink = "kernel"
  BY DEF putch, KernelPutch, PrintFields
<1>2. FormatKept(s, t)
  BY DEF putch, KernelPutch, PrintFields, FormatKept
<1> HIDE DEF t
<1>3. /\ s.n \in Int /\ s.sent = s.out /\ IsSeq(s.out) /\ IsSeq(s.buf)
      /\ s.sink \in Sink
  BY DEF Carried
<1>4. IsSeq(Append(s.out, c))
  BY <1>3, AppendFacts
<1>5. Carried(t)
  BY <1>1, <1>3, <1>4 DEF Carried
<1>6. QED
  BY <1>2, <1>5 DEF t

(* putch of a user program *)
LEMMA UserPutchKeeps ==
  ASSUME NEW s, DOMAIN s = PrintFields, Carried(s), NEW c, s.sink = "user"
  PROVE  Carried(putch(s, c)) /\ FormatKept(s, putch(s, c))
<1> DEFINE t == putch(s, c)
           o == Append(s.out, c)
           f == Append(s.buf, c)
<1>1. /\ s.n \in Int /\ IsSeq(s.out) /\ IsSeq(s.sent) /\ IsSeq(s.buf)
      /\ s.sent \o s.buf = s.out /\ Len(s.buf) < BufLen - 1
      /\ s.cnt = Len(s.out) /\ s.flushed \in Nat /\ s.flushed < BufLen
      /\ BufLen \in Nat /\ BufLen >= 2
  BY PrintAssumption DEF Carried
<1>2. /\ IsSeq(o) /\ IsSeq(f) /\ Len(o) = Len(s.out) + 1
      /\ Len(f) = Len(s.buf) + 1 /\ Len(s.buf) \in Nat
      /\ IsSeq(s.sent \o f) /\ s.sent \o f = o
      /\ (s.sent \o f) \o <<>> = s.sent \o f
  <2>1. IsSeq(o) /\ Len(o) = Len(s.out) + 1
    BY <1>1, AppendFacts
  <2>2. IsSeq(f) /\ Len(f) = Len(s.buf) + 1
    BY <1>1, AppendFacts
  <2>3. s.sent \o f = Append(s.sent \o s.buf, c)
    <3> DEFINE p == s.sent
               q == s.buf
    <3>1. IsSeq(p) /\ IsSeq(q)
      BY <1>1
    <3> HIDE DEF p, q
    <3>2. p \o Append(q, c) = Append(p \o q, c)
      BY <3>1, ConcatAppend
    <3>3. QED
      BY <3>2 DEF p, q
  <2>4. s.sent \o f = o
    BY <1>1, <2>3
  <2>5. o \o <<>> = o
    <3> HIDE DEF o
    <3>1. QED
      BY <2>1, AppendFacts
  <2>6. Len(s.buf) \in Nat
    BY <1>1 DEF IsSeq
  <2> HIDE DEF o, f
  <2>7. QED
    BY <2>1, <2>2, <2>4, <2>5, <2>6
<1>3. CASE Len(f) = BufLen - 1
  <2>1. /\ t.out = o /\ t.cnt = s.cnt + 1 /\ t.sent = s.sent \o f
        /\ t.buf = <<>> /\ t.flushed = Len(f) /\ t.sink = "user" /\ t.n = s.n
    BY <1>3 DEF putch, UserPutch, Flush, PrintFields
  <2>2. FormatKept(s, t)
    BY <1>3 DEF putch, UserPutch, Flush, PrintFields, FormatKept
  <2> HIDE DEF t, o, f
  <2>3. IsSeq(<<>>) /\ Len(<<>>) = 0
    BY DEF IsSeq
  <2>4. t.flushed \in Nat /\ t.flushed < BufLen
    BY <1>1, <1>2, <1>3, <2>1
  <2>5. t.cnt = Len(t.out) /\ t.sent \o t.buf = t.out
    BY <1>1, <1>2, <2>1
  <2>6. Len(t.buf) < BufLen - 1
    BY <1>1, <2>1, <2>3
  <2>7. IsSeq(t.out) /\ IsSeq(t.sent) /\ IsSeq(t.buf) /\ t.n \in Int
    BY <1>1, <1>2, <2>1, <2>3
  <2>8. Carried(t)
    BY <2>1, <2>4, <2>5, <2>6, <2>7 DEF Carried, Sink
  <2>9. QED
    BY <2>2, <2>8 DEF t
<1>4. CASE Len(f) # BufLen - 1
  <2>1. /\ t.out = o /\ t.cnt = s.cnt + 1 /\ t.sent = s.sent
        /\ t.buf = f /\ t.flushed = s.flushed /\ t.sink = "user" /\ t.n = s.n
    BY <1>4 DEF putch, UserPutch, PrintFields
  <2>2. FormatKept(s, t)
    BY <1>4 DEF putch, UserPutch, PrintFields, FormatKept
  <2> HIDE DEF t, o, f
  <2>3. Len(t.buf) < BufLen - 1
    BY <1>1, <1>2, <1>4, <2>1
  <2>4. t.cnt = Len(t.out) /\ t.sent \o t.buf = t.out
    BY <1>1, <1>2, <2>1
  <2>5. IsSeq(t.out) /\ IsSeq(t.sent) /\ IsSeq(t.buf) /\ t.n \in Int
    BY <1>1, <1>2, <2>1
  <2>6. Carried(t)
    BY <1>1, <2>1, <2>3, <2>4, <2>5 DEF Carried, Sink
  <2>7. QED
    BY <2>2, <2>6 DEF t
<1>5. QED
  BY <1>3, <1>4

(* putch, whichever it is. *)
LEMMA PutchKeeps ==
  ASSUME NEW s, DOMAIN s = PrintFields, Carried(s), NEW c
  PROVE  Carried(putch(s, c)) /\ FormatKept(s, putch(s, c))
<1>1. s.sink \in {"snprintf", "kernel", "user"}
  BY DEF Carried, Sink
<1>2. QED
  BY <1>1, SnprintfPutch, KernelPutchKeeps, UserPutchKeeps

(* What has not all arrived is within the buffers. *)
LEMMA CarriedFits ==
  ASSUME NEW s, Carried(s), s.pc # "done"
  PROVE  Delivered(s)
<1>1. CASE s.sink = "snprintf"
  <2>1. /\ s.n \in Int /\ s.n >= 1 /\ s.buf = SubSeq(s.out, 1, Room(s))
        /\ IsSeq(s.out)
    BY <1>1 DEF Carried
  <2>2. PICK S : s.out \in Seq(S)
    BY <2>1, OneSet
  <2>3. Room(s) \in 0 .. Len(s.out) /\ Room(s) < s.n
    BY <2>1, <2>2 DEF Room
  <2>4. Len(s.buf) = Room(s)
    BY <2>1, <2>2, <2>3
  <2>5. Len(s.buf) <= s.n
    BY <2>1, <2>2, <2>3, <2>4
  <2>6. QED
    BY <1>1, <2>5 DEF Delivered
<1>2. CASE s.sink = "user"
  <2>1. /\ s.flushed < BufLen /\ Len(s.buf) < BufLen - 1 /\ IsSeq(s.buf)
        /\ BufLen \in Nat
    BY <1>2, PrintAssumption DEF Carried
  <2>2. Len(s.buf) < BufLen
    BY <2>1 DEF IsSeq
  <2>3. QED
    BY <1>2, <2>1, <2>2 DEF Delivered
<1>3. CASE s.sink = "kernel"
  BY <1>3 DEF Delivered
<1>4. QED
  BY <1>1, <1>2, <1>3 DEF Carried, Sink

(* The end of vprintfmt, with what is left. *)
Ended(s) ==
  LET t == [s EXCEPT !.pc = "done", !.ret = s.cnt]
  IN  CASE s.sink = "snprintf" -> [t EXCEPT !.buf = Append(@, "nul")]
        [] s.sink = "user" -> Flush(t)
        [] s.sink = "kernel" -> t

(* The end delivers what is left. *)
LEMMA EndDelivers ==
  ASSUME NEW s, DOMAIN s = PrintFields, Carried(s)
  PROVE  DeliverOK(Ended(s))
<1> DEFINE t == Ended(s)
<1>1. CASE s.sink = "snprintf"
  <2>1. /\ DOMAIN t = PrintFields /\ t.pc = "done" /\ t.ret = s.cnt
        /\ t.buf = Append(s.buf, "nul") /\ t.out = s.out /\ t.n = s.n
        /\ t.sink = "snprintf"
    BY <1>1 DEF Ended, PrintFields
  <2> HIDE DEF t
  <2>2. /\ s.n \in Int /\ s.n >= 1 /\ s.cnt = Len(s.out)
        /\ s.buf = SubSeq(s.out, 1, Room(s)) /\ IsSeq(s.out) /\ IsSeq(s.buf)
    BY <1>1 DEF Carried
  <2>3. PICK S : s.out \in Seq(S)
    BY <2>2, OneSet
  <2>4. Room(s) \in 0 .. Len(s.out) /\ Room(s) < s.n
    BY <2>2, <2>3 DEF Room
  <2>5. Len(s.buf) = Room(s)
    BY <2>2, <2>3, <2>4
  <2>6. Len(Append(s.buf, "nul")) = Len(s.buf) + 1
    BY <2>2, AppendFacts
  <2>7. Len(t.buf) <= t.n
    BY <2>1, <2>2, <2>3, <2>4, <2>5, <2>6
  <2>8. t.buf = Append(SubSeq(t.out, 1, Room(t)), "nul")
    BY <2>1, <2>2 DEF Room
  <2>9. t.ret = Len(t.out) /\ t.n >= 1 /\ t.n \in Int
    BY <2>1, <2>2
  <2>10. Delivered(t)
    <3> DEFINE A == LET len == IF Len(t.out) < t.n THEN Len(t.out) ELSE t.n - 1
                    IN  /\ t.buf = Append(SubSeq(t.out, 1, len), "nul")
                        /\ t.ret = Len(t.out)
    <3>1. A
      BY <2>8, <2>9, Zenon DEF Room
    <3>2. /\ t.sink = "snprintf" /\ ~(t.n < 1) /\ t.sink # "user"
          /\ t.sink # "kernel"
      BY <2>1, <2>9
    <3>3. QED
      BY <2>7, <3>1, <3>2, Zenon DEF Delivered
  <2>11. QED
    BY <2>1, <2>9, <2>10 DEF DeliverOK, Sink, t
<1>2. CASE s.sink = "user"
  <2>1. /\ DOMAIN t = PrintFields /\ t.pc = "done" /\ t.ret = s.cnt
        /\ t.buf = <<>> /\ t.out = s.out /\ t.n = s.n /\ t.sink = "user"
        /\ t.sent = s.sent \o s.buf /\ t.flushed = Len(s.buf)
    BY <1>2 DEF Ended, Flush, PrintFields
  <2> HIDE DEF t
  <2>2. /\ s.n \in Int /\ s.cnt = Len(s.out) /\ s.sent \o s.buf = s.out
        /\ Len(s.buf) < BufLen - 1 /\ IsSeq(s.buf) /\ BufLen \in Nat
        /\ BufLen >= 2
    BY <1>2, PrintAssumption DEF Carried
  <2>3. t.flushed < BufLen
    BY <2>1, <2>2 DEF IsSeq
  <2>4. Len(t.buf) = 0
    BY <2>1
  <2>5. Len(t.buf) < BufLen
    BY <2>2, <2>4
  <2>6. t.sent = t.out /\ t.ret = Len(t.out)
    BY <2>1, <2>2
  <2>7. Delivered(t)
    BY <2>1, <2>3, <2>5, <2>6 DEF Delivered
  <2>8. QED
    BY <2>1, <2>2, <2>7 DEF DeliverOK, Sink, t
<1>3. CASE s.sink = "kernel"
  <2>1. /\ DOMAIN t = PrintFields /\ t.pc = "done" /\ t.out = s.out
        /\ t.n = s.n /\ t.sink = "kernel" /\ t.sent = s.sent
    BY <1>3 DEF Ended, PrintFields
  <2> HIDE DEF t
  <2>2. s.n \in Int /\ s.sent = s.out
    BY <1>3 DEF Carried
  <2>3. Delivered(t)
    BY <2>1, <2>2 DEF Delivered
  <2>4. QED
    BY <2>1, <2>2, <2>3 DEF DeliverOK, Sink, t
<1>4. QED
  BY <1>1, <1>2, <1>3 DEF Carried, Sink

(* The start, and n = 0. *)
LEMMA StartDelivers ==
  ASSUME NEW s, DeliverOK(s), s.pc = "call"
  PROVE  DeliverOK(IF s.sink = "snprintf" /\ s.n < 1
                   THEN [s EXCEPT !.pc = "done", !.ret = -3]
                   ELSE [s EXCEPT !.pc = "text"])
<1>1. /\ DOMAIN s = PrintFields /\ s.sink \in Sink /\ s.n \in Int
      /\ s.out = <<>> /\ s.sent = <<>> /\ s.buf = <<>>
      /\ s.cnt = 0 /\ s.flushed = 0
  BY DEF DeliverOK
<1>2. CASE s.sink = "snprintf" /\ s.n < 1
  <2> DEFINE t == [s EXCEPT !.pc = "done", !.ret = -3]
  <2>1. /\ DOMAIN t = PrintFields /\ t.pc = "done" /\ t.ret = -3
        /\ t.out = <<>> /\ t.n = s.n /\ t.sink = s.sink
    BY <1>1 DEF PrintFields
  <2> HIDE DEF t
  <2>2. ~(t.n >= 1) /\ t.n < 1 /\ t.ret < 0 /\ t.sink = "snprintf"
    BY <1>1, <1>2, <2>1
  <2>3. Delivered(t)
    BY <2>1, <2>2 DEF Delivered
  <2>4. DeliverOK(t)
    BY <1>1, <2>1, <2>3 DEF DeliverOK
  <2>5. QED
    BY <1>2, <2>4 DEF t
<1>3. CASE ~(s.sink = "snprintf" /\ s.n < 1)
  <2> DEFINE t == [s EXCEPT !.pc = "text"]
  <2>1. /\ DOMAIN t = PrintFields /\ t.pc = "text" /\ t.out = <<>>
        /\ t.sent = <<>> /\ t.buf = <<>> /\ t.cnt = 0 /\ t.flushed = 0
        /\ t.n = s.n /\ t.sink = s.sink
    BY <1>1 DEF PrintFields
  <2> HIDE DEF t
  <2>2. /\ IsSeq(<<>>) /\ Len(<<>>) = 0 /\ <<>> \o <<>> = <<>>
        /\ SubSeq(<<>>, 1, 0) = <<>>
    BY DEF IsSeq
  <2>3. /\ BufLen \in Nat /\ BufLen >= 2
    BY PrintAssumption
  <2>4. t.sink = "snprintf" => t.n >= 1 /\ Room(t) = 0
    BY <1>1, <1>3, <2>1, <2>2 DEF Room
  <2>5. Carried(t)
    BY <1>1, <2>1, <2>2, <2>3, <2>4 DEF Carried
  <2>6. DeliverOK(t)
    BY <1>1, <2>1, <2>5 DEF DeliverOK
  <2>7. QED
    BY <1>3, <2>6 DEF t
<1>4. QED
  BY <1>2, <1>3

(* The steps that put nothing out. *)
LEMMA KeptDelivers ==
  ASSUME NEW s, NEW t, DeliverOK(s), s.pc \in {"text", "escape"}, Kept(s, t),
         t.pc \in {"text", "escape"}
  PROVE  DeliverOK(t)
<1>1. Carried(s) /\ DOMAIN s = PrintFields
  BY DEF DeliverOK
<1>2. Carried(t)
  BY <1>1, KeptCarried
<1>3. DOMAIN t = PrintFields
  BY <1>1 DEF Kept
<1>4. QED
  BY <1>2, <1>3 DEF DeliverOK, Carried

(* Each step of vprintfmt that puts nothing out keeps what is on its way. *)
LEMMA TextKeeps ==
  ASSUME DeliverInv, PrintText
  PROVE  Kept(st, st') /\ st.pc = "text" /\ st'.pc \in {"text", "escape"}
<1>1. DOMAIN st = PrintFields /\ st.pc = "text"
  BY DEF DeliverInv, DeliverOK, PrintText, At
<1>2. CASE Ch(st) = "%"
  <2>1. st' = [[st EXCEPT !.i = @ + 1] EXCEPT
                 !.pc = "escape", !.padc = " ", !.width = -1,
                 !.precision = -1, !.lflag = 0, !.altflag = FALSE]
    BY <1>2 DEF PrintText, Becomes
  <2>2. QED
    BY <1>1, <2>1 DEF Kept, PrintFields
<1>3. CASE Ch(st) # "%"
  <2>1. st' = [[st EXCEPT !.i = @ + 1] EXCEPT !.todo = <<Ch(st)>>]
    BY <1>3 DEF PrintText, Becomes, Put
  <2>2. QED
    BY <1>1, <2>1 DEF Kept, PrintFields
<1>4. QED
  BY <1>2, <1>3

(* A flag of the escape. *)
LEMMA FlagKeeps ==
  ASSUME DeliverInv, PrintFlag
  PROVE  Kept(st, st') /\ st.pc = "escape" /\ st'.pc = "escape"
<1>1. DOMAIN st = PrintFields /\ st.pc = "escape"
  BY DEF DeliverInv, DeliverOK, PrintFlag, At
<1> DEFINE s == [st EXCEPT !.i = @ + 1]
<1>2. ASSUME st' = [s EXCEPT !.padc = Ch(st)]
      PROVE  Kept(st, st') /\ st'.pc = "escape"
  BY <1>1, <1>2 DEF Kept, PrintFields
<1>3. ASSUME st' = [s EXCEPT !.altflag = TRUE]
      PROVE  Kept(st, st') /\ st'.pc = "escape"
  BY <1>1, <1>3 DEF Kept, PrintFields
<1>4. ASSUME st' = [s EXCEPT !.lflag = @ + 1]
      PROVE  Kept(st, st') /\ st'.pc = "escape"
  BY <1>1, <1>4 DEF Kept, PrintFields
<1>5. ASSUME st' = [s EXCEPT !.width = IF @ < 0 THEN 0 ELSE @]
      PROVE  Kept(st, st') /\ st'.pc = "escape"
  BY <1>1, <1>5 DEF Kept, PrintFields
<1>6. ASSUME st' = Given([s EXCEPT !.args = Tail(@)], Head(st.args))
      PROVE  Kept(st, st') /\ st'.pc = "escape"
  BY <1>1, <1>6 DEF Kept, PrintFields, Given
<1>7. \/ st' = [s EXCEPT !.padc = Ch(st)]
      \/ st' = [s EXCEPT !.altflag = TRUE]
      \/ st' = [s EXCEPT !.lflag = @ + 1]
      \/ st' = [s EXCEPT !.width = IF @ < 0 THEN 0 ELSE @]
      \/ st' = Given([s EXCEPT !.args = Tail(@)], Head(st.args))
  BY DEF PrintFlag, Becomes
<1> HIDE DEF s
<1>8. QED
  BY <1>1, <1>2, <1>3, <1>4, <1>5, <1>6, <1>7

(* A width. *)
LEMMA WidthKeeps ==
  ASSUME DeliverInv, PrintWidth
  PROVE  Kept(st, st') /\ st.pc = "escape" /\ st'.pc = "escape"
<1>1. DOMAIN st = PrintFields /\ st.pc = "escape"
  BY DEF DeliverInv, DeliverOK, PrintWidth, At
<1>2. PICK i, k : st' = Given([st EXCEPT !.i = i], k)
  BY DEF PrintWidth, Becomes
<1>3. QED
  BY <1>1, <1>2 DEF Kept, PrintFields, Given

(* A conversion only queues its characters. *)
LEMMA ConversionKeeps ==
  ASSUME DeliverInv, PrintConversion
  PROVE  Kept(st, st') /\ st.pc = "escape" /\ st'.pc = "text"
<1>1. DOMAIN st = PrintFields /\ st.pc = "escape"
  BY DEF DeliverInv, DeliverOK, PrintConversion, At
<1> DEFINE s == [st EXCEPT !.i = @ + 1, !.pc = "text"]
           used == [s EXCEPT !.args = Tail(@)]
           with(x, y, z) == [Put(s, x) EXCEPT !.args = y, !.num = z]
<1>2. ASSUME NEW x, NEW y, NEW z, st' = with(x, y, z)
      PROVE  Kept(st, st') /\ st'.pc = "text"
  BY <1>1, <1>2 DEF Kept, PrintFields, Put
<1>3. ASSUME NEW x, st' = Put(used, x)
      PROVE  Kept(st, st') /\ st'.pc = "text"
  BY <1>1, <1>3 DEF Kept, PrintFields, Put
<1>4. ASSUME NEW x, st' = Put(s, x)
      PROVE  Kept(st, st') /\ st'.pc = "text"
  BY <1>1, <1>4 DEF Kept, PrintFields, Put
<1>5. ASSUME NEW c
      PROVE  \E x, y, z : Number(s, c) = with(x, y, z)
  BY DEF Number
<1>6. ASSUME NEW a PROVE \E x : String(used, a) = Put(used, x)
  BY DEF String
<1>7. ASSUME NEW a PROVE \E x : Error(used, a) = Put(used, x)
  BY DEF Error
<1>8. \/ \E c : st' = Number(s, c)
      \/ \E a : st' = String(used, a)
      \/ \E x : st' = Put(used, x)
      \/ \E a : st' = Error(used, a)
      \/ \E x : st' = Put(s, x)
  BY Zenon DEF PrintConversion, Becomes
<1> HIDE DEF s, used, with
<1>9. CASE \E c : st' = Number(s, c)
  <2>1. PICK x, y, z : st' = with(x, y, z)
    BY <1>5, <1>9
  <2>2. QED
    BY <1>1, <1>2, <2>1
<1>10. CASE \E x : st' = Put(used, x)
  BY <1>1, <1>3, <1>10
<1>11. CASE \E x : st' = Put(s, x)
  BY <1>1, <1>4, <1>11
<1>12. CASE \E a : st' = String(used, a)
  BY <1>6, <1>10, <1>12
<1>13. CASE \E a : st' = Error(used, a)
  BY <1>7, <1>10, <1>13
<1>14. QED
  BY <1>8, <1>9, <1>10, <1>11, <1>12, <1>13

(* An unknown escape. *)
LEMMA UnknownKeeps ==
  ASSUME DeliverInv, PrintUnknown
  PROVE  Kept(st, st') /\ st.pc = "escape" /\ st'.pc = "text"
<1>1. DOMAIN st = PrintFields /\ st.pc = "escape"
  BY DEF DeliverInv, DeliverOK, PrintUnknown, At
<1>2. PICK i, x : st' = Put([st EXCEPT !.pc = "text", !.i = i], x)
  BY DEF PrintUnknown, Becomes
<1>3. QED
  BY <1>1, <1>2 DEF Kept, PrintFields, Put

(* A character goes out. *)
LEMMA PutchStep ==
  ASSUME DeliverInv, PrintPutch
  PROVE  DeliverInv' /\ FormatKept(st, st')
<1>1. /\ job = "printf" /\ DOMAIN st = PrintFields /\ st.pc = "text"
      /\ Carried(st) /\ st.sink \in Sink /\ st.n \in Int
  BY DEF DeliverInv, DeliverOK, PrintPutch, At
<1> DEFINE s == [st EXCEPT !.todo = Tail(@)]
           c == Head(st.todo)
<1>2. st' = putch(s, c) /\ job' = job
  BY DEF PrintPutch, Becomes
<1>3. Kept(st, s) /\ DOMAIN s = PrintFields /\ FormatKept(st, s)
  BY <1>1 DEF Kept, FormatKept, PrintFields
<1> HIDE DEF s, c
<1>4. Carried(s)
  BY <1>1, <1>3, KeptCarried
<1>5. Carried(st') /\ FormatKept(s, st')
  BY <1>2, <1>3, <1>4, PutchKeeps
<1>6. FormatKept(st, st')
  BY <1>3, <1>5 DEF FormatKept
<1>7. st'.pc = "text" /\ DOMAIN st' = PrintFields
  BY <1>1, <1>6 DEF FormatKept
<1>8. DeliverOK(st')
  BY <1>5, <1>7 DEF DeliverOK, Carried
<1>9. QED
  BY <1>1, <1>2, <1>6, <1>8 DEF DeliverInv

(* Every step of vprintfmt keeps the invariant of what arrives. *)
LEMMA DeliverSteps ==
  ASSUME DeliverInv, PrintNext
  PROVE  DeliverInv'
<1>1. job = "printf" /\ DeliverOK(st)
  BY DEF DeliverInv
<1>2. job' = job
  BY DEF PrintNext, PrintStart, PrintPutch, PrintText, PrintEnd, PrintFlag,
         PrintWidth, PrintConversion, PrintUnknown, Becomes
<1>3. ASSUME Kept(st, st'), st.pc \in {"text", "escape"},
             st'.pc \in {"text", "escape"}
      PROVE  DeliverInv'
  <2>1. DeliverOK(st')
    BY <1>1, <1>3, KeptDelivers
  <2>2. QED
    BY <1>1, <1>2, <2>1 DEF DeliverInv
<1>4. CASE PrintStart
  <2>1. st.pc = "call"
    BY <1>4 DEF PrintStart, At
  <2>2. DeliverOK(st')
    BY <1>1, <1>4, <2>1, StartDelivers DEF PrintStart, Becomes
  <2>3. QED
    BY <1>1, <1>2, <2>2 DEF DeliverInv
<1>5. CASE PrintPutch
  BY <1>5, PutchStep
<1>6. CASE PrintText
  BY <1>3, <1>6, TextKeeps
<1>7. CASE PrintEnd
  <2>1. st.pc = "text" /\ st' = Ended(st)
    BY <1>7 DEF PrintEnd, At, Becomes, Ended
  <2>2. DOMAIN st = PrintFields /\ Carried(st)
    BY <1>1, <2>1 DEF DeliverOK
  <2>3. DeliverOK(st')
    BY <2>1, <2>2, EndDelivers
  <2>4. QED
    BY <1>1, <1>2, <2>3 DEF DeliverInv
<1>8. CASE PrintFlag
  BY <1>3, <1>8, FlagKeeps
<1>9. CASE PrintWidth
  BY <1>3, <1>9, WidthKeeps
<1>10. CASE PrintConversion
  BY <1>3, <1>10, ConversionKeeps
<1>11. CASE PrintUnknown
  BY <1>3, <1>11, UnknownKeeps
<1>12. QED
  BY <1>4, <1>5, <1>6, <1>7, <1>8, <1>9, <1>10, <1>11 DEF PrintNext

(* And the call starts in it. *)
LEMMA DeliverStart == PrintInit => DeliverInv
<1>1. SUFFICES ASSUME PrintInit PROVE DeliverInv
  OBVIOUS
<1>2. PICK call \in PrintCall, sink \in Sink, n \in SnSize :
        st = [pc |-> "call", fmt |-> call.fmt, args |-> call.args, i |-> 1,
              sink |-> sink, n |-> n, buf |-> <<>>, cnt |-> 0, todo |-> <<>>,
              sent |-> <<>>, flushed |-> 0, out |-> <<>>, padc |-> " ",
              width |-> -1, precision |-> -1, lflag |-> 0, altflag |-> FALSE,
              num |-> [value |-> 0, base |-> 10, width |-> 0, text |-> <<>>],
              ret |-> 0]
  BY <1>1 DEF PrintInit
<1>3. job = "printf" /\ n \in Int
  BY <1>1, PrintAssumption DEF PrintInit
<1>4. DOMAIN st = PrintFields
  BY <1>2 DEF PrintFields
<1>5. /\ st.pc = "call" /\ st.out = <<>> /\ st.sent = <<>> /\ st.buf = <<>>
      /\ st.cnt = 0 /\ st.flushed = 0 /\ st.sink = sink /\ st.n = n
  BY <1>2
<1>6. QED
  BY <1>3, <1>4, <1>5 DEF DeliverInv, DeliverOK

(* It says what the property says. *)
LEMMA CallDelivered ==
  ASSUME DeliverInv
  PROVE  Delivered(st)
<1>1. DeliverOK(st)
  BY DEF DeliverInv
<1>2. CASE st.pc = "call"
  <2>1. /\ st.flushed = 0 /\ st.buf = <<>> /\ Len(st.buf) = 0 /\ BufLen \in Nat
        /\ BufLen >= 2 /\ st.n \in Int
    BY <1>1, <1>2, PrintAssumption DEF DeliverOK
  <2>2. st.pc # "done" /\ 0 < BufLen /\ (st.n >= 1 => 0 <= st.n)
    BY <1>2, <2>1
  <2>3. QED
    BY <2>1, <2>2 DEF Delivered
<1>3. CASE st.pc \in {"text", "escape"}
  <2>1. Carried(st) /\ st.pc # "done"
    BY <1>1, <1>3 DEF DeliverOK
  <2>2. QED
    BY <2>1, CarriedFits
<1>4. CASE st.pc = "done"
  BY <1>1, <1>4 DEF DeliverOK
<1>5. QED
  BY <1>1, <1>2, <1>3, <1>4 DEF DeliverOK

(* All that vprintfmt produces arrives: in snprintf's buffer the start of  *)
(* it, within the n bytes, terminated, and the length of the whole         *)
(* returned; on the kernel's console; and out of a user program's buffer   *)
(* in pieces that fit it, with nothing lost or left behind.  Whatever the  *)
(* format and its arguments, and whatever the sizes of the buffers.        *)
THEOREM PrintDelivered == PrintSpec => [](job = "printf" => Delivered(st))
<1>1. PrintInit => DeliverInv
  BY DeliverStart
<1>2. DeliverInv /\ [PrintNext]_routineVars => DeliverInv'
  <2>1. CASE UNCHANGED routineVars
    BY <2>1 DEF routineVars, DeliverInv
  <2>2. QED
    BY <2>1, DeliverSteps
<1>3. DeliverInv => (job = "printf" => Delivered(st))
  BY CallDelivered
<1>4. QED
  BY <1>1, <1>2, <1>3, PTL DEF PrintSpec

------------------------------------------------------------------------------
(* The inductive invariant of the numbers. *)
FormatOK(s) ==
  /\ IsSeq(s.fmt) /\ s.i \in Nat /\ s.i >= 1 /\ s.width \in Int
  /\ s.num.text # <<>> => NumberRight(s.num)
  /\ s.pc = "escape" => \E k \in 1 .. s.i - 1 : s.fmt[k] = "%"

NumberInv == DeliverInv /\ FormatOK(st)

(* Where a run of digits that starts at i may end. *)
RunEnds(fmt, i) ==
  {k \in i + 1 .. Len(fmt) + 1 :
     /\ k > Len(fmt) \/ fmt[k] \notin Decimal
     /\ \A x \in i .. k - 1 : fmt[x] \in Decimal}

(* The run ends, and has a value. *)
LEMMA RunValue ==
  ASSUME NEW fmt, IsSeq(fmt), NEW i \in 1 .. Len(fmt), fmt[i] \in Decimal
  PROVE  LET stop == CHOOSE k \in RunEnds(fmt, i) : TRUE
         IN  /\ stop \in i + 1 .. Len(fmt) + 1
             /\ ValueOf(SubSeq(fmt, i, stop - 1), 10) \in Nat
<1> DEFINE L == Len(fmt)
           E == RunEnds(fmt, i)
           stop == CHOOSE k \in E : TRUE
           T == {k \in i + 1 .. L + 1 : k > L \/ fmt[k] \notin Decimal}
           w == SubSeq(fmt, i, stop - 1)
<1>1. L \in Nat /\ i \in Nat /\ i >= 1 /\ i <= L
  BY DEF IsSeq
<1> HIDE DEF L
<1>2. L + 1 \in T /\ T \in SUBSET Nat
  BY <1>1
<1>3. PICK m \in T : \A k \in T : m <= k
  BY <1>2, LeastElement
<1>4. m \in i + 1 .. L + 1 /\ (m > L \/ fmt[m] \notin Decimal)
  OBVIOUS
<1>5. ASSUME NEW x \in i .. m - 1 PROVE fmt[x] \in Decimal
  <2>1. CASE x = i
    BY <2>1
  <2>2. CASE x # i
    <3>1. x \in i + 1 .. L + 1 /\ x < m /\ ~(x > L)
      BY <1>1, <1>4, <2>2
    <3>2. x \notin T
      BY <1>3, <1>4, <3>1
    <3>3. QED
      BY <3>1, <3>2
  <2>3. QED
    BY <2>1, <2>2
<1>6. m \in E
  BY <1>4, <1>5 DEF RunEnds, L
<1>7. stop \in E
  BY <1>6
<1> HIDE DEF stop
<1>8. stop \in i + 1 .. L + 1 /\ \A x \in i .. stop - 1 : fmt[x] \in Decimal
  BY <1>7 DEF RunEnds, L
<1>9. w \in Seq(DigitChar)
  <2> DEFINE n == stop - i
             u == [x \in 1 .. n |-> fmt[x + i - 1]]
  <2>1. n \in Nat /\ stop \in Nat
    BY <1>1, <1>8
  <2>2. w = u
    <3> DEFINE b == stop - 1
    <3>1. 1 + b - i = n /\ b \in Int
      BY <1>1, <2>1
    <3> HIDE DEF n, b
    <3>2. SubSeq(fmt, i, b) = [x \in 1 .. (1 + b - i) |-> fmt[x + i - 1]]
      BY <1>1, <3>1 DEF SubSeq
    <3>3. SubSeq(fmt, i, b) = u
      BY <3>1, <3>2
    <3>4. QED
      BY <3>3 DEF b
  <2>3. \A x \in 1 .. n : fmt[x + i - 1] \in DigitChar
    <3>1. \A x \in 1 .. n : x + i - 1 \in i .. stop - 1
      BY <1>1, <2>1
    <3>2. Decimal \subseteq DigitChar
      BY DEF Decimal, DigitChar
    <3>3. QED
      BY <1>8, <3>1, <3>2
  <2> HIDE DEF n, w
  <2>4. u \in [1 .. n -> DigitChar]
    BY <2>3
  <2> HIDE DEF u
  <2>5. u \in Seq(DigitChar)
    BY <2>1, <2>4, SeqDef
  <2>6. QED
    BY <2>2, <2>5
<1>10. ValueOf(w, 10) \in Nat
  <2> HIDE DEF w
  <2>1. "0" \in DigitChar
    BY HexDigits DEF DigitChar
  <2>2. QED
    BY <1>9, <2>1, ValueAppend
<1>11. QED
  BY <1>8, <1>10 DEF stop, L

(* The last of some places. *)
LEMMA LastPlace ==
  ASSUME NEW n \in Nat, NEW S \in SUBSET (1 .. n), S # {}
  PROVE  LET last == CHOOSE k \in S : \A x \in S : x <= k
         IN  last \in 1 .. n
<1> DEFINE T == {n - k : k \in S}
<1>1. T \in SUBSET Nat /\ T # {}
  <2>1. \A k \in S : n - k \in Nat
    OBVIOUS
  <2>2. QED
    BY <2>1
<1>2. PICK m \in T : \A k \in T : m <= k
  BY <1>1, LeastElement
<1>3. PICK p \in S : m = n - p
  OBVIOUS
<1>4. ASSUME NEW x \in S PROVE x <= p
  <2>1. n - x \in T
    OBVIOUS
  <2>2. m <= n - x
    BY <1>2, <2>1
  <2>3. QED
    BY <1>3, <2>2
<1>5. \E k \in S : \A x \in S : x <= k
  BY <1>4
<1> DEFINE last == CHOOSE k \in S : \A x \in S : x <= k
<1>6. last \in S
  BY <1>5
<1>7. QED
  BY <1>6

(* A character of the format that is not its end is in it. *)
LEMMA InFormat ==
  ASSUME NEW s, FormatOK(s), Ch(s) # "nul"
  PROVE  /\ s.i \in 1 .. Len(s.fmt) /\ Ch(s) = s.fmt[s.i]
         /\ s.i \in Nat /\ Len(s.fmt) \in Nat
<1>1. s.i \in Nat /\ s.i >= 1 /\ Len(s.fmt) \in Nat
  BY DEF FormatOK, IsSeq
<1>2. QED
  BY <1>1 DEF Ch

(* The number of a conversion. *)
LEMMA NumberIsRight ==
  ASSUME NEW s, DOMAIN s = PrintFields, s.width \in Int,
         NEW c \in {"d", "u", "o", "x", "p"}, Head(s.args) \in Int
  PROVE  NumberRight(Number(s, c).num)
<1> DEFINE arg == Head(s.args)
           abs == CASE c = "d" -> IF arg < 0 THEN -arg ELSE arg
                    [] c = "p" -> getuint(arg, 0)
                    [] OTHER -> getuint(arg, s.lflag)
           text == printnum(abs, Base(c), s.width, s.padc)
           num == [value |-> abs, base |-> Base(c), width |-> s.width,
                   text |-> text]
<1>1. Number(s, c).num = num
  BY DEF Number, Put, PrintFields
<1>2. arg \in Int
  OBVIOUS
<1>3. Base(c) \in {8, 10, 16}
  BY DEF Base
<1>4. ASSUME NEW l PROVE getuint(arg, l) \in Nat
  <2>1. UintMod \in Nat \ {0} /\ UllMod \in Nat \ {0}
    BY PrintAssumption
  <2> HIDE DEF arg
  <2>2. arg % UintMod \in Nat /\ arg % UllMod \in Nat
    BY <1>2, <2>1
  <2>3. QED
    BY <2>2 DEF getuint
<1> HIDE DEF arg
<1>5. abs \in Nat
  <2>1. CASE c = "d"
    BY <1>2, <2>1
  <2>2. CASE c = "p"
    BY <1>4, <2>2
  <2>3. CASE c # "d" /\ c # "p"
    BY <1>4, <2>3
  <2>4. QED
    BY <2>1, <2>2, <2>3
<1> HIDE DEF abs
<1>6. NumberRight(num)
  BY <1>3, <1>5, PrintnumRight
<1>7. QED
  BY <1>1, <1>6

(* The steps, seen from the numbers.  Given sets the width, or leaves it. *)
LEMMA GivenFormat ==
  ASSUME NEW s, DOMAIN s = PrintFields, s.width \in Int, NEW k \in Int
  PROVE  LET t == Given(s, k)
         IN  /\ t.width \in Int /\ t.fmt = s.fmt /\ t.i = s.i
             /\ t.num = s.num /\ t.pc = s.pc
BY DEF Given, PrintFields

(* Later in the escape. *)
LEMMA EscapeGoesOn ==
  ASSUME NEW s, NEW t, FormatOK(s), s.pc = "escape",
         t.fmt = s.fmt, t.num = s.num, t.width \in Int,
         t.i \in Nat, t.i >= s.i
  PROVE  FormatOK(t)
<1>1. /\ IsSeq(s.fmt) /\ s.i \in Nat /\ s.i >= 1
      /\ s.num.text # <<>> => NumberRight(s.num)
  BY DEF FormatOK
<1>2. PICK k \in 1 .. s.i - 1 : s.fmt[k] = "%"
  BY DEF FormatOK
<1>3. k \in 1 .. t.i - 1 /\ t.fmt[k] = "%" /\ t.i >= 1
  BY <1>1, <1>2
<1>4. QED
  BY <1>1, <1>3 DEF FormatOK

(* Ordinary text, and the start of an escape. *)
LEMMA TextFormat ==
  ASSUME NumberInv, PrintText
  PROVE  FormatOK(st')
<1>1. DOMAIN st = PrintFields /\ st.pc = "text" /\ FormatOK(st)
  BY DEF NumberInv, DeliverInv, DeliverOK, PrintText, At
<1>2. Ch(st) # "nul"
  BY DEF PrintText
<1>3. /\ st.i \in 1 .. Len(st.fmt) /\ Ch(st) = st.fmt[st.i] /\ st.i \in Nat
  BY <1>1, <1>2, InFormat
<1>4. /\ IsSeq(st.fmt) /\ st.width \in Int
      /\ st.num.text # <<>> => NumberRight(st.num)
  BY <1>1 DEF FormatOK
<1>5. CASE Ch(st) = "%"
  <2>1. st' = [[st EXCEPT !.i = @ + 1] EXCEPT
                 !.pc = "escape", !.padc = " ", !.width = -1,
                 !.precision = -1, !.lflag = 0, !.altflag = FALSE]
    BY <1>5 DEF PrintText, Becomes
  <2>2. /\ st'.fmt = st.fmt /\ st'.i = st.i + 1 /\ st'.width = -1
        /\ st'.num = st.num /\ st'.pc = "escape"
    BY <1>1, <2>1 DEF PrintFields
  <2>3. \E k \in 1 .. st'.i - 1 : st'.fmt[k] = "%"
    <3>1. st.i \in 1 .. (st.i + 1) - 1
      BY <1>3
    <3>2. st.i \in 1 .. st'.i - 1 /\ st'.fmt[st.i] = Ch(st)
      BY <1>3, <2>2, <3>1
    <3>3. QED
      BY <1>5, <3>2
  <2>4. st'.i \in Nat /\ st'.i >= 1 /\ st'.width \in Int
    BY <1>3, <2>2
  <2>5. QED
    BY <1>4, <2>2, <2>3, <2>4 DEF FormatOK
<1>6. CASE Ch(st) # "%"
  <2>1. st' = [[st EXCEPT !.i = @ + 1] EXCEPT !.todo = <<Ch(st)>>]
    BY <1>6 DEF PrintText, Becomes, Put
  <2>2. /\ st'.fmt = st.fmt /\ st'.i = st.i + 1 /\ st'.width = st.width
        /\ st'.num = st.num /\ st'.pc = "text"
    BY <1>1, <2>1 DEF PrintFields
  <2>3. st'.i \in Nat /\ st'.i >= 1
    BY <1>3, <2>2
  <2>4. QED
    BY <1>4, <2>2, <2>3 DEF FormatOK
<1>7. QED
  BY <1>5, <1>6

(* A flag: * takes its width from the arguments. *)
LEMMA FlagFormat ==
  ASSUME NumberInv, PrintFlag, ArgsFit
  PROVE  FormatOK(st')
<1>1. /\ DOMAIN st = PrintFields /\ st.pc = "escape" /\ FormatOK(st)
      /\ job = "printf"
  BY DEF NumberInv, DeliverInv, DeliverOK, PrintFlag, At
<1>2. st.i \in Nat /\ st.i >= 1 /\ st.width \in Int /\ st.i + 1 >= st.i
  BY <1>1 DEF FormatOK
<1> DEFINE s == [st EXCEPT !.i = @ + 1]
           Ok == /\ st'.fmt = st.fmt /\ st'.num = st.num
                 /\ st'.width \in Int /\ st'.i = st.i + 1
<1>3. /\ DOMAIN s = PrintFields /\ s.width = st.width /\ s.i = st.i + 1
      /\ s.fmt = st.fmt /\ s.num = st.num
  BY <1>1 DEF PrintFields
<1>4. ASSUME st' = [s EXCEPT !.padc = Ch(st)] PROVE Ok
  BY <1>2, <1>3, <1>4 DEF PrintFields
<1>5. ASSUME st' = [s EXCEPT !.altflag = TRUE] PROVE Ok
  BY <1>2, <1>3, <1>5 DEF PrintFields
<1>6. ASSUME st' = [s EXCEPT !.lflag = @ + 1] PROVE Ok
  BY <1>2, <1>3, <1>6 DEF PrintFields
<1>7. ASSUME st' = [s EXCEPT !.width = IF @ < 0 THEN 0 ELSE @] PROVE Ok
  BY <1>2, <1>3, <1>7 DEF PrintFields
<1>8. ASSUME st' = Given([s EXCEPT !.args = Tail(@)], Head(st.args)),
             Ch(st) = "*"
      PROVE  Ok
  <2> DEFINE u == [s EXCEPT !.args = Tail(@)]
  <2>1. Head(st.args) \in Int
    BY <1>1, <1>8 DEF ArgsFit, At
  <2>2. /\ DOMAIN u = PrintFields /\ u.width \in Int /\ u.i = st.i + 1
        /\ u.fmt = st.fmt /\ u.num = st.num
    BY <1>2, <1>3 DEF PrintFields
  <2> HIDE DEF u
  <2>3. QED
    BY <1>8, <2>1, <2>2, GivenFormat DEF u
<1>9. \/ st' = [s EXCEPT !.padc = Ch(st)]
      \/ st' = [s EXCEPT !.altflag = TRUE]
      \/ st' = [s EXCEPT !.lflag = @ + 1]
      \/ st' = [s EXCEPT !.width = IF @ < 0 THEN 0 ELSE @]
      \/ st' = Given([s EXCEPT !.args = Tail(@)], Head(st.args))
           /\ Ch(st) = "*"
  BY DEF PrintFlag, Becomes
<1>10. Ok
  <2> HIDE DEF s, Ok
  <2>1. QED
    BY <1>4, <1>5, <1>6, <1>7, <1>8, <1>9
<1>11. st'.i \in Nat /\ st'.i >= st.i
  BY <1>2, <1>10
<1>12. QED
  BY <1>1, <1>10, <1>11, EscapeGoesOn

(* A width is the value of its digits. *)
LEMMA WidthFormat ==
  ASSUME NumberInv, PrintWidth
  PROVE  FormatOK(st')
<1>1. /\ DOMAIN st = PrintFields /\ st.pc = "escape" /\ FormatOK(st)
  BY DEF NumberInv, DeliverInv, DeliverOK, PrintWidth, At
<1>2. IsSeq(st.fmt) /\ st.width \in Int
  BY <1>1 DEF FormatOK
<1>3. Ch(st) \in Decimal
  BY DEF PrintWidth
<1>4. Ch(st) # "nul"
  <2>1. \A c \in Decimal : c # "nul"
    BY HexDigits DEF Decimal
  <2>2. QED
    BY <1>3, <2>1
<1>5. st.i \in 1 .. Len(st.fmt) /\ Ch(st) = st.fmt[st.i] /\ st.i \in Nat
      /\ Len(st.fmt) \in Nat
  BY <1>1, <1>4, InFormat
<1> DEFINE stop == CHOOSE k \in RunEnds(st.fmt, st.i) : TRUE
           value == ValueOf(SubSeq(st.fmt, st.i, stop - 1), 10)
           s == [st EXCEPT !.i = stop]
<1>6. stop \in st.i + 1 .. Len(st.fmt) + 1 /\ value \in Nat
  BY <1>2, <1>3, <1>5, RunValue
<1>7. st' = Given(s, value)
  BY DEF PrintWidth, Becomes, RunEnds
<1> HIDE DEF stop, value
<1>8. /\ DOMAIN s = PrintFields /\ s.width \in Int /\ s.i = stop
      /\ s.fmt = st.fmt /\ s.num = st.num
  BY <1>1, <1>2 DEF PrintFields
<1> HIDE DEF s
<1>9. value \in Int
  BY <1>6
<1>10. /\ st'.width \in Int /\ st'.fmt = st.fmt /\ st'.i = stop
       /\ st'.num = st.num
  BY <1>7, <1>8, <1>9, GivenFormat
<1>11. st'.i \in Nat /\ st'.i >= st.i
  BY <1>5, <1>6, <1>10
<1>12. QED
  BY <1>1, <1>10, <1>11, EscapeGoesOn

(* A conversion prints its number right. *)
LEMMA ConversionFormat ==
  ASSUME NumberInv, PrintConversion, ArgsFit
  PROVE  FormatOK(st')
<1>1. /\ DOMAIN st = PrintFields /\ st.pc = "escape" /\ FormatOK(st)
      /\ job = "printf"
  BY DEF NumberInv, DeliverInv, DeliverOK, PrintConversion, At
<1>2. /\ IsSeq(st.fmt) /\ st.i \in Nat /\ st.i >= 1 /\ st.width \in Int
      /\ st.num.text # <<>> => NumberRight(st.num)
  BY <1>1 DEF FormatOK
<1> DEFINE s == [st EXCEPT !.i = @ + 1, !.pc = "text"]
           used == [s EXCEPT !.args = Tail(@)]
           c == Ch(st)
           Ok(t) == /\ t.fmt = st.fmt /\ t.width = st.width
                    /\ t.i = st.i + 1 /\ t.pc = "text"
<1>3. /\ DOMAIN s = PrintFields /\ s.width = st.width /\ s.i = st.i + 1
      /\ s.fmt = st.fmt /\ s.num = st.num /\ s.pc = "text" /\ s.args = st.args
  BY <1>1 DEF PrintFields
<1>4. ASSUME NEW x, st' = Put(s, x) PROVE Ok(st') /\ st'.num = st.num
  BY <1>3, <1>4 DEF PrintFields, Put
<1>5. ASSUME NEW x, st' = Put(used, x) PROVE Ok(st') /\ st'.num = st.num
  BY <1>3, <1>5 DEF PrintFields, Put
<1>6. ASSUME c \in {"d", "u", "o", "x", "p"}, st' = Number(s, c)
      PROVE  Ok(st') /\ NumberRight(st'.num)
  <2> HIDE DEF s
  <2>1. Head(s.args) \in Int
    BY <1>1, <1>3, <1>6 DEF ArgsFit, At
  <2>2. s.width \in Int
    BY <1>2, <1>3
  <2> HIDE DEF c
  <2>3. NumberRight(st'.num)
    BY <1>3, <1>6, <2>1, <2>2, NumberIsRight
  <2>4. PICK x, y, z : st' = [Put(s, x) EXCEPT !.args = y, !.num = z]
    BY <1>6 DEF Number
  <2>5. Ok(st')
    BY <1>3, <2>4 DEF Put, PrintFields
  <2>6. QED
    BY <2>3, <2>5
<1>7. ASSUME NEW a PROVE \E x : String(used, a) = Put(used, x)
  BY DEF String
<1>8. ASSUME NEW a PROVE \E x : Error(used, a) = Put(used, x)
  BY DEF Error
<1>9. \/ c \in {"d", "u", "o", "x", "p"} /\ st' = Number(s, c)
      \/ \E a : st' = String(used, a)
      \/ \E x : st' = Put(used, x)
      \/ \E a : st' = Error(used, a)
      \/ \E x : st' = Put(s, x)
  BY Zenon DEF PrintConversion, Becomes
<1> HIDE DEF s, used, c, Ok
<1>10. ASSUME \E x : st' = Put(used, x) PROVE Ok(st') /\ st'.num = st.num
  BY <1>5, <1>10
<1>11. ASSUME \E x : st' = Put(s, x) PROVE Ok(st') /\ st'.num = st.num
  BY <1>4, <1>11
<1>12. (\E a : st' = String(used, a)) => \E x : st' = Put(used, x)
  BY <1>7
<1>13. (\E a : st' = Error(used, a)) => \E x : st' = Put(used, x)
  BY <1>8
<1>14. Ok(st') /\ (st'.num = st.num \/ NumberRight(st'.num))
  BY <1>6, <1>9, <1>10, <1>11, <1>12, <1>13
<1>15. st'.num.text # <<>> => NumberRight(st'.num)
  BY <1>2, <1>14
<1>16. QED
  BY <1>2, <1>14, <1>15 DEF FormatOK, Ok

(* An unknown escape goes back to its %, which there is. *)
LEMMA UnknownFormat ==
  ASSUME NumberInv, PrintUnknown
  PROVE  FormatOK(st')
<1>1. /\ DOMAIN st = PrintFields /\ st.pc = "escape" /\ FormatOK(st)
  BY DEF NumberInv, DeliverInv, DeliverOK, PrintUnknown, At
<1>2. /\ IsSeq(st.fmt) /\ st.i \in Nat /\ st.i >= 1 /\ st.width \in Int
      /\ st.num.text # <<>> => NumberRight(st.num)
      /\ \E k \in 1 .. st.i - 1 : st.fmt[k] = "%"
  BY <1>1 DEF FormatOK
<1> DEFINE percents == {k \in 1 .. st.i - 1 : st.fmt[k] = "%"}
           last == CHOOSE k \in percents : \A x \in percents : x <= k
           n == st.i - 1
<1>3. n \in Nat /\ percents \in SUBSET (1 .. n) /\ percents # {}
  BY <1>2
<1>4. st' = Put([st EXCEPT !.pc = "text", !.i = last + 1], <<"%">>)
  BY DEF PrintUnknown, Becomes
<1>5. last \in 1 .. n
  <2> HIDE DEF percents, n
  <2>1. QED
    BY <1>3, LastPlace
<1> HIDE DEF last, n
<1>6. /\ st'.fmt = st.fmt /\ st'.width = st.width /\ st'.num = st.num
      /\ st'.i = last + 1 /\ st'.pc = "text"
  BY <1>1, <1>4 DEF Put, PrintFields
<1>7. st'.i \in Nat /\ st'.i >= 1
  BY <1>3, <1>5, <1>6
<1>8. QED
  BY <1>2, <1>6, <1>7 DEF FormatOK

(* Every step keeps the numbers right. *)
LEMMA NumberSteps ==
  ASSUME NumberInv, PrintNext, ArgsFit
  PROVE  NumberInv'
<1>1. DeliverInv /\ FormatOK(st)
  BY DEF NumberInv
<1>2. DeliverInv'
  BY <1>1, DeliverSteps
<1>3. DOMAIN st = PrintFields
  BY <1>1 DEF DeliverInv, DeliverOK
<1>4. ASSUME st'.fmt = st.fmt, st'.i = st.i, st'.width = st.width,
             st'.num = st.num, st'.pc = st.pc \/ st'.pc # "escape"
      PROVE  FormatOK(st')
  BY <1>1, <1>4 DEF FormatOK
<1>5. CASE PrintStart
  <2>1. \/ st' = [st EXCEPT !.pc = "done", !.ret = -3]
        \/ st' = [st EXCEPT !.pc = "text"]
    BY <1>5 DEF PrintStart, Becomes
  <2>2. FormatOK(st')
    BY <1>3, <1>4, <2>1 DEF PrintFields
  <2>3. QED
    BY <1>2, <2>2 DEF NumberInv
<1>6. CASE PrintPutch
  <2>1. FormatKept(st, st')
    BY <1>1, <1>6, PutchStep
  <2>2. FormatOK(st')
    BY <1>4, <2>1 DEF FormatKept
  <2>3. QED
    BY <1>2, <2>2 DEF NumberInv
<1>7. CASE PrintEnd
  <2>1. st' = Ended(st) /\ st.sink \in Sink
    BY <1>1, <1>7 DEF PrintEnd, At, Becomes, Ended, DeliverInv, DeliverOK
  <2>2. /\ st'.fmt = st.fmt /\ st'.i = st.i /\ st'.width = st.width
        /\ st'.num = st.num /\ st'.pc = "done"
    BY <1>3, <2>1 DEF Ended, Flush, PrintFields, Sink
  <2>3. FormatOK(st')
    BY <1>4, <2>2
  <2>4. QED
    BY <1>2, <2>3 DEF NumberInv
<1>8. CASE PrintText
  BY <1>2, <1>8, TextFormat DEF NumberInv
<1>9. CASE PrintFlag
  BY <1>2, <1>9, FlagFormat DEF NumberInv
<1>10. CASE PrintWidth
  BY <1>2, <1>10, WidthFormat DEF NumberInv
<1>11. CASE PrintConversion
  BY <1>2, <1>11, ConversionFormat DEF NumberInv
<1>12. CASE PrintUnknown
  BY <1>2, <1>12, UnknownFormat DEF NumberInv
<1>13. QED
  BY <1>5, <1>6, <1>7, <1>8, <1>9, <1>10, <1>11, <1>12 DEF PrintNext

(* And none is printed at the call. *)
LEMMA NumberStart == PrintInit => NumberInv
<1>1. SUFFICES ASSUME PrintInit PROVE NumberInv
  OBVIOUS
<1>2. PICK call \in PrintCall : /\ st.fmt = call.fmt /\ st.i = 1
                                /\ st.width = -1 /\ st.num.text = <<>>
                                /\ st.pc = "call"
  <2>1. PICK call \in PrintCall, sink \in Sink, n \in SnSize :
          st = [pc |-> "call", fmt |-> call.fmt, args |-> call.args, i |-> 1,
                sink |-> sink, n |-> n, buf |-> <<>>, cnt |-> 0, todo |-> <<>>,
                sent |-> <<>>, flushed |-> 0, out |-> <<>>, padc |-> " ",
                width |-> -1, precision |-> -1, lflag |-> 0, altflag |-> FALSE,
                num |-> [value |-> 0, base |-> 10, width |-> 0, text |-> <<>>],
                ret |-> 0]
    BY <1>1 DEF PrintInit
  <2>2. /\ st.fmt = call.fmt /\ st.i = 1 /\ st.width = -1
        /\ st.num.text = <<>> /\ st.pc = "call"
    BY <2>1
  <2>3. QED
    BY <2>2
<1>3. call.fmt \in Seq({call.fmt[k] : k \in DOMAIN call.fmt})
  BY PrintAssumption
<1>4. IsSeq(call.fmt)
  BY <1>3, SeqIsSeq
<1>5. FormatOK(st)
  BY <1>2, <1>4 DEF FormatOK
<1>6. QED
  BY <1>1, <1>5, DeliverStart DEF NumberInv

(* vprintfmt prints every number as the digits of its value in the base of *)
(* the conversion, padded to the width, and delivers all it prints, as     *)
(* long as the arguments that are read as numbers are numbers: which the   *)
(* caller of a function with variable arguments has to see to.             *)
THEOREM PrintCorrect == PrintSpec /\ []ArgsFit => []PrintedExactly
<1>1. PrintInit => NumberInv
  BY NumberStart
<1>2. NumberInv /\ ArgsFit /\ [PrintNext]_routineVars => NumberInv'
  <2>1. CASE UNCHANGED routineVars
    BY <2>1 DEF routineVars, NumberInv, DeliverInv
  <2>2. QED
    BY <2>1, NumberSteps
<1>3. NumberInv => PrintedExactly
  BY CallDelivered DEF NumberInv, FormatOK, PrintedExactly
<1>4. QED
  BY <1>1, <1>2, <1>3, PTL DEF PrintSpec
=============================================================================

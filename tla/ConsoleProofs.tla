---------------------------- MODULE ConsoleProofs ----------------------------
(***************************************************************************)
(* Proofs about Console: the ring is a queue, and the screen shows what    *)
(* readline has in its buffer.                                             *)
(***************************************************************************)
EXTENDS Console, Induction, SequenceTheorems

Cell == 0 .. CONSBUFSIZE - 1
Given == Char \cup {"none"}

(* The slot k places after pos. *)
After(pos, k) == IF pos + k < CONSBUFSIZE THEN pos + k
                 ELSE pos + k - CONSBUFSIZE

(* The ring r, read from pos on, holds q. *)
Holds(r, pos, q) ==
  /\ r.buf \in [Cell -> Given] /\ q \in Seq(Char) /\ Len(q) < CONSBUFSIZE
  /\ r.wpos = After(pos, Len(q))
  /\ \A k \in 1 .. Len(q) : r.buf[After(pos, k - 1)] = q[k]

(* Positions wrap around at most once. *)
LEMMA Wraps ==
  ASSUME NEW x \in Int, -CONSBUFSIZE < x, x < 2 * CONSBUFSIZE
  PROVE  x % CONSBUFSIZE = CASE x < 0 -> x + CONSBUFSIZE
                             [] x >= CONSBUFSIZE -> x - CONSBUFSIZE
                             [] OTHER -> x
  BY ConsoleAssumption

(* Where a position of the ring comes to lie. *)
LEMMA AfterPlaces ==
  ASSUME NEW pos \in Cell
  PROVE  /\ After(pos, 0) = pos /\ Advance(pos) = After(pos, 1)
         /\ \A k \in Cell :
              /\ After(pos, k) \in Cell
              /\ (pos + k) % CONSBUFSIZE = After(pos, k)
              /\ Advance(After(pos, k)) = After(pos, k + 1)
              /\ After(Advance(pos), k) = After(pos, k + 1)
              /\ \A l \in Cell : After(pos, k) = After(pos, l) => k = l
<1> DEFINE C == CONSBUFSIZE
<1>1. C \in Nat \ {0} /\ pos \in 0 .. C - 1
  BY ConsoleAssumption DEF Cell
<1>2. After(pos, 0) = pos /\ Advance(pos) = After(pos, 1)
  BY <1>1 DEF After, Advance
<1>3. ASSUME NEW k \in Cell
      PROVE  /\ After(pos, k) \in Cell
             /\ (pos + k) % CONSBUFSIZE = After(pos, k)
             /\ Advance(After(pos, k)) = After(pos, k + 1)
             /\ After(Advance(pos), k) = After(pos, k + 1)
             /\ \A l \in Cell : After(pos, k) = After(pos, l) => k = l
  <2>1. k \in 0 .. C - 1
    BY DEF Cell
  <2>2. After(pos, k) \in Cell
    BY <1>1, <2>1 DEF After, Cell
  <2>3. (pos + k) % CONSBUFSIZE = After(pos, k)
    BY <1>1, <2>1, Wraps DEF After
  <2>4. Advance(After(pos, k)) = After(pos, k + 1)
    BY <1>1, <2>1 DEF After, Advance
  <2>5. After(Advance(pos), k) = After(pos, k + 1)
    BY <1>1, <2>1 DEF After, Advance
  <2>6. ASSUME NEW l \in Cell, After(pos, k) = After(pos, l) PROVE k = l
    BY <1>1, <2>1, <2>6 DEF After, Cell
  <2>7. QED
    BY <2>2, <2>3, <2>4, <2>5, <2>6
<1>4. QED
  BY <1>2, <1>3

(* The control characters are not visible ones. *)
LEMMA CharacterFacts ==
  /\ "none" \notin Char /\ Visible \subseteq Char /\ Char \subseteq Given
  /\ \A ch \in Visible : ch \notin {"nl", "cr", "bs", "tab", "none"}
  BY ConsoleAssumption DEF Visible, Char, Given

(* One more character in the ring. *)
LEMMA StoredOK ==
  ASSUME NEW r, NEW pos \in Cell, NEW q, Holds(r, pos, q),
         Len(q) + 1 < CONSBUFSIZE, NEW ch \in Char
  PROVE  Holds(Stored(r, ch), pos, Append(q, ch))
<1> DEFINE n1 == Stored(r, ch)
           q1 == Append(q, ch)
<1>1. q \in Seq(Char) /\ Len(q) \in Cell /\ r.wpos = After(pos, Len(q))
      /\ r.wpos \in Cell /\ r.buf \in [Cell -> Given]
  <2>1. q \in Seq(Char) /\ r.wpos = After(pos, Len(q))
        /\ r.buf \in [Cell -> Given]
    BY DEF Holds
  <2>2. Len(q) \in Cell
    BY <2>1, ConsoleAssumption DEF Cell
  <2>3. QED
    BY <2>1, <2>2, AfterPlaces
<1>2. q1 \in Seq(Char) /\ Len(q1) = Len(q) + 1
  BY <1>1
<1>3. n1.buf = [r.buf EXCEPT ![r.wpos] = ch] /\ n1.wpos = Advance(r.wpos)
  BY DEF Stored
<1>4. n1.buf \in [Cell -> Given]
  BY <1>1, <1>3, CharacterFacts
<1>5. n1.wpos = After(pos, Len(q1))
  BY <1>1, <1>2, <1>3, AfterPlaces
<1>6. ASSUME NEW k \in 1 .. Len(q1)
      PROVE  n1.buf[After(pos, k - 1)] = q1[k]
  <2>1. k - 1 \in Cell /\ After(pos, k - 1) \in Cell
    <3>1. k - 1 \in Cell
      BY <1>1, <1>2, ConsoleAssumption DEF Cell
    <3>2. QED
      BY <3>1, AfterPlaces
  <2>2. CASE k = Len(q) + 1
    BY <1>1, <1>3, <2>1, <2>2
  <2>3. CASE k # Len(q) + 1
    <3>1. k \in 1 .. Len(q) /\ k - 1 # Len(q)
      BY <1>1, <1>2, <2>3
    <3>2. After(pos, k - 1) # r.wpos
      BY <1>1, <2>1, <3>1, AfterPlaces
    <3>3. q1[k] = q[k] /\ r.buf[After(pos, k - 1)] = q[k]
      BY <1>1, <3>1 DEF Holds
    <3>4. QED
      BY <1>1, <1>3, <2>1, <3>2, <3>3
  <2>4. QED
    BY <2>2, <2>3
<1>7. QED
  BY <1>2, <1>4, <1>5, <1>6 DEF Holds

(* The character that takes the last slot leaves a ring that looks empty. *)
LEMMA StoredFull ==
  ASSUME NEW r, NEW pos \in Cell, NEW q, Holds(r, pos, q),
         Len(q) + 1 = CONSBUFSIZE, NEW ch \in Char
  PROVE  Holds(Stored(r, ch), pos, <<>>)
<1> DEFINE n1 == Stored(r, ch)
<1>1. q \in Seq(Char) /\ r.wpos = After(pos, Len(q)) /\ r.buf \in [Cell -> Given]
  BY DEF Holds
<1>2. Len(q) \in Cell
  BY <1>1, ConsoleAssumption DEF Cell
<1>3. n1.buf = [r.buf EXCEPT ![r.wpos] = ch] /\ n1.wpos = Advance(r.wpos)
  BY DEF Stored
<1>4. n1.buf \in [Cell -> Given]
  BY <1>1, <1>3, CharacterFacts
<1>5. n1.wpos = After(pos, 0)
  <2>1. n1.wpos = After(pos, CONSBUFSIZE)
    BY <1>1, <1>2, <1>3, AfterPlaces
  <2>2. After(pos, CONSBUFSIZE) = pos
    BY ConsoleAssumption DEF After, Cell
  <2>3. QED
    BY <2>1, <2>2, AfterPlaces
<1>6. Len(<<>>) = 0 /\ <<>> \in Seq(Char) /\ 1 .. 0 = {} /\ 0 < CONSBUFSIZE
  BY ConsoleAssumption
<1>7. QED
  BY <1>4, <1>5, <1>6 DEF Holds

(* One step of Kept. *)
Keep(q, ch) ==
  IF ch = "none" THEN q
  ELSE IF Len(q) + 1 = CONSBUFSIZE THEN <<>> ELSE Append(q, ch)

(* Kept is what its recursion says. *)
LEMMA KeptUpTo ==
  ASSUME NEW q \in Seq(Given), NEW s \in Seq(Given)
  PROVE  \E f : /\ f = [k \in 0 .. Len(s) |->
                          IF k = 0 THEN q ELSE Keep(f[k - 1], s[k])]
                /\ Kept(q, s) = f[Len(s)]
<1> DEFINE Is(f) == f = [k \in 0 .. Len(s) |->
                           IF k = 0 THEN q ELSE Keep(f[k - 1], s[k])]
           Step == [x \in (1 .. Len(s)) \X Seq(Given) |-> Keep(x[2], s[x[1]])]
<1>1. Step \in [(1 .. Len(s)) \X Seq(Given) -> Seq(Given)]
  <2>1. ASSUME NEW k \in 1 .. Len(s), NEW v \in Seq(Given)
        PROVE  Keep(v, s[k]) \in Seq(Given)
    BY DEF Keep
  <2>2. QED
    BY <2>1
<1>2. \A k \in 1 .. Len(s), v \in Seq(Given) : Step[<<k, v>>] = Keep(v, s[k])
  OBVIOUS
<1>3. Len(s) \in Nat
  OBVIOUS
<1> HIDE DEF Step
<1>4. PICK f \in [0 .. Len(s) -> Seq(Given)] :
        f[0] = q /\ \A k \in 1 .. Len(s) : f[k] = Step[<<k, f[k - 1]>>]
  <2> DEFINE S == Seq(Given)
             l == Len(s)
  <2>1. q \in S
    OBVIOUS
  <2>2. l \in Nat
    OBVIOUS
  <2>3. Step \in Steps(l, S)
    BY <1>1 DEF Steps
  <2> HIDE DEF S, l
  <2>4. \E f : DefinedBy(f, q, Step, l, S)
    BY <2>1, <2>2, <2>3, RecursionUpTo
  <2>5. QED
    BY <2>4 DEF S, l, DefinedBy
<1>5. Is(f)
  <2>1. ASSUME NEW k \in 0 .. Len(s), k # 0
        PROVE  f[k] = Keep(f[k - 1], s[k])
    <3>1. k \in 1 .. Len(s) /\ k - 1 \in 0 .. Len(s)
      BY <1>3, <2>1
    <3>2. f[k] = Step[<<k, f[k - 1]>>] /\ f[k - 1] \in Seq(Given)
      BY <1>4, <2>1, <3>1
    <3>3. QED
      BY <1>2, <3>1, <3>2
  <2>2. QED
    BY <1>4, <2>1
<1>6. Kept(q, s) = (CHOOSE g : Is(g))[Len(s)]
  BY DEF Kept, Keep
<1>7. Is(CHOOSE g : Is(g))
  <2> HIDE DEF Is
  <2>1. QED
    BY <1>5
<1>8. QED
  BY <1>6, <1>7

Rings == [buf : [Cell -> Given], wpos : Cell]

(* cons_intr's store keeps the ring's type. *)
LEMMA StoredType ==
  ASSUME NEW r \in Rings, NEW ch \in Given
  PROVE  Stored(r, ch) \in Rings
<1>1. r.buf \in [Cell -> Given] /\ r.wpos \in Cell
  BY DEF Rings
<1>2. Advance(r.wpos) \in Cell
  BY <1>1, ConsoleAssumption DEF Advance, Cell
<1>3. QED
  BY <1>1, <1>2 DEF Stored, Rings

(* cons_intr is what its recursion says. *)
LEMMA IntrUpTo ==
  ASSUME NEW r \in Rings, NEW s \in Seq(Given)
  PROVE  \E f : /\ f = [k \in 0 .. Len(s) |->
                          IF k = 0 THEN r
                          ELSE IF s[k] = "none" THEN f[k - 1]
                          ELSE Stored(f[k - 1], s[k])]
                /\ cons_intr(r, s) = f[Len(s)]
<1> DEFINE Is(f) == f = [k \in 0 .. Len(s) |->
                           IF k = 0 THEN r
                           ELSE IF s[k] = "none" THEN f[k - 1]
                           ELSE Stored(f[k - 1], s[k])]
           Step == [x \in (1 .. Len(s)) \X Rings |->
                      IF s[x[1]] = "none" THEN x[2] ELSE Stored(x[2], s[x[1]])]
<1>1. Step \in [(1 .. Len(s)) \X Rings -> Rings]
  BY StoredType
<1>2. \A k \in 1 .. Len(s), v \in Rings :
        Step[<<k, v>>] = IF s[k] = "none" THEN v ELSE Stored(v, s[k])
  OBVIOUS
<1> HIDE DEF Step
<1>4. PICK f \in [0 .. Len(s) -> Rings] :
        f[0] = r /\ \A k \in 1 .. Len(s) : f[k] = Step[<<k, f[k - 1]>>]
  <2> DEFINE l == Len(s)
  <2>1. l \in Nat
    OBVIOUS
  <2>2. Step \in Steps(l, Rings)
    BY <1>1 DEF Steps
  <2> HIDE DEF l
  <2>3. \E f : DefinedBy(f, r, Step, l, Rings)
    BY <2>1, <2>2, RecursionUpTo
  <2>4. QED
    BY <2>3 DEF l, DefinedBy
<1>5. Is(f)
  <2>1. ASSUME NEW k \in 0 .. Len(s), k # 0
        PROVE  f[k] = IF s[k] = "none" THEN f[k - 1]
                      ELSE Stored(f[k - 1], s[k])
    <3>1. k \in 1 .. Len(s) /\ k - 1 \in 0 .. Len(s)
      BY <2>1
    <3>2. f[k] = Step[<<k, f[k - 1]>>] /\ f[k - 1] \in Rings
      BY <1>4, <2>1, <3>1
    <3>3. QED
      BY <1>2, <3>1, <3>2
  <2>2. QED
    BY <1>4, <2>1
<1>6. cons_intr(r, s) = (CHOOSE g : Is(g))[Len(s)]
  BY DEF cons_intr
<1>7. Is(CHOOSE g : Is(g))
  <2> HIDE DEF Is
  <2>1. QED
    BY <1>5
<1>8. QED
  BY <1>6, <1>7

(* cons_intr leaves in the ring what Kept says. *)
LEMMA IntrOK ==
  ASSUME NEW r \in Rings, NEW pos \in Cell, NEW q, Holds(r, pos, q),
         NEW s \in Seq(Given)
  PROVE  cons_intr(r, s) \in Rings /\ Holds(cons_intr(r, s), pos, Kept(q, s))
<1>0. q \in Seq(Char) /\ q \in Seq(Given) /\ Len(s) \in Nat
  <2>1. q \in Seq(Char) /\ Char \subseteq Given
    BY CharacterFacts DEF Holds
  <2>2. QED
    BY <2>1
<1>1. PICK c : /\ c = [k \in 0 .. Len(s) |->
                         IF k = 0 THEN q ELSE Keep(c[k - 1], s[k])]
               /\ Kept(q, s) = c[Len(s)]
  BY <1>0, KeptUpTo
<1>2. PICK f : /\ f = [k \in 0 .. Len(s) |->
                         IF k = 0 THEN r
                         ELSE IF s[k] = "none" THEN f[k - 1]
                         ELSE Stored(f[k - 1], s[k])]
               /\ cons_intr(r, s) = f[Len(s)]
  BY IntrUpTo
<1> DEFINE Right(k) == f[k] \in Rings /\ Holds(f[k], pos, c[k])
           T == {k \in 0 .. Len(s) : Right(k)}
<1>4. 0 \in T
  <2>1. f[0] = r /\ c[0] = q /\ 0 \in 0 .. Len(s)
    BY <1>0, <1>1, <1>2
  <2>2. QED
    BY <2>1
<1>5. ASSUME NEW k \in 0 .. Len(s) - 1, k \in T
      PROVE  k + 1 \in T
  <2>1. k + 1 \in 0 .. Len(s) /\ k + 1 \in 1 .. Len(s) /\ (k + 1) - 1 = k
        /\ k + 1 # 0
    BY <1>0
  <2>2. Right(k)
    BY <1>5
  <2>3. s[k + 1] \in Given
    BY <2>1
  <2>4. c[k + 1] = Keep(c[k], s[k + 1])
    BY <1>1, <2>1
  <2>5. CASE s[k + 1] = "none"
    <3>1. f[k + 1] = f[k]
      BY <1>2, <2>1, <2>5
    <3>2. c[k + 1] = c[k]
      BY <2>4, <2>5 DEF Keep
    <3>3. QED
      BY <2>1, <2>2, <3>1, <3>2
  <2>6. CASE s[k + 1] # "none"
    <3>1. f[k + 1] = Stored(f[k], s[k + 1])
      BY <1>2, <2>1, <2>6
    <3>2. s[k + 1] \in Char
      BY <2>3, <2>6 DEF Given
    <3>3. f[k + 1] \in Rings
      BY <2>2, <2>3, <3>1, StoredType
    <3>4. Len(c[k]) \in Nat /\ Len(c[k]) < CONSBUFSIZE
      BY <2>2 DEF Holds
    <3>5. Holds(f[k + 1], pos, c[k + 1])
      <4>1. CASE Len(c[k]) + 1 = CONSBUFSIZE
        BY <2>2, <2>4, <2>6, <3>1, <3>2, <4>1, StoredFull DEF Keep
      <4>2. CASE Len(c[k]) + 1 # CONSBUFSIZE
        <5>1. Len(c[k]) + 1 < CONSBUFSIZE
          BY <3>4, <4>2, ConsoleAssumption
        <5>2. c[k + 1] = Append(c[k], s[k + 1])
          BY <2>4, <2>6, <4>2 DEF Keep
        <5>3. QED
          BY <2>2, <3>1, <3>2, <5>1, <5>2, StoredOK
      <4>3. QED
        BY <4>1, <4>2
    <3>6. QED
      BY <2>1, <3>3, <3>5
  <2>7. QED
    BY <2>5, <2>6
<1>6. \A k \in 0 .. Len(s) : k \in T
  <2> DEFINE l == Len(s)
  <2>1. l \in Nat /\ 0 \in T /\ \A k \in 0 .. l - 1 : k \in T => k + 1 \in T
    BY <1>0, <1>4, <1>5
  <2> HIDE DEF T, l
  <2>2. \A k \in 0 .. l : k \in T
    BY <2>1, UpTo
  <2>3. QED
    BY <2>2 DEF l
<1>7. Right(Len(s))
  BY <1>0, <1>6
<1>8. QED
  BY <1>1, <1>2, <1>7

------------------------------------------------------------------------------
(* The ring as RingIsQueue describes it. *)
LEMMA QueueHolds ==
  ASSUME NEW r \in Rings, NEW pos \in Cell, NEW q \in Seq(Char)
  PROVE  Holds(r, pos, q) <=>
           q = [k \in 1 .. (r.wpos - pos) % CONSBUFSIZE |->
                  r.buf[(pos + k - 1) % CONSBUFSIZE]]
<1> DEFINE d == (r.wpos - pos) % CONSBUFSIZE
           g == [k \in 1 .. d |-> r.buf[(pos + k - 1) % CONSBUFSIZE]]
<1>1. /\ CONSBUFSIZE \in Nat \ {0} /\ r.wpos \in 0 .. CONSBUFSIZE - 1
      /\ pos \in 0 .. CONSBUFSIZE - 1
      /\ r.buf \in [Cell -> Given]
  BY ConsoleAssumption DEF Rings, Cell
<1>2. r.wpos - pos \in Int /\ -CONSBUFSIZE < r.wpos - pos
      /\ r.wpos - pos < CONSBUFSIZE
  BY <1>1
<1>3. d = IF r.wpos - pos < 0 THEN r.wpos - pos + CONSBUFSIZE
          ELSE r.wpos - pos
  BY <1>1, <1>2, Wraps
<1> HIDE DEF d
<1>4. d \in Cell /\ \A l \in Cell : r.wpos = After(pos, l) <=> d = l
  <2>1. d \in Cell
    BY <1>1, <1>3 DEF Cell
  <2>2. ASSUME NEW l \in Cell PROVE r.wpos = After(pos, l) <=> d = l
    <3> DEFINE w == r.wpos
    <3>1. w \in 0 .. CONSBUFSIZE - 1 /\ l \in 0 .. CONSBUFSIZE - 1
      BY <1>1 DEF Cell
    <3>2. d = IF w - pos < 0 THEN w - pos + CONSBUFSIZE ELSE w - pos
      BY <1>3
    <3> HIDE DEF w
    <3>3. w = After(pos, l) => d = l
      BY <1>1, <3>1, <3>2 DEF After
    <3>4. d = l => w = After(pos, l)
      BY <1>1, <3>1, <3>2 DEF After
    <3>5. QED
      BY <3>3, <3>4 DEF w
  <2>3. QED
    BY <2>1, <2>2
<1>5. ASSUME NEW k \in 1 .. d
      PROVE  (pos + k - 1) % CONSBUFSIZE = After(pos, k - 1)
  <2>1. k - 1 \in Cell
    BY <1>1, <1>4 DEF Cell
  <2>2. (pos + (k - 1)) % CONSBUFSIZE = After(pos, k - 1)
    BY <2>1, AfterPlaces
  <2>3. pos + (k - 1) = pos + k - 1
    BY <1>1, <1>4 DEF Cell
  <2>4. QED
    BY <2>2, <2>3
<1>6. ASSUME Holds(r, pos, q) PROVE q = g
  <2>1. Len(q) \in Cell
    BY <1>1, <1>6 DEF Holds, Cell
  <2>2. Len(q) = d
    BY <1>4, <1>6, <2>1 DEF Holds
  <2>3. ASSUME NEW k \in 1 .. d PROVE q[k] = g[k]
    BY <1>5, <1>6, <2>2 DEF Holds
  <2>4. q = [k \in 1 .. d |-> q[k]]
    BY <2>2
  <2>5. QED
    BY <2>3, <2>4
<1>7. ASSUME q = g PROVE Holds(r, pos, q)
  <2>1. Len(q) = d
    BY <1>4, <1>7 DEF Cell
  <2>2. \A k \in 1 .. Len(q) : r.buf[After(pos, k - 1)] = q[k]
    BY <1>5, <1>7, <2>1
  <2>3. Len(q) < CONSBUFSIZE /\ r.wpos = After(pos, Len(q))
    BY <1>1, <1>4, <2>1 DEF Cell
  <2>4. QED
    BY <1>1, <2>2, <2>3 DEF Holds
<1>8. QED
  BY <1>6, <1>7 DEF d

(* Reading takes the head off. *)
LEMMA ReadHead ==
  ASSUME NEW r, NEW pos \in Cell, NEW q, Holds(r, pos, q), r.wpos # pos
  PROVE  /\ q # <<>> /\ r.buf[pos] = Head(q) /\ Head(q) \in Char
         /\ Tail(q) \in Seq(Char) /\ Len(Tail(q)) = Len(q) - 1
         /\ Holds(r, Advance(pos), Tail(q))
<1>1. q \in Seq(Char) /\ Len(q) \in Cell
  BY ConsoleAssumption DEF Holds, Cell
<1>2. q # <<>>
  <2>1. After(pos, 0) = pos
    BY AfterPlaces
  <2>2. QED
    BY <2>1 DEF Holds
<1>3. Len(q) >= 1 /\ Head(q) = q[1] /\ Head(q) \in Char
      /\ Tail(q) \in Seq(Char) /\ Len(Tail(q)) = Len(q) - 1
      /\ \A k \in 1 .. Len(q) - 1 : Tail(q)[k] = q[k + 1]
  BY <1>1, <1>2, HeadTailProperties
<1>4. r.buf[pos] = Head(q)
  <2>1. r.buf[After(pos, 1 - 1)] = q[1]
    BY <1>1, <1>3 DEF Holds
  <2>2. QED
    BY <1>3, <2>1, AfterPlaces
<1>5. r.wpos = After(Advance(pos), Len(q) - 1)
  <2>1. Len(q) - 1 \in Cell /\ (Len(q) - 1) + 1 = Len(q)
    BY <1>1, <1>3, ConsoleAssumption DEF Cell
  <2>2. After(Advance(pos), Len(q) - 1) = After(pos, (Len(q) - 1) + 1)
    BY <2>1, AfterPlaces
  <2>3. QED
    BY <2>1, <2>2 DEF Holds
<1>6. ASSUME NEW k \in 1 .. Len(q) - 1
      PROVE  r.buf[After(Advance(pos), k - 1)] = Tail(q)[k]
  <2>1. k - 1 \in Cell /\ (k - 1) + 1 = k /\ k + 1 \in 1 .. Len(q)
        /\ (k + 1) - 1 = k
    BY <1>1, ConsoleAssumption DEF Cell
  <2>2. After(Advance(pos), k - 1) = After(pos, (k - 1) + 1)
    BY <2>1, AfterPlaces
  <2>3. r.buf[After(pos, (k + 1) - 1)] = q[k + 1]
    BY <2>1 DEF Holds
  <2>4. QED
    BY <1>3, <2>1, <2>2, <2>3
<1>7. Len(q) - 1 < CONSBUFSIZE
  BY <1>1, ConsoleAssumption DEF Cell
<1>8. Holds(r, Advance(pos), Tail(q))
  BY <1>3, <1>5, <1>6, <1>7 DEF Holds
<1>9. QED
  BY <1>2, <1>3, <1>4, <1>8

------------------------------------------------------------------------------
Cells == 0 .. CRT_SIZE - 1
Screens == [pos : Cells, buf : [Cells -> Visible \cup {Blank}]]

(* A line that fits the buffer fits the screen less one row. *)
LEMMA ScreenSize ==
  /\ CRT_SIZE \in Int /\ CRT_COLS \in Nat /\ 0 < CRT_COLS
  /\ CRT_COLS < CRT_SIZE /\ BUFLEN <= CRT_SIZE - CRT_COLS
<1>1. CRT_SIZE \in Int
  BY ConsoleAssumption DEF CRT_SIZE
<1>2. QED
  BY <1>1, ConsoleAssumption

(* Scrolling by a row brings a position back onto the screen. *)
LEMMA ScrollType ==
  ASSUME NEW p \in 0 .. CRT_SIZE + CRT_COLS - 1,
         NEW b \in [Cells -> Visible \cup {Blank}]
  PROVE  LET s == [pos |-> p, buf |-> b]
         IN  /\ Scroll(s) \in Screens
             /\ p < CRT_SIZE => Scroll(s) = s
<1> DEFINE s == [pos |-> p, buf |-> b]
<1>1. CASE p < CRT_SIZE
  <2>1. s.pos = p /\ s.buf = b
    OBVIOUS
  <2>2. Scroll(s) = s
    BY <1>1, <2>1, ScreenSize DEF Scroll
  <2>3. p \in Cells
    BY <1>1, ScreenSize DEF Cells
  <2>4. QED
    BY <2>2, <2>3 DEF Screens
<1>2. CASE p >= CRT_SIZE
  <2> DEFINE c == [k \in Cells |->
                     IF k < CRT_SIZE - CRT_COLS THEN b[k + CRT_COLS] ELSE Blank]
  <2>1. Scroll(s) = [pos |-> p - CRT_COLS, buf |-> c]
    BY <1>2 DEF Scroll
  <2>2. p - CRT_COLS \in Cells
    BY <1>2, ScreenSize DEF Cells
  <2>3. c \in [Cells -> Visible \cup {Blank}]
    BY ScreenSize DEF Cells
  <2>4. ~(p < CRT_SIZE)
    BY <1>2, ScreenSize
  <2>5. QED
    BY <2>1, <2>2, <2>3, <2>4 DEF Screens
<1>3. QED
  BY <1>1, <1>2, ScreenSize

(* The start of a row is on the screen, not after the cursor. *)
LEMMA RowStartOK ==
  ASSUME NEW p \in Nat
  PROVE  RowStart(p) \in 0 .. p
<1>1. p % CRT_COLS \in 0 .. CRT_COLS - 1 /\ p % CRT_COLS <= p
  BY ScreenSize
<1>2. QED
  BY <1>1, ScreenSize DEF RowStart

(* cga_putc of one character keeps the cursor on the screen. *)
LEMMA PutOneType ==
  ASSUME NEW s \in Screens, NEW ch \in Char \cup {Blank}, ch # "tab"
  PROVE  PutOne(s, ch) \in Screens
<1> DEFINE V == Visible \cup {Blank}
<1>1. s.pos \in Cells /\ s.buf \in [Cells -> V] /\ s.pos \in 0 .. CRT_SIZE - 1
      /\ s = [pos |-> s.pos, buf |-> s.buf]
  BY DEF Screens, Cells
<1>2. \A p \in 0 .. CRT_SIZE + CRT_COLS - 1, b \in [Cells -> V] :
        Scroll([pos |-> p, buf |-> b]) \in Screens
  BY ScrollType
<1>3. CASE ch = "bs" /\ s.pos > 0
  <2>1. PutOne(s, ch) = Scroll([pos |-> s.pos - 1,
                                buf |-> [s.buf EXCEPT ![s.pos - 1] = Blank]])
    <3>1. s.pos # 0 /\ ch = "bs" /\ s.pos > 0
      BY <1>1, <1>3
    <3>2. QED
      BY <3>1, Zenon DEF PutOne
  <2>2. s.pos - 1 \in 0 .. CRT_SIZE + CRT_COLS - 1
    BY <1>1, <1>3, ScreenSize
  <2>3. [s.buf EXCEPT ![s.pos - 1] = Blank] \in [Cells -> V]
    BY <1>1
  <2>4. QED
    BY <1>2, <2>1, <2>2, <2>3
<1>4. CASE ch = "bs" /\ s.pos = 0
  <2>1. PutOne(s, ch) = Scroll(s)
    <3>1. s.pos = 0 /\ ch = "bs" /\ ~(s.pos > 0)
      BY <1>1, <1>4
    <3>2. QED
      BY <3>1, Zenon DEF PutOne
  <2>2. s.pos \in 0 .. CRT_SIZE + CRT_COLS - 1
    BY <1>1, ScreenSize
  <2>3. QED
    BY <1>1, <1>2, <2>1, <2>2
<1>5. CASE ch = "nl"
  <2>1. PutOne(s, ch) = Scroll([pos |-> RowStart(s.pos + CRT_COLS), buf |-> s.buf])
    <3>1. PutOne(s, ch) = Scroll([s EXCEPT !.pos = RowStart(s.pos + CRT_COLS)])
      <4>1. ch # "bs"
        BY <1>5
      <4>2. QED
        BY <1>5, <4>1 DEF PutOne
    <3>2. [s EXCEPT !.pos = RowStart(s.pos + CRT_COLS)]
            = [pos |-> RowStart(s.pos + CRT_COLS), buf |-> s.buf]
      BY DEF Screens
    <3>3. QED
      BY <3>1, <3>2
  <2>2. s.pos + CRT_COLS \in Nat
    BY <1>1, ScreenSize
  <2>3. RowStart(s.pos + CRT_COLS) \in 0 .. s.pos + CRT_COLS
    BY <2>2, RowStartOK
  <2>4. RowStart(s.pos + CRT_COLS) \in 0 .. CRT_SIZE + CRT_COLS - 1
    BY <1>1, <2>3, ScreenSize
  <2>5. QED
    BY <1>1, <1>2, <2>1, <2>4
<1>6. CASE ch = "cr"
  <2>1. PutOne(s, ch) = Scroll([pos |-> RowStart(s.pos), buf |-> s.buf])
    <3>1. PutOne(s, ch) = Scroll([s EXCEPT !.pos = RowStart(s.pos)])
      <4>1. ch # "bs" /\ ch # "nl"
        BY <1>6
      <4>2. QED
        BY <1>6, <4>1 DEF PutOne
    <3>2. [s EXCEPT !.pos = RowStart(s.pos)]
            = [pos |-> RowStart(s.pos), buf |-> s.buf]
      BY DEF Screens
    <3>3. QED
      BY <3>1, <3>2
  <2>2. s.pos \in Nat
    BY <1>1, ScreenSize
  <2>3. RowStart(s.pos) \in 0 .. s.pos
    BY <2>2, RowStartOK
  <2>4. RowStart(s.pos) \in 0 .. CRT_SIZE + CRT_COLS - 1
    BY <1>1, <2>3, ScreenSize
  <2>5. QED
    BY <1>1, <1>2, <2>1, <2>4
<1>7. CASE ch \notin {"bs", "nl", "cr"}
  <2>1. PutOne(s, ch) = Scroll([pos |-> s.pos + 1,
                                buf |-> [s.buf EXCEPT ![s.pos] = ch]])
    BY <1>7 DEF PutOne
  <2>2. s.pos + 1 \in 0 .. CRT_SIZE + CRT_COLS - 1
    BY <1>1, ScreenSize
  <2>3. ch \in V
    BY <1>7 DEF Char
  <2>4. [s.buf EXCEPT ![s.pos] = ch] \in [Cells -> V]
    BY <1>1, <2>3
  <2>5. QED
    BY <1>2, <2>1, <2>2, <2>4
<1>8. s.pos > 0 \/ s.pos = 0
  BY <1>1
<1>9. QED
  BY <1>3, <1>4, <1>5, <1>6, <1>7, <1>8

(* So does cga_putc, which expands tabs. *)
LEMMA PutType ==
  ASSUME NEW s \in Screens, NEW ch \in Char
  PROVE  cga_putc(s, ch) \in Screens
<1>1. CASE ch # "tab"
  BY <1>1, PutOneType DEF cga_putc
<1>2. CASE ch = "tab"
  <2>1. \A x \in Screens : PutOne(x, Blank) \in Screens
    BY PutOneType DEF Blank
  <2> DEFINE five == PutOne(PutOne(PutOne(PutOne(PutOne(s, Blank), Blank),
                                          Blank), Blank), Blank)
  <2>2. five \in Screens
    BY <2>1
  <2>3. cga_putc(s, ch) = Scroll(five)
    BY <1>2 DEF cga_putc
  <2> HIDE DEF five
  <2>4. /\ five = [pos |-> five.pos, buf |-> five.buf]
        /\ five.pos \in Cells /\ five.buf \in [Cells -> Visible \cup {Blank}]
    BY <2>2 DEF Screens
  <2>5. five.pos \in 0 .. CRT_SIZE + CRT_COLS - 1
    BY <2>4, ScreenSize DEF Cells
  <2>6. QED
    BY <2>3, <2>4, <2>5, ScrollType
<1>3. QED
  BY <1>1, <1>2

------------------------------------------------------------------------------
(* What readline types stands on the screen; it keeps doing so when the    *)
(* line gets longer or shorter by one.                                     *)
Line == [0 .. BUFLEN - 1 -> Visible \cup {"none"}]

Shows(s, l, m) ==
  /\ m <= s.pos
  /\ \A k \in 0 .. m - 1 : s.buf[s.pos - m + k] = l[k]

(* An erased character leaves the rest of the line on the screen. *)
LEMMA ShowsErased ==
  ASSUME NEW s \in Screens, NEW l \in Line, NEW m \in 1 .. BUFLEN - 1,
         Shows(s, l, m)
  PROVE  Shows(cga_putc(s, "bs"), l, m - 1)
<1> DEFINE p == s.pos
           b == [s.buf EXCEPT ![p - 1] = Blank]
<1>1. p \in Cells /\ s.buf \in [Cells -> Visible \cup {Blank}]
  BY DEF Screens
<1>2. p \in 0 .. CRT_SIZE - 1 /\ m <= p /\ m \in Nat /\ m >= 1
      /\ p # 0 /\ p > 0
  BY <1>1, ScreenSize, ConsoleAssumption DEF Cells, Shows
<1>3. cga_putc(s, "bs") = Scroll([pos |-> p - 1, buf |-> b])
  <2>1. cga_putc(s, "bs") = PutOne(s, "bs")
    BY DEF cga_putc
  <2>2. PutOne(s, "bs") = Scroll([pos |-> p - 1, buf |-> b])
    BY <1>2, Zenon DEF PutOne
  <2>3. QED
    BY <2>1, <2>2
<1>4. \A k \in 0 .. m - 1 : s.buf[p - m + k] = l[k]
  BY DEF Shows
<1> HIDE DEF p
<1>5. /\ p - 1 \in 0 .. CRT_SIZE + CRT_COLS - 1 /\ p - 1 < CRT_SIZE
      /\ p - 1 \in Cells
  BY <1>2, ScreenSize DEF Cells
<1>6. b \in [Cells -> Visible \cup {Blank}]
  BY <1>1
<1>7. cga_putc(s, "bs") = [pos |-> p - 1, buf |-> b]
  BY <1>3, <1>5, <1>6, ScrollType
<1>8. ASSUME NEW k \in 0 .. (m - 1) - 1
      PROVE  b[(p - 1) - (m - 1) + k] = l[k]
  <2>1. (p - 1) - (m - 1) + k = p - m + k /\ p - m + k # p - 1
        /\ p - m + k \in Cells /\ k \in 0 .. m - 1
    BY <1>2, ScreenSize DEF Cells
  <2>2. s.buf[p - m + k] = l[k]
    BY <1>4, <2>1
  <2>3. QED
    BY <1>1, <2>1, <2>2
<1>9. m - 1 <= p - 1
  BY <1>2
<1> HIDE DEF b
<1>10. QED
  BY <1>7, <1>8, <1>9 DEF Shows

(* An echoed character joins the line on the screen. *)
LEMMA ShowsStored ==
  ASSUME NEW s \in Screens, NEW l \in Line, NEW m \in 0 .. BUFLEN - 2,
         Shows(s, l, m), NEW ch \in Visible
  PROVE  Shows(cga_putc(s, ch), [l EXCEPT ![m] = ch], m + 1)
<1> DEFINE b == [s.buf EXCEPT ![s.pos] = ch]
           l1 == [l EXCEPT ![m] = ch]
           p == s.pos
<1>1. p \in Cells /\ s.buf \in [Cells -> Visible \cup {Blank}]
  BY DEF Screens
<1>2. p \in 0 .. CRT_SIZE - 1 /\ m <= p /\ m \in Nat
  BY <1>1 DEF Cells, Shows
<1>3. cga_putc(s, ch) = Scroll([pos |-> p + 1, buf |-> b])
  <2>1. ch \notin {"nl", "cr", "bs", "tab"}
    BY CharacterFacts
  <2>2. cga_putc(s, ch) = PutOne(s, ch)
    BY <2>1 DEF cga_putc
  <2>3. ch # "nl" /\ ch # "cr" /\ ch # "bs"
    BY <2>1
  <2>4. PutOne(s, ch) = Scroll([pos |-> p + 1, buf |-> b])
    BY <2>3, Zenon DEF PutOne
  <2>5. QED
    BY <2>2, <2>4
<1>4. b \in [Cells -> Visible \cup {Blank}]
  BY <1>1
<1>5. p + 1 \in 0 .. CRT_SIZE + CRT_COLS - 1
  BY <1>2, ScreenSize
<1>6. ASSUME NEW k \in 0 .. (m + 1) - 1
      PROVE  b[(p + 1) - (m + 1) + k] = l1[k]
  <2>1. (p + 1) - (m + 1) + k = p - m + k /\ p - m + k \in Cells
        /\ k \in 0 .. m /\ m \in 0 .. BUFLEN - 1 /\ k \in 0 .. BUFLEN - 1
    BY <1>2, ConsoleAssumption, ScreenSize DEF Cells
  <2>2. l \in [0 .. BUFLEN - 1 -> Visible \cup {"none"}]
    BY DEF Line
  <2>3. CASE k = m
    <3>1. p - m + k = p
      BY <1>2, <2>3
    <3>2. b[p] = ch /\ l1[m] = ch
      BY <1>1, <2>1, <2>2
    <3>3. QED
      BY <2>1, <2>3, <3>1, <3>2
  <2>4. CASE k # m
    <3>1. p - m + k # p /\ k \in 0 .. m - 1
      BY <1>2, <2>1, <2>4
    <3>2. b[p - m + k] = s.buf[p - m + k] /\ l1[k] = l[k]
      BY <1>1, <2>1, <2>2, <2>4, <3>1
    <3>3. QED
      BY <2>1, <3>1, <3>2 DEF Shows
  <2>5. QED
    BY <2>3, <2>4
<1>7. m + 1 <= p + 1
  BY <1>2
<1>8. CASE p + 1 < CRT_SIZE
  <2>1. cga_putc(s, ch) = [pos |-> p + 1, buf |-> b]
    BY <1>3, <1>4, <1>5, <1>8, ScrollType
  <2>2. QED
    BY <1>6, <1>7, <2>1 DEF Shows
<1>9. CASE p + 1 >= CRT_SIZE
  <2> DEFINE c == [k \in Cells |->
                     IF k < CRT_SIZE - CRT_COLS THEN b[k + CRT_COLS] ELSE Blank]
             q == (p + 1) - CRT_COLS
  <2>1. cga_putc(s, ch) = [pos |-> q, buf |-> c]
    <3>1. Scroll([pos |-> p + 1, buf |-> b])
            = [pos |-> q, buf |-> [k \in DOMAIN b |->
                 IF k < CRT_SIZE - CRT_COLS THEN b[k + CRT_COLS] ELSE Blank]]
      BY <1>9 DEF Scroll
    <3>2. DOMAIN b = Cells
      BY <1>4
    <3>3. QED
      BY <1>3, <3>1, <3>2
  <2>2. p + 1 = CRT_SIZE
    BY <1>2, <1>9, ScreenSize
  <2>3. m + 1 <= q
    BY <1>2, <2>2, ScreenSize, ConsoleAssumption
  <2>4. ASSUME NEW k \in 0 .. (m + 1) - 1
        PROVE  c[q - (m + 1) + k] = l1[k]
    <3>1. /\ q - (m + 1) + k \in Cells /\ q - (m + 1) + k < CRT_SIZE - CRT_COLS
          /\ q - (m + 1) + k + CRT_COLS = (p + 1) - (m + 1) + k
      BY <1>2, <2>2, <2>3, ScreenSize DEF Cells
    <3>2. c[q - (m + 1) + k] = b[q - (m + 1) + k + CRT_COLS]
      BY <3>1
    <3>3. QED
      BY <1>6, <3>1, <3>2
  <2> HIDE DEF c, q
  <2>5. QED
    BY <2>1, <2>3, <2>4 DEF Shows
<1>10. QED
  BY <1>2, <1>8, <1>9, ScreenSize

------------------------------------------------------------------------------
(* The three together are inductive. *)
ConsoleInv == TypeOK /\ RingIsQueue /\ ScreenShowsLine

(* The properties in terms of one ring and one screen. *)
LEMMA InvForms ==
  ASSUME TypeOK
  PROVE  /\ Ring \in Rings /\ Screen \in Screens /\ rpos \in Cell
         /\ line \in Line /\ n \in 0 .. BUFLEN - 1
         /\ RingIsQueue <=> Holds(Ring, rpos, unread)
         /\ ScreenShowsLine <=> Shows(Screen, line, n)
<1>1. Ring \in Rings /\ rpos \in Cell
  BY DEF TypeOK, Ring, Rings, Cell, Given
<1>2. Ring.buf = buf /\ Ring.wpos = wpos /\ unread \in Seq(Char)
  BY DEF Ring, TypeOK
<1>3. RingIsQueue <=> Holds(Ring, rpos, unread)
  BY <1>1, <1>2, QueueHolds DEF RingIsQueue
<1>4. Screen \in Screens
  BY DEF TypeOK, Screen, Screens, Cells
<1>5. ScreenShowsLine <=> Shows(Screen, line, n)
  BY DEF ScreenShowsLine, Screen, Shows
<1>6. QED
  BY <1>1, <1>3, <1>4, <1>5 DEF TypeOK, Line

(* What Echo leaves on the screen. *)
LEMMA EchoOK ==
  ASSUME TypeOK, NEW ch \in Char, Echo(ch)
  PROVE  /\ Screen' = cga_putc(Screen, ch)
         /\ crt_pos' \in 0 .. CRT_SIZE - 1
         /\ crt_buf' \in [0 .. CRT_SIZE - 1 -> Visible \cup {Blank}]
<1> DEFINE s == cga_putc(Screen, ch)
<1>1. s \in Screens
  BY InvForms, PutType
<1> HIDE DEF s
<1>2. s = [pos |-> s.pos, buf |-> s.buf] /\ s.pos \in Cells
      /\ s.buf \in [Cells -> Visible \cup {Blank}]
  BY <1>1 DEF Screens
<1>3. crt_pos' = s.pos /\ crt_buf' = s.buf
  BY DEF Echo, s
<1>4. Screen' = [pos |-> crt_pos', buf |-> crt_buf']
  BY DEF Screen
<1>5. QED
  BY <1>2, <1>3, <1>4 DEF s, Cells

(* A turn of readline's loop keeps the screen and the line together. *)
LEMMA EditOK ==
  ASSUME TypeOK, ScreenShowsLine, NEW ch \in Char, Edit(ch)
  PROVE  /\ line' \in Line /\ n' \in 0 .. BUFLEN - 1
         /\ crt_pos' \in 0 .. CRT_SIZE - 1
         /\ crt_buf' \in [0 .. CRT_SIZE - 1 -> Visible \cup {Blank}]
         /\ ScreenShowsLine'
<1>1. Screen \in Screens /\ line \in Line /\ n \in 0 .. BUFLEN - 1
      /\ Shows(Screen, line, n) /\ BUFLEN \in Nat
  BY InvForms, ConsoleAssumption
<1>2. Shows(Screen', line', n') => ScreenShowsLine'
  BY DEF ScreenShowsLine, Screen, Shows
<1>3. CASE Erases(ch) /\ Echo("bs") /\ n' = n - 1 /\ line' = line
  <2>1. n \in 1 .. BUFLEN - 1 /\ "bs" \in Char
    BY <1>1, <1>3 DEF Erases, Char
  <2>2. Shows(cga_putc(Screen, "bs"), line, n - 1)
    BY <1>1, <2>1, ShowsErased
  <2>3. n - 1 \in 0 .. BUFLEN - 1
    BY <1>1, <2>1
  <2>4. QED
    BY <1>1, <1>2, <1>3, <2>1, <2>2, <2>3, EchoOK
<1>4. CASE /\ Stores(ch) /\ Echo(ch)
           /\ line' = [line EXCEPT ![n] = ch] /\ n' = n + 1
  <2>1. ch \in Visible /\ n \in 0 .. BUFLEN - 2
    BY <1>1, <1>4 DEF Stores
  <2>2. Shows(cga_putc(Screen, ch), [line EXCEPT ![n] = ch], n + 1)
    BY <1>1, <2>1, ShowsStored
  <2>3. n + 1 \in 0 .. BUFLEN - 1
    BY <1>1, <2>1
  <2>4. [line EXCEPT ![n] = ch] \in Line
    BY <1>1, <2>1 DEF Line
  <2>5. QED
    BY <1>2, <1>4, <2>2, <2>3, <2>4, EchoOK
<1>5. CASE Ends(ch) /\ Echo("nl") /\ line' = line /\ n' = 0
  <2>1. "nl" \in Char
    BY DEF Char
  <2>2. /\ crt_pos' \in 0 .. CRT_SIZE - 1
        /\ crt_buf' \in [0 .. CRT_SIZE - 1 -> Visible \cup {Blank}]
    BY <1>5, <2>1, EchoOK
  <2>3. 0 \in 0 .. BUFLEN - 1
    BY <1>1
  <2>4. 0 <= crt_pos' /\ 0 .. 0 - 1 = {}
    BY <2>2, ScreenSize
  <2>5. ScreenShowsLine'
    BY <1>5, <2>4 DEF ScreenShowsLine
  <2>6. QED
    BY <1>1, <1>5, <2>2, <2>3, <2>5
<1>6. CASE Quiet /\ UNCHANGED <<line, n>>
  BY <1>1, <1>6 DEF Quiet, ScreenShowsLine, TypeOK
<1>7. QED
  BY <1>3, <1>4, <1>5, <1>6 DEF Edit

(* What a poll of both devices leaves in the ring. *)
LEMMA PolledOK ==
  ASSUME ConsoleInv
  PROVE  /\ Polled \in Rings /\ Holds(Polled, rpos, Waiting)
         /\ Waiting \in Seq(Char)
<1> DEFINE r1 == cons_intr(Ring, serial)
           q1 == Kept(unread, serial)
<1>1. /\ TypeOK /\ Ring \in Rings /\ rpos \in Cell
      /\ Holds(Ring, rpos, unread)
  BY InvForms DEF ConsoleInv
<1>2. serial \in Seq(Given) /\ kbd \in Seq(Given)
  <2>1. serial \in Seq(Char) /\ kbd \in Seq(Given)
    BY <1>1 DEF TypeOK, Given
  <2>2. Char \subseteq Given
    BY CharacterFacts
  <2>3. QED
    BY <2>1, <2>2
<1>3. r1 \in Rings /\ Holds(r1, rpos, q1)
  BY <1>1, <1>2, IntrOK
<1> HIDE DEF r1, q1
<1>4. /\ cons_intr(r1, kbd) \in Rings
      /\ Holds(cons_intr(r1, kbd), rpos, Kept(q1, kbd))
  BY <1>1, <1>2, <1>3, IntrOK
<1>5. QED
  BY <1>4 DEF Polled, Waiting, r1, q1, Holds

(* The console starts in the invariant. *)
LEMMA ConsoleInit == Init => ConsoleInv
<1> SUFFICES ASSUME Init PROVE ConsoleInv
  OBVIOUS
<1>1. TypeOK
  BY ConsoleAssumption, ScreenSize DEF Init, TypeOK
<1>2. Holds(Ring, rpos, unread)
  <2>1. rpos = 0 /\ unread = <<>> /\ Len(<<>>) = 0 /\ 1 .. 0 = {}
    BY DEF Init
  <2>2. Ring \in Rings /\ Ring.wpos = 0 /\ 0 \in Cell /\ After(0, 0) = 0
    BY <1>1, InvForms, AfterPlaces, ConsoleAssumption DEF Init, Ring, Cell
  <2>3. QED
    BY <2>1, <2>2, ConsoleAssumption DEF Holds, Rings
<1>3. ScreenShowsLine
  BY DEF Init, ScreenShowsLine
<1>4. QED
  BY <1>1, <1>2, <1>3, InvForms DEF ConsoleInv

(* Every step keeps the invariant. *)
LEMMA ConsoleStep == ConsoleInv /\ [Next]_vars => ConsoleInv'
<1> SUFFICES ASSUME ConsoleInv, [Next]_vars PROVE ConsoleInv'
  OBVIOUS
<1>0. TypeOK /\ RingIsQueue /\ ScreenShowsLine /\ CONSBUFSIZE \in Nat
  BY ConsoleAssumption DEF ConsoleInv
<1>1. ASSUME NEW ch \in Char, SerialArrives(ch) PROVE ConsoleInv'
  BY <1>0, <1>1
     DEF SerialArrives, ConsoleInv, TypeOK, RingIsQueue, ScreenShowsLine
<1>2. ASSUME NEW ch \in Char \cup {"none"}, KeyPressed(ch) PROVE ConsoleInv'
  BY <1>0, <1>2
     DEF KeyPressed, ConsoleInv, TypeOK, RingIsQueue, ScreenShowsLine
<1> DEFINE q == Waiting
<1>3. /\ Polled \in Rings /\ Holds(Polled, rpos, q) /\ q \in Seq(Char)
      /\ rpos \in Cell
      /\ Polled.buf \in [0 .. CONSBUFSIZE - 1 -> Char \cup {"none"}]
      /\ Polled.wpos \in 0 .. CONSBUFSIZE - 1
  BY <1>0, PolledOK, InvForms DEF Rings, Cell, Given
<1> HIDE DEF q
<1>4. CASE Getchar
  <2>1. /\ rpos # Polled.wpos /\ buf' = Polled.buf /\ wpos' = Polled.wpos
        /\ serial' = <<>> /\ kbd' = <<>> /\ rpos' = Advance(rpos)
        /\ unread' = Tail(q) /\ Edit(Polled.buf[rpos])
    BY <1>4 DEF Getchar, q
  <2>2. /\ Polled.buf[rpos] \in Char /\ Holds(Polled, rpos', unread')
        /\ unread' \in Seq(Char)
    BY <1>3, <2>1, ReadHead
  <2>3. rpos' \in 0 .. CONSBUFSIZE - 1
    BY <1>0, <1>3, <2>1 DEF Advance, Cell
  <2>4. /\ line' \in Line /\ n' \in 0 .. BUFLEN - 1
        /\ crt_pos' \in 0 .. CRT_SIZE - 1
        /\ crt_buf' \in [0 .. CRT_SIZE - 1 -> Visible \cup {Blank}]
        /\ ScreenShowsLine'
    BY <1>0, <2>1, <2>2, EditOK
  <2>5. TypeOK'
    BY <1>3, <2>1, <2>2, <2>3, <2>4 DEF TypeOK, Line
  <2>6. RingIsQueue'
    <3>1. rpos' \in Cell
      BY <2>3 DEF Cell
    <3>2. unread' = [k \in 1 .. (Polled.wpos - rpos') % CONSBUFSIZE |->
                       Polled.buf[(rpos' + k - 1) % CONSBUFSIZE]]
      BY <1>3, <2>2, <3>1, QueueHolds
    <3>3. QED
      BY <2>1, <3>2 DEF RingIsQueue
  <2>7. QED
    BY <2>4, <2>5, <2>6 DEF ConsoleInv
<1>5. CASE GetcNothing
  <2>1. /\ rpos = Polled.wpos /\ serial' = <<>> /\ kbd' = <<>>
        /\ buf' = Polled.buf /\ wpos' = Polled.wpos /\ unread' = q
        /\ UNCHANGED <<rpos, line, n, crt_pos, crt_buf>>
    BY <1>5 DEF GetcNothing, q
  <2>2. TypeOK'
    BY <1>0, <1>3, <2>1 DEF TypeOK
  <2>3. ScreenShowsLine'
    BY <1>0, <2>1 DEF ScreenShowsLine
  <2>4. RingIsQueue'
    <3>1. q = [k \in 1 .. (Polled.wpos - rpos) % CONSBUFSIZE |->
                 Polled.buf[(rpos + k - 1) % CONSBUFSIZE]]
      BY <1>3, QueueHolds
    <3>2. QED
      BY <2>1, <3>1 DEF RingIsQueue
  <2>5. QED
    BY <2>2, <2>3, <2>4 DEF ConsoleInv
<1>6. ASSUME NEW ch \in Char, Cputchar(ch) PROVE ConsoleInv'
  <2>1. /\ n = 0 /\ Echo(ch)
        /\ UNCHANGED <<serial, kbd, buf, rpos, wpos, line, n, unread>>
    BY <1>6 DEF Cputchar
  <2>2. /\ crt_pos' \in 0 .. CRT_SIZE - 1
        /\ crt_buf' \in [0 .. CRT_SIZE - 1 -> Visible \cup {Blank}]
    BY <1>0, <2>1, EchoOK
  <2>3. TypeOK' /\ RingIsQueue'
    BY <1>0, <2>1, <2>2 DEF TypeOK, RingIsQueue
  <2>4. ScreenShowsLine'
    <3>1. 0 <= crt_pos' /\ 0 .. 0 - 1 = {} /\ n' = 0
      BY <2>1, <2>2, ScreenSize
    <3>2. QED
      BY <3>1 DEF ScreenShowsLine
  <2>5. QED
    BY <2>3, <2>4 DEF ConsoleInv
<1>7. CASE UNCHANGED vars
  BY <1>0, <1>7 DEF vars, ConsoleInv, TypeOK, RingIsQueue, ScreenShowsLine
<1>8. QED
  BY <1>1, <1>2, <1>4, <1>5, <1>6, <1>7 DEF Next

(* ConsoleInv holds for every size of the ring, the line and the screen.   *)
THEOREM ConsoleInvariant == Spec => []ConsoleInv
<1>1. ConsoleInv /\ [Next]_vars => ConsoleInv'
  BY ConsoleStep
<1>2. QED
  BY <1>1, ConsoleInit, PTL DEF Spec

(* The indices stay inside cons.buf, readline's buf and crt_buf. *)
THEOREM ConsoleTypeCorrect == Spec => []TypeOK
<1>1. ConsoleInv => TypeOK
  BY DEF ConsoleInv
<1>2. QED
  BY <1>1, ConsoleInvariant, PTL

(* cons_getc returns what cons_intr took in, in order and once, however    *)
(* much comes in: what is lost is lost only when the last slot is filled,  *)
(* and then it is all the ring held.                                       *)
THEOREM ConsoleRingIsQueue == Spec => []RingIsQueue
<1>1. ConsoleInv => RingIsQueue
  BY DEF ConsoleInv
<1>2. QED
  BY <1>1, ConsoleInvariant, PTL

(* The line readline will return is the one on the screen. *)
THEOREM ConsoleScreenShowsLine == Spec => []ScreenShowsLine
<1>1. ConsoleInv => ScreenShowsLine
  BY DEF ConsoleInv
<1>2. QED
  BY <1>1, ConsoleInvariant, PTL
=============================================================================

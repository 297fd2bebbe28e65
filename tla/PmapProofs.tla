----------------------------- MODULE PmapProofs ------------------------------
(***************************************************************************)
(* The page allocator and the page tables, proved for any number of pages  *)
(* and any size of tables, as long as no page is mapped so often that its  *)
(* 16-bit pp_ref wraps.                                                    *)
(***************************************************************************)
EXTENDS Pmap, FiniteSetTheorems, SequenceTheorems, TLAPS

------------------------------------------------------------------------------
(* Pointers: a directory, a slot of a directory, a slot of a table. *)

(* The three kinds of pointer are told apart by their length. *)
LEMMA Lengths ==
  \A a, b, c, x, y, z : <<a>> # <<x, y>> /\ <<a>> # <<x, y, z>> /\ <<a, b>> # <<x, y, z>>
<1> SUFFICES ASSUME NEW a, NEW b, NEW c, NEW x, NEW y, NEW z
             PROVE  <<a>> # <<x, y>> /\ <<a>> # <<x, y, z>> /\ <<a, b>> # <<x, y, z>>
  OBVIOUS
<1>1. Len(<<a>>) = 1 /\ Len(<<x, y>>) = 2 /\ Len(<<a, b>>) = 2 /\ Len(<<x, y, z>>) = 3
  OBVIOUS
<1>2. QED
  BY <1>1

(* The pointers to a page: directories, their slots, their entries. *)
LEMMA PointerKinds ==
  ASSUME NEW m, NEW D, NEW p
  PROVE  /\ \A a : <<a>> \in Pointers(m, D, p) <=> a \in D /\ a = p
         /\ \A a, b : <<a, b>> \in Pointers(m, D, p) <=>
              a \in D /\ b \in Pdx /\ HasTable(m, a, b) /\ Table(m, a, b) = p
         /\ \A a, b, c : <<a, b, c>> \in Pointers(m, D, p) <=>
              /\ a \in D /\ b \in Pdx /\ c \in Ptx
              /\ page_lookup(m, a, b, c) # NULL
              /\ page_lookup(m, a, b, c).pp = p
         /\ \A s \in Pointers(m, D, p) :
              \/ s = <<p>>
              \/ \E a \in D, b \in Pdx : s = <<a, b>>
              \/ \E a \in D, b \in Pdx, c \in Ptx : s = <<a, b, c>>
<1>1. ASSUME NEW a
      PROVE  <<a>> \in Pointers(m, D, p) <=> a \in D /\ a = p
  <2>1. <<a>> \notin D \X Pdx /\ <<a>> \notin D \X Pdx \X Ptx
    BY Lengths
  <2>2. <<a>> \in {<<d>> : d \in D \cap {p}} <=> a \in D /\ a = p
    OBVIOUS
  <2>3. QED
    BY <2>1, <2>2 DEF Pointers
<1>2. ASSUME NEW a, NEW b
      PROVE  <<a, b>> \in Pointers(m, D, p) <=>
              a \in D /\ b \in Pdx /\ HasTable(m, a, b) /\ Table(m, a, b) = p
  <2>1. <<a, b>> \notin {<<d>> : d \in D \cap {p}} /\ <<a, b>> \notin D \X Pdx \X Ptx
    BY Lengths
  <2>2. <<a, b>> \in D \X Pdx <=> a \in D /\ b \in Pdx
    OBVIOUS
  <2>3. QED
    BY <2>1, <2>2 DEF Pointers
<1>3. ASSUME NEW a, NEW b, NEW c
      PROVE  <<a, b, c>> \in Pointers(m, D, p) <=>
              /\ a \in D /\ b \in Pdx /\ c \in Ptx
              /\ page_lookup(m, a, b, c) # NULL
              /\ page_lookup(m, a, b, c).pp = p
  <2>1. <<a, b, c>> \notin {<<d>> : d \in D \cap {p}} /\ <<a, b, c>> \notin D \X Pdx
    BY Lengths
  <2>2. <<a, b, c>> \in D \X Pdx \X Ptx <=> a \in D /\ b \in Pdx /\ c \in Ptx
    OBVIOUS
  <2>3. QED
    BY <2>1, <2>2 DEF Pointers
<1>4. \A s \in Pointers(m, D, p) :
         \/ s = <<p>>
         \/ \E a \in D, b \in Pdx : s = <<a, b>>
         \/ \E a \in D, b \in Pdx, c \in Ptx : s = <<a, b, c>>
  BY DEF Pointers
<1>5. QED
  BY <1>1, <1>2, <1>3, <1>4

(* There are finitely many pointers to a page. *)
LEMMA PointersFinite ==
  ASSUME NEW m, NEW D \in SUBSET Page, NEW p
  PROVE  /\ IsFiniteSet(Pointers(m, D, p))
         /\ Cardinality(Pointers(m, D, p)) \in Nat
         /\ Cardinality(Pointers(m, D, p)) = 0 <=> Pointers(m, D, p) = {}
<1>1. IsFiniteSet(D) /\ IsFiniteSet(Pdx) /\ IsFiniteSet(Ptx)
  <2>1. IsFiniteSet(D)
    BY PageAssumption, FS_Subset
  <2>2. 0 \in Int /\ U - 1 \in Int /\ N - 1 \in Int
    BY SizeAssumption
  <2>3. QED
    BY <2>1, <2>2, FS_Interval DEF Pdx, Ptx
<1>2. IsFiniteSet(D \X Pdx)
  BY <1>1, FS_Product
<1>3. IsFiniteSet(D \X Pdx \X Ptx)
  <2> DEFINE S == (D \X Pdx) \X Ptx
             T == D \X Pdx \X Ptx
             f == [x \in S |-> <<x[1][1], x[1][2], x[2]>>]
  <2>1. IsFiniteSet(S)
    BY <1>1, <1>2, FS_Product
  <2>2. f \in [S -> T]
    OBVIOUS
  <2>3. ASSUME NEW y \in T PROVE \E x \in S : f[x] = y
    <3>1. PICK a \in D, b \in Pdx, c \in Ptx : y = <<a, b, c>>
      OBVIOUS
    <3>2. <<<<a, b>>, c>> \in S /\ f[<<<<a, b>>, c>>] = y
      BY <3>1
    <3>3. QED
      BY <3>2
  <2>4. f \in Surjection(S, T)
    BY <2>2, <2>3 DEF Surjection
  <2>5. QED
    BY <2>1, <2>4, FS_Surjection
<1>4. IsFiniteSet({<<p>>})
  BY FS_Singleton
<1>5. IsFiniteSet(({<<p>>} \cup (D \X Pdx)) \cup (D \X Pdx \X Ptx))
  BY <1>2, <1>3, <1>4, FS_Union
<1>6. Pointers(m, D, p) \in SUBSET (({<<p>>} \cup (D \X Pdx)) \cup (D \X Pdx \X Ptx))
  BY DEF Pointers
<1>7. IsFiniteSet(Pointers(m, D, p))
  BY <1>5, <1>6, FS_Subset
<1>8. QED
  BY <1>7, FS_EmptySet, FS_CardinalityType

(* The two memories are the same to the directories of D. *)
SameSlots(m, n, D) ==
  \A a \in D, b \in Pdx : n.frame[a][b] = m.frame[a][b]

SameLookups(m, n, D) ==
  \A a \in D, b \in Pdx, c \in Ptx :
    page_lookup(n, a, b, c) = page_lookup(m, a, b, c)

(* From m, D to n, E one pointer is added: where, to p. *)
Adds(m, D, n, E, p, where) ==
  /\ \A q : q # p => Pointers(n, E, q) = Pointers(m, D, q)
  /\ Pointers(n, E, p) = Pointers(m, D, p) \cup {where}
  /\ where \notin Pointers(m, D, p)

(* Pointers depend only on slots and lookups. *)
LEMMA SamePointers ==
  ASSUME NEW m, NEW n, NEW D, SameSlots(m, n, D), SameLookups(m, n, D)
  PROVE  \A q : Pointers(n, D, q) = Pointers(m, D, q)
BY DEF SameSlots, SameLookups, Pointers, HasTable, Table

(* A page table is put into an empty slot of a directory. *)
LEMMA SlotAdds ==
  ASSUME NEW m, NEW n, NEW D, NEW d \in D, NEW i \in Pdx, NEW p,
         ~HasTable(m, d, i), HasTable(n, d, i), Table(n, d, i) = p,
         \A a \in D, b \in Pdx :
           a # d \/ b # i => n.frame[a][b] = m.frame[a][b],
         SameLookups(m, n, D)
  PROVE  Adds(m, D, n, D, p, <<d, i>>)
<1>1. \A a \in D, b \in Pdx : a # d \/ b # i =>
        /\ HasTable(n, a, b) <=> HasTable(m, a, b)
        /\ Table(n, a, b) = Table(m, a, b)
  BY DEF HasTable, Table
<1>2. <<d, i>> \notin Pointers(m, D, p)
  BY PointerKinds
<1>3. ASSUME NEW q, NEW s, s # <<d, i>>
      PROVE  s \in Pointers(n, D, q) <=> s \in Pointers(m, D, q)
  <2>1. CASE s = <<q>>
    BY <2>1, PointerKinds
  <2>2. CASE \E a \in D, b \in Pdx : s = <<a, b>>
    <3>1. PICK a \in D, b \in Pdx : s = <<a, b>>
      BY <2>2
    <3>2. a # d \/ b # i
      BY <1>3, <3>1
    <3>3. QED
      BY <1>1, <3>1, <3>2, PointerKinds
  <2>3. CASE \E a \in D, b \in Pdx, c \in Ptx : s = <<a, b, c>>
    BY <2>3, PointerKinds DEF SameLookups
  <2>4. QED
    BY <2>1, <2>2, <2>3, PointerKinds
<1>4. \A q : <<d, i>> \in Pointers(n, D, q) <=> q = p
  BY PointerKinds
<1>5. \A q : q # p => <<d, i>> \notin Pointers(m, D, q)
  BY PointerKinds
<1>6. \A q : q # p => Pointers(n, D, q) = Pointers(m, D, q)
  BY <1>3, <1>4, <1>5
<1>7. Pointers(n, D, p) = Pointers(m, D, p) \cup {<<d, i>>}
  BY <1>3, <1>4
<1>8. QED
  BY <1>2, <1>6, <1>7 DEF Adds

(* A page is mapped at an address where nothing was. *)
LEMMA PteAdds ==
  ASSUME NEW m, NEW n, NEW D, NEW d \in D, NEW i \in Pdx, NEW j \in Ptx, NEW p,
         page_lookup(m, d, i, j) = NULL, page_lookup(n, d, i, j) # NULL,
         page_lookup(n, d, i, j).pp = p,
         \A a \in D, b \in Pdx, c \in Ptx :
           a # d \/ b # i \/ c # j =>
             page_lookup(n, a, b, c) = page_lookup(m, a, b, c),
         SameSlots(m, n, D)
  PROVE  Adds(m, D, n, D, p, <<d, i, j>>)
<1>1. \A a \in D, b \in Pdx :
        /\ HasTable(n, a, b) <=> HasTable(m, a, b)
        /\ Table(n, a, b) = Table(m, a, b)
  BY DEF HasTable, Table, SameSlots
<1>2. <<d, i, j>> \notin Pointers(m, D, p)
  BY PointerKinds
<1>3. ASSUME NEW q, NEW s, s # <<d, i, j>>
      PROVE  s \in Pointers(n, D, q) <=> s \in Pointers(m, D, q)
  <2>1. CASE s = <<q>>
    BY <2>1, PointerKinds
  <2>2. CASE \E a \in D, b \in Pdx : s = <<a, b>>
    BY <1>1, <2>2, PointerKinds
  <2>3. CASE \E a \in D, b \in Pdx, c \in Ptx : s = <<a, b, c>>
    <3>1. PICK a \in D, b \in Pdx, c \in Ptx : s = <<a, b, c>>
      BY <2>3
    <3>2. a # d \/ b # i \/ c # j
      BY <1>3, <3>1
    <3>3. QED
      BY <3>1, <3>2, PointerKinds
  <2>4. QED
    BY <2>1, <2>2, <2>3, PointerKinds
<1>4. \A q : <<d, i, j>> \in Pointers(n, D, q) <=> q = p
  BY PointerKinds
<1>5. \A q : q # p => <<d, i, j>> \notin Pointers(m, D, q)
  BY PointerKinds
<1>6. \A q : q # p => Pointers(n, D, q) = Pointers(m, D, q)
  BY <1>3, <1>4, <1>5
<1>7. Pointers(n, D, p) = Pointers(m, D, p) \cup {<<d, i, j>>}
  BY <1>3, <1>4
<1>8. QED
  BY <1>2, <1>6, <1>7 DEF Adds

(* A page without entries becomes a directory. *)
LEMMA DirAdds ==
  ASSUME NEW m, NEW D, NEW d, d \notin D,
         \A i \in Pdx : ~HasTable(m, d, i)
  PROVE  Adds(m, D, m, D \cup {d}, d, <<d>>)
<1> DEFINE E == D \cup {d}
<1>1. \A i \in Pdx, j \in Ptx : page_lookup(m, d, i, j) = NULL
  BY DEF page_lookup
<1>2. ASSUME NEW q, NEW s, s # <<d>>
      PROVE  s \in Pointers(m, E, q) <=> s \in Pointers(m, D, q)
  <2>1. CASE s = <<q>>
    BY <1>2, <2>1, PointerKinds
  <2>2. CASE \E a \in E, b \in Pdx : s = <<a, b>>
    BY <2>2, PointerKinds
  <2>3. CASE \E a \in E, b \in Pdx, c \in Ptx : s = <<a, b, c>>
    BY <1>1, <2>3, PointerKinds
  <2>4. QED
    <3> HIDE DEF E
    <3>1. s \in Pointers(m, E, q) =>
            \/ s = <<q>>
            \/ \E a \in E, b \in Pdx : s = <<a, b>>
            \/ \E a \in E, b \in Pdx, c \in Ptx : s = <<a, b, c>>
      BY PointerKinds
    <3>2. s \in Pointers(m, D, q) =>
            \/ s = <<q>>
            \/ \E a \in E, b \in Pdx : s = <<a, b>>
            \/ \E a \in E, b \in Pdx, c \in Ptx : s = <<a, b, c>>
      BY PointerKinds DEF E
    <3>3. QED
      BY <2>1, <2>2, <2>3, <3>1, <3>2
<1>3. \A q : <<d>> \in Pointers(m, E, q) <=> q = d
  BY PointerKinds
<1>4. \A q : <<d>> \notin Pointers(m, D, q)
  BY PointerKinds
<1> HIDE DEF E
<1>5. ASSUME NEW q, q # d PROVE Pointers(m, E, q) = Pointers(m, D, q)
  <2>1. <<d>> \notin Pointers(m, E, q) /\ <<d>> \notin Pointers(m, D, q)
    BY <1>3, <1>4, <1>5
  <2>2. \A s : s # <<d>> => (s \in Pointers(m, E, q) <=> s \in Pointers(m, D, q))
    BY <1>2
  <2>3. QED
    BY <2>1, <2>2
<1>6. Pointers(m, E, d) = Pointers(m, D, d) \cup {<<d>>}
  BY <1>2, <1>3
<1>7. QED
  BY <1>4, <1>5, <1>6 DEF Adds, E

(* What an added pointer does to the count of pointers. *)
LEMMA AddsCount ==
  ASSUME NEW m, NEW n, NEW D \in SUBSET Page, NEW E \in SUBSET Page, NEW p,
         NEW where, Adds(m, D, n, E, p, where)
  PROVE  /\ Cardinality(Pointers(n, E, p)) = Cardinality(Pointers(m, D, p)) + 1
         /\ Cardinality(Pointers(m, D, p)) \in Nat
BY PointersFinite, FS_AddElement DEF Adds

------------------------------------------------------------------------------
(* The state of memory between two elementary steps of a call.  H are the  *)
(* pages in somebody's hands, X[p] the references to p that are counted in *)
(* pp_ref without there being a pointer.                                   *)

Distinct(m) ==
  \A k, l \in 1 .. Len(m.page_free_list) :
    m.page_free_list[k] = m.page_free_list[l] => k = l

PlaceOf(m, D, H, X, p) ==
  /\ p \in OnFreeList(m) => Pointers(m, D, p) = {} /\ X[p] = 0 /\ p \notin H
  /\ p \in H => Pointers(m, D, p) = {}
  /\ Pointers(m, D, p) # {} \/ X[p] > 0 \/ p \in OnFreeList(m) \/ p \in H

Private(m, D) ==
  /\ \A d \in D : Pointers(m, D, d) = {<<d>>}
  /\ \A d \in D, i \in Pdx :
       HasTable(m, d, i) => Pointers(m, D, Table(m, d, i)) = {<<d, i>>}

Counted(m, D, X, p) ==
  m.pp_ref[p] = Cardinality(Pointers(m, D, p)) + X[p]

MemOK(m, D, H, X) ==
  /\ m \in Memory /\ m.panic # "page_free"
  /\ D \in SUBSET Page /\ H \in SUBSET Page /\ X \in [Page -> Nat]
  /\ Distinct(m)
  /\ \A p \in Page : PlaceOf(m, D, H, X, p) /\ Counted(m, D, X, p)
  /\ Private(m, D)

None == [p \in Page |-> 0]
More(X, p) == [X EXCEPT ![p] = @ + 1]
Less(X, p) == [X EXCEPT ![p] = @ - 1]

(* A reference taken and dropped again. *)
LEMMA MoreLess ==
  ASSUME NEW X \in [Page -> Nat], NEW p \in Page
  PROVE  Less(More(X, p), p) = X
<1> DEFINE Y == [q \in Page |-> IF q = p THEN X[q] + 1 ELSE X[q]]
<1>1. More(X, p) = Y
  BY DEF More
<1>2. Less(Y, p) = [q \in Page |-> IF q = p THEN (X[q] + 1) - 1 ELSE X[q]]
  BY DEF Less
<1>3. \A q \in Page : (IF q = p THEN (X[q] + 1) - 1 ELSE X[q]) = X[q]
  OBVIOUS
<1>4. Less(Y, p) = [q \in Page |-> X[q]]
  BY <1>2, <1>3
<1>5. QED
  BY <1>1, <1>4

(* What the types of memory say of the parts. *)
LEMMA MemoryParts ==
  ASSUME NEW m \in Memory
  PROVE  /\ m.pp_ref \in [Page -> 0 .. RefMod - 1]
         /\ m.page_free_list \in Seq(Page)
         /\ m.frame \in [Page -> [Ptx -> Slot]]
         /\ m.panic \in {"none", "page_free", "region_alloc"}
         /\ m = [pp_ref |-> m.pp_ref, page_free_list |-> m.page_free_list,
                 frame |-> m.frame, panic |-> m.panic]
BY DEF Memory

(* What a slot of a page holds, and a page that was cleared. *)
LEMMA SlotParts ==
  /\ Pdx \subseteq Ptx
  /\ \A e \in Slot : e = NULL \/ (e # NULL /\ e.pp \in Page /\ e.perm \in Perm)
  /\ \A p \in Page, b \in Perm : [pp |-> p, perm |-> b] \in Slot
  /\ \A p \in Page, b \in Perm : [pp |-> p, perm |-> b] # NULL
  /\ Zero \in [Ptx -> Slot] /\ \A j \in Ptx : Zero[j] = NULL
<1>1. Pdx \subseteq Ptx
  BY SizeAssumption DEF Pdx, Ptx
<1>2. \A e \in Slot : e = NULL \/ (e # NULL /\ e.pp \in Page /\ e.perm \in Perm)
  BY PageAssumption DEF Slot, Entry
<1>3. /\ \A p \in Page, b \in Perm : [pp |-> p, perm |-> b] \in Slot
      /\ \A p \in Page, b \in Perm : [pp |-> p, perm |-> b] # NULL
  BY PageAssumption DEF Slot, Entry
<1>4. Zero \in [Ptx -> Slot] /\ \A j \in Ptx : Zero[j] = NULL
  BY DEF Zero, Slot
<1>5. QED
  BY <1>1, <1>2, <1>3, <1>4

(* In a good memory, a table belongs to one slot, a directory is no table, *)
(* and neither is mapped.                                                  *)
LEMMA PrivateFacts ==
  ASSUME NEW m, NEW D, Private(m, D), NEW d \in D
  PROVE  /\ \A i \in Pdx : HasTable(m, d, i) => Table(m, d, i) \notin D
         /\ \A i \in Pdx, a \in D, b \in Pdx :
              /\ HasTable(m, d, i) /\ HasTable(m, a, b)
              /\ Table(m, a, b) = Table(m, d, i)
              => a = d /\ b = i
         /\ \A a \in D, b \in Pdx, c \in Ptx :
              page_lookup(m, a, b, c) # NULL =>
                /\ page_lookup(m, a, b, c).pp # d
                /\ \A i \in Pdx : HasTable(m, d, i) =>
                     page_lookup(m, a, b, c).pp # Table(m, d, i)
<1>1. ASSUME NEW i \in Pdx, HasTable(m, d, i) PROVE Table(m, d, i) \notin D
  <2>1. Pointers(m, D, Table(m, d, i)) = {<<d, i>>}
    BY <1>1 DEF Private
  <2>2. SUFFICES ASSUME Table(m, d, i) \in D PROVE FALSE
    OBVIOUS
  <2>3. <<Table(m, d, i)>> \in Pointers(m, D, Table(m, d, i))
    BY <2>2, PointerKinds
  <2>4. QED
    BY <2>1, <2>3, Lengths
<1>2. ASSUME NEW i \in Pdx, NEW a \in D, NEW b \in Pdx, HasTable(m, d, i),
             HasTable(m, a, b), Table(m, a, b) = Table(m, d, i)
      PROVE  a = d /\ b = i
  <2>1. <<a, b>> \in Pointers(m, D, Table(m, d, i))
    BY <1>2, PointerKinds
  <2>2. <<a, b>> = <<d, i>>
    BY <1>2, <2>1 DEF Private
  <2>3. QED
    BY <2>2
<1>3. ASSUME NEW a \in D, NEW b \in Pdx, NEW c \in Ptx,
             page_lookup(m, a, b, c) # NULL, page_lookup(m, a, b, c).pp = d
      PROVE  FALSE
  <2>1. <<a, b, c>> \in Pointers(m, D, d)
    BY <1>3, PointerKinds
  <2>2. QED
    BY <2>1, Lengths DEF Private
<1>4. ASSUME NEW a \in D, NEW b \in Pdx, NEW c \in Ptx,
             page_lookup(m, a, b, c) # NULL, NEW i \in Pdx, HasTable(m, d, i),
             page_lookup(m, a, b, c).pp = Table(m, d, i)
      PROVE  FALSE
  <2>1. <<a, b, c>> \in Pointers(m, D, Table(m, d, i))
    BY <1>4, PointerKinds
  <2>2. QED
    BY <1>4, <2>1, Lengths DEF Private
<1>5. QED
  BY <1>1, <1>2, <1>3, <1>4

(* A mapping is a pointer to the page it maps. *)
LEMMA MappingPoints ==
  ASSUME NEW m, NEW D, NEW a \in D, NEW b \in Pdx, NEW c \in Ptx,
         page_lookup(m, a, b, c) # NULL
  PROVE  <<a, b, c>> \in Pointers(m, D, page_lookup(m, a, b, c).pp)
BY PointerKinds

(* A page that no pointer leads to is neither a directory nor a table. *)
LEMMA UnusedPage ==
  ASSUME NEW m, NEW D, NEW p, Pointers(m, D, p) = {}
  PROVE  /\ p \notin D
         /\ \A a \in D, b \in Pdx : HasTable(m, a, b) => Table(m, a, b) # p
         /\ \A a \in D, b \in Pdx, c \in Ptx :
              page_lookup(m, a, b, c) # NULL => page_lookup(m, a, b, c).pp # p
<1>1. \A s : s \notin Pointers(m, D, p)
  OBVIOUS
<1>2. p \notin D
  BY <1>1, PointerKinds
<1>3. \A a \in D, b \in Pdx : HasTable(m, a, b) => Table(m, a, b) # p
  BY <1>1, PointerKinds
<1>4. ASSUME NEW a \in D, NEW b \in Pdx, NEW c \in Ptx
      PROVE  page_lookup(m, a, b, c) # NULL => page_lookup(m, a, b, c).pp # p
  <2> SUFFICES ASSUME page_lookup(m, a, b, c) # NULL,
                      page_lookup(m, a, b, c).pp = p
               PROVE  FALSE
    OBVIOUS
  <2>1. <<a, b, c>> \in Pointers(m, D, p)
    BY MappingPoints
  <2>2. QED
    BY <1>1, <2>1
<1>5. QED
  BY <1>2, <1>3, <1>4

(* Editing a page that is neither a directory nor a table changes nothing  *)
(* that the directories say.                                               *)
LEMMA EditElsewhere ==
  ASSUME NEW m \in Memory, NEW n, NEW D \in SUBSET Page, NEW p, p \notin D,
         \A a \in D, b \in Pdx : HasTable(m, a, b) => Table(m, a, b) # p,
         \A q \in Page : q # p => n.frame[q] = m.frame[q]
  PROVE  SameSlots(m, n, D) /\ SameLookups(m, n, D)
<1>1. SameSlots(m, n, D)
  BY DEF SameSlots
<1>2. \A a \in D, b \in Pdx :
        HasTable(m, a, b) => Table(m, a, b) \in Page
  BY MemoryParts, SlotParts DEF HasTable, Table
<1>3. SameLookups(m, n, D)
  BY <1>1, <1>2 DEF SameSlots, SameLookups, page_lookup, HasTable, Table
<1>4. QED
  BY <1>1, <1>3

------------------------------------------------------------------------------
(* The free list as a sequence without repetition. *)

ListSet(s) == {s[k] : k \in 1 .. Len(s)}

(* A list without duplicates loses its head. *)
LEMMA TailList ==
  ASSUME NEW S, NEW s \in Seq(S), s # <<>>,
         \A k, l \in 1 .. Len(s) : s[k] = s[l] => k = l
  PROVE  /\ Head(s) \in S /\ Tail(s) \in Seq(S) /\ Head(s) \in ListSet(s)
         /\ \A k, l \in 1 .. Len(Tail(s)) : Tail(s)[k] = Tail(s)[l] => k = l
         /\ ListSet(Tail(s)) = ListSet(s) \ {Head(s)}
<1>1. /\ Len(s) \in Nat \ {0} /\ Len(Tail(s)) = Len(s) - 1
      /\ Head(s) = s[1] /\ Head(s) \in S /\ Tail(s) \in Seq(S)
      /\ \A k \in 1 .. Len(Tail(s)) : Tail(s)[k] = s[k + 1]
  BY HeadTailProperties, EmptySeq
<1>2. Head(s) \in ListSet(s)
  BY <1>1 DEF ListSet
<1>3. \A k, l \in 1 .. Len(Tail(s)) : Tail(s)[k] = Tail(s)[l] => k = l
  BY <1>1
<1>4. ASSUME NEW x \in ListSet(Tail(s)) PROVE x \in ListSet(s) /\ x # Head(s)
  BY <1>1 DEF ListSet
<1>5. ASSUME NEW x \in ListSet(s), x # Head(s) PROVE x \in ListSet(Tail(s))
  <2>1. PICK k \in 1 .. Len(s) : x = s[k]
    BY DEF ListSet
  <2>2. k - 1 \in 1 .. Len(Tail(s)) /\ Tail(s)[k - 1] = x
    BY <1>1, <1>5, <2>1
  <2>3. QED
    BY <2>2 DEF ListSet
<1>6. QED
  BY <1>1, <1>2, <1>3, <1>4, <1>5

(* A list without duplicates gains a head that was not on it. *)
LEMMA ConsList ==
  ASSUME NEW S, NEW s \in Seq(S), NEW p \in S, p \notin ListSet(s),
         \A k, l \in 1 .. Len(s) : s[k] = s[l] => k = l
  PROVE  LET t == <<p>> \o s
         IN  /\ t \in Seq(S)
             /\ \A k, l \in 1 .. Len(t) : t[k] = t[l] => k = l
             /\ ListSet(t) = ListSet(s) \cup {p}
<1> DEFINE t == <<p>> \o s
<1>1. /\ Len(s) \in Nat /\ t \in Seq(S) /\ Len(t) = Len(s) + 1 /\ t[1] = p
      /\ \A k \in 1 .. Len(s) : t[k + 1] = s[k]
  OBVIOUS
<1>2. \A k \in 2 .. Len(t) : k - 1 \in 1 .. Len(s) /\ t[k] = s[k - 1]
  BY <1>1
<1>3. \A k \in 1 .. Len(s) : s[k] # p
  BY DEF ListSet
<1> HIDE DEF t
<1>4. ASSUME NEW k \in 1 .. Len(t), NEW l \in 1 .. Len(t), t[k] = t[l]
      PROVE  k = l
  <2>1. CASE k = 1 \/ l = 1
    BY <1>1, <1>2, <1>3, <1>4, <2>1
  <2>2. CASE k # 1 /\ l # 1
    BY <1>1, <1>2, <1>4, <2>2
  <2>3. QED
    BY <2>1, <2>2
<1>5. ASSUME NEW x PROVE x \in ListSet(t) <=> x \in ListSet(s) \cup {p}
  <2>1. ASSUME x \in ListSet(t) PROVE x \in ListSet(s) \cup {p}
    <3>1. PICK k \in 1 .. Len(t) : x = t[k]
      BY <2>1 DEF ListSet
    <3>2. k = 1 \/ k \in 2 .. Len(t)
      BY <1>1
    <3>3. QED
      BY <1>1, <1>2, <3>1, <3>2 DEF ListSet
  <2>2. ASSUME x \in ListSet(s) PROVE x \in ListSet(t)
    <3>1. PICK k \in 1 .. Len(s) : x = s[k]
      BY <2>2 DEF ListSet
    <3>2. k + 1 \in 1 .. Len(t) /\ t[k + 1] = x
      BY <1>1, <3>1
    <3>3. QED
      BY <3>2 DEF ListSet
  <2>3. p \in ListSet(t)
    BY <1>1 DEF ListSet
  <2>4. QED
    BY <2>1, <2>2, <2>3
<1>6. QED
  BY <1>1, <1>4, <1>5 DEF t

(* The free list as the set of its pages. *)
LEMMA ListOf == \A m : OnFreeList(m) = ListSet(m.page_free_list)
BY DEF OnFreeList, ListSet

(* A page that is not on the list has no pp_link. *)
LEMMA NotLinked ==
  ASSUME NEW m \in Memory, NEW p, p \notin OnFreeList(m)
  PROVE  ~Linked(m, p)
<1>1. Len(m.page_free_list) \in Nat
  BY MemoryParts
<1>2. QED
  BY <1>1 DEF Linked, OnFreeList

------------------------------------------------------------------------------
(* Elementary steps. *)

(* Steps that change neither counts, nor lists, nor what the directories   *)
(* say.                                                                    *)
LEMMA SameMemOK ==
  ASSUME NEW m, NEW n \in Memory, NEW D, NEW H, NEW X, MemOK(m, D, H, X),
         n.panic # "page_free", SameSlots(m, n, D), SameLookups(m, n, D),
         n.page_free_list = m.page_free_list, n.pp_ref = m.pp_ref
  PROVE  MemOK(n, D, H, X)
<1>1. \A q : Pointers(n, D, q) = Pointers(m, D, q)
  BY SamePointers
<1>2. OnFreeList(n) = OnFreeList(m)
  BY DEF OnFreeList
<1>3. Private(n, D)
  BY <1>1 DEF MemOK, Private, SameSlots, HasTable, Table
<1>4. Distinct(n)
  BY DEF MemOK, Distinct
<1>5. \A p \in Page : PlaceOf(n, D, H, X, p) /\ Counted(n, D, X, p)
  BY <1>1, <1>2 DEF MemOK, PlaceOf, Counted
<1>6. QED
  BY <1>3, <1>4, <1>5 DEF MemOK

(* page_alloc takes a page that nothing points to. *)
LEMMA TakePage ==
  ASSUME NEW m, NEW D, NEW H, NEW X, MemOK(m, D, H, X), CanAlloc(m),
         NEW zero \in BOOLEAN
  PROVE  LET n == page_alloc(m, zero)
             p == Allocated(m)
         IN  /\ MemOK(n, D, H \cup {p}, X)
             /\ p \in Page /\ p \notin H /\ X[p] = 0 /\ p \in OnFreeList(m)
             /\ Pointers(m, D, p) = {} /\ Pointers(n, D, p) = {}
             /\ SameSlots(m, n, D) /\ SameLookups(m, n, D)
             /\ n.pp_ref = m.pp_ref /\ n.panic = m.panic
             /\ n.pp_ref[p] = 0
             /\ OnFreeList(n) = OnFreeList(m) \ {p}
             /\ zero => n.frame[p] = Zero
<1> DEFINE n == page_alloc(m, zero)
           p == Allocated(m)
           s == m.page_free_list
<1>1. m \in Memory /\ Distinct(m) /\ D \in SUBSET Page
  BY DEF MemOK
<1>2. s \in Seq(Page) /\ s # <<>> /\ p = Head(s)
  BY <1>1, MemoryParts DEF CanAlloc, Allocated
<1>3. \A k, l \in 1 .. Len(s) : s[k] = s[l] => k = l
  BY <1>1 DEF Distinct
<1>4. /\ p \in Page /\ Tail(s) \in Seq(Page) /\ p \in ListSet(s)
      /\ \A k, l \in 1 .. Len(Tail(s)) : Tail(s)[k] = Tail(s)[l] => k = l
      /\ ListSet(Tail(s)) = ListSet(s) \ {p}
  BY <1>2, <1>3, TailList
<1>5. /\ n.pp_ref = m.pp_ref /\ n.panic = m.panic
      /\ n.page_free_list = Tail(s)
      /\ n.frame = IF zero THEN [m.frame EXCEPT ![p] = Zero] ELSE m.frame
  BY <1>1, MemoryParts DEF page_alloc
<1>6. n \in Memory
  <2>1. /\ Tail(s) \in Seq(Page) /\ n.frame \in [Page -> [Ptx -> Slot]]
    BY <1>1, <1>4, <1>5, MemoryParts, SlotParts
  <2>2. n = [pp_ref |-> m.pp_ref, page_free_list |-> Tail(s),
             frame |-> n.frame, panic |-> m.panic]
    BY <1>1, <1>4, <1>5, MemoryParts DEF page_alloc
  <2>3. QED
    BY <1>1, <2>1, <2>2, MemoryParts DEF Memory
<1> HIDE DEF n
<1>7. p \in OnFreeList(m) /\ OnFreeList(n) = OnFreeList(m) \ {p}
  BY <1>4, <1>5, ListOf
<1>8. Pointers(m, D, p) = {} /\ X[p] = 0 /\ p \notin H
  BY <1>4, <1>7 DEF MemOK, PlaceOf
<1>9. \A q \in Page : q # p => n.frame[q] = m.frame[q]
  BY <1>1, <1>5, MemoryParts
<1>10. SameSlots(m, n, D) /\ SameLookups(m, n, D)
  BY <1>1, <1>8, <1>9, UnusedPage, EditElsewhere
<1>11. \A q : Pointers(n, D, q) = Pointers(m, D, q)
  BY <1>10, SamePointers
<1>12. Private(n, D)
  BY <1>10, <1>11 DEF MemOK, Private, SameSlots, HasTable, Table
<1>13. Distinct(n)
  BY <1>4, <1>5 DEF Distinct
<1>14. ASSUME NEW q \in Page
       PROVE  PlaceOf(n, D, H \cup {p}, X, q) /\ Counted(n, D, X, q)
  BY <1>5, <1>7, <1>8, <1>11 DEF MemOK, PlaceOf, Counted
<1>15. MemOK(n, D, H \cup {p}, X)
  BY <1>4, <1>5, <1>6, <1>12, <1>13, <1>14 DEF MemOK
<1>16. m.pp_ref[p] = 0
  <2>1. Counted(m, D, X, p)
    BY <1>4 DEF MemOK
  <2>2. Cardinality({}) = 0
    BY FS_EmptySet
  <2>3. QED
    BY <1>8, <2>1, <2>2 DEF Counted
<1>17. zero => n.frame[p] = Zero
  BY <1>1, <1>4, <1>5, MemoryParts
<1>18. QED
  BY <1>4, <1>5, <1>7, <1>8, <1>10, <1>11, <1>15, <1>16, <1>17 DEF n

(* page_incref counts a pointer before it is there. *)
LEMMA CountUp ==
  ASSUME NEW m, NEW D, NEW H, NEW X, MemOK(m, D, H, X),
         NEW p \in Page, p \notin OnFreeList(m), m.pp_ref[p] + 1 < RefMod
  PROVE  LET n == page_incref(m, p)
         IN  /\ MemOK(n, D, H, More(X, p))
             /\ n.frame = m.frame /\ OnFreeList(n) = OnFreeList(m)
             /\ n.panic = m.panic
             /\ SameSlots(m, n, D) /\ SameLookups(m, n, D)
<1> DEFINE n == page_incref(m, p)
<1>1. m \in Memory /\ X \in [Page -> Nat] /\ RefMod \in Nat
  BY SizeAssumption DEF MemOK
<1>2. m.pp_ref[p] \in Nat /\ Succ(m.pp_ref[p]) = m.pp_ref[p] + 1
  BY <1>1, MemoryParts DEF Succ
<1>3. /\ n.pp_ref = [m.pp_ref EXCEPT ![p] = m.pp_ref[p] + 1]
      /\ n.page_free_list = m.page_free_list /\ n.frame = m.frame
      /\ n.panic = m.panic /\ n \in Memory
  <2>0. n = [m EXCEPT !.pp_ref = [m.pp_ref EXCEPT ![p] = m.pp_ref[p] + 1]]
    BY <1>2 DEF page_incref
  <2>1. /\ n.pp_ref = [m.pp_ref EXCEPT ![p] = m.pp_ref[p] + 1]
        /\ n.page_free_list = m.page_free_list /\ n.frame = m.frame
        /\ n.panic = m.panic
    BY <1>1, <2>0, MemoryParts DEF Memory
  <2>2. n.pp_ref \in [Page -> 0 .. RefMod - 1]
    BY <1>1, <1>2, <2>1, MemoryParts
  <2>3. n \in Memory
    BY <1>1, <2>0, <2>1, <2>2 DEF Memory
  <2>4. QED
    BY <2>1, <2>3
<1> HIDE DEF n
<1>4. SameSlots(m, n, D) /\ SameLookups(m, n, D)
  BY <1>3 DEF SameSlots, SameLookups, page_lookup, HasTable, Table
<1>5. OnFreeList(n) = OnFreeList(m) /\ Distinct(n)
  BY <1>3 DEF OnFreeList, Distinct, MemOK
<1>6. \A q : Pointers(n, D, q) = Pointers(m, D, q)
  BY <1>4, SamePointers
<1>7. Private(n, D)
  BY <1>4, <1>6 DEF MemOK, Private, SameSlots, HasTable, Table
<1>8. /\ More(X, p) \in [Page -> Nat] /\ More(X, p)[p] = X[p] + 1
      /\ \A q \in Page : q # p => More(X, p)[q] = X[q]
  BY <1>1 DEF More
<1>9. ASSUME NEW q \in Page
      PROVE  PlaceOf(n, D, H, More(X, p), q) /\ Counted(n, D, More(X, p), q)
  <2>1. PlaceOf(n, D, H, More(X, p), q)
    BY <1>1, <1>5, <1>6, <1>8 DEF MemOK, PlaceOf
  <2>2. Cardinality(Pointers(m, D, q)) \in Nat
    BY PointersFinite DEF MemOK
  <2>3. Counted(n, D, More(X, p), q)
    <3>1. CASE q = p
      BY <1>1, <1>2, <1>3, <1>6, <1>8, <2>2, <3>1, MemoryParts DEF MemOK, Counted
    <3>2. CASE q # p
      BY <1>1, <1>2, <1>3, <1>6, <1>8, <3>2, MemoryParts DEF MemOK, Counted
    <3>3. QED
      BY <3>1, <3>2
  <2>4. QED
    BY <2>1, <2>3
<1>10. MemOK(n, D, H, More(X, p))
  BY <1>3, <1>5, <1>7, <1>8, <1>9 DEF MemOK
<1>11. QED
  BY <1>3, <1>4, <1>5, <1>10 DEF n

(* A counted pointer is put in its place. *)
LEMMA PutPointer ==
  ASSUME NEW m, NEW D, NEW H, NEW X, MemOK(m, D, H, X),
         NEW n \in Memory, NEW E \in SUBSET Page, NEW p \in Page, NEW where,
         n.panic # "page_free", n.pp_ref = m.pp_ref,
         n.page_free_list = m.page_free_list,
         X[p] > 0, Adds(m, D, n, E, p, where), Private(n, E)
  PROVE  MemOK(n, E, H \ {p}, Less(X, p))
<1>1. m \in Memory /\ X \in [Page -> Nat] /\ D \in SUBSET Page
  BY DEF MemOK
<1>2. OnFreeList(n) = OnFreeList(m) /\ Distinct(n)
  BY DEF OnFreeList, Distinct, MemOK
<1>3. /\ Less(X, p) \in [Page -> Nat] /\ Less(X, p)[p] = X[p] - 1
      /\ \A q \in Page : q # p => Less(X, p)[q] = X[q]
  BY <1>1 DEF Less
<1>4. p \notin OnFreeList(m)
  BY <1>1 DEF MemOK, PlaceOf
<1>5. Pointers(n, E, p) # {}
  BY DEF Adds
<1>6. ASSUME NEW q \in Page PROVE PlaceOf(n, E, H \ {p}, Less(X, p), q)
  <2>1. CASE q = p
    BY <1>2, <1>4, <1>5, <2>1 DEF PlaceOf
  <2>2. CASE q # p
    <3>1. PlaceOf(m, D, H, X, q) /\ Pointers(n, E, q) = Pointers(m, D, q)
      BY <2>2 DEF MemOK, Adds
    <3>2. QED
      BY <1>2, <1>3, <2>2, <3>1 DEF PlaceOf
  <2>3. QED
    BY <2>1, <2>2
<1>7. ASSUME NEW q \in Page PROVE Counted(n, E, Less(X, p), q)
  <2>1. Counted(m, D, X, q)
    BY DEF MemOK
  <2>2. CASE q = p
    <3>1. /\ Cardinality(Pointers(n, E, p)) = Cardinality(Pointers(m, D, p)) + 1
          /\ Cardinality(Pointers(m, D, p)) \in Nat /\ X[p] \in Nat
      BY <1>1, AddsCount
    <3>2. QED
      BY <1>3, <2>1, <2>2, <3>1 DEF Counted
  <2>3. CASE q # p
    BY <1>3, <2>1, <2>3 DEF Counted, Adds
  <2>4. QED
    BY <2>2, <2>3
<1>8. QED
  BY <1>2, <1>3, <1>6, <1>7 DEF MemOK

(* A pointer is erased and stays counted. *)
LEMMA ErasePointer ==
  ASSUME NEW m, NEW E, NEW H, NEW X, MemOK(m, E, H, X),
         NEW n \in Memory, NEW D \in SUBSET Page, NEW p \in Page, NEW where,
         n.panic # "page_free", n.pp_ref = m.pp_ref,
         n.page_free_list = m.page_free_list,
         Adds(n, D, m, E, p, where), Private(n, D)
  PROVE  MemOK(n, D, H, More(X, p)) /\ p \notin H /\ More(X, p)[p] > 0
<1>1. m \in Memory /\ X \in [Page -> Nat] /\ E \in SUBSET Page
  BY DEF MemOK
<1>2. OnFreeList(n) = OnFreeList(m) /\ Distinct(n)
  BY DEF OnFreeList, Distinct, MemOK
<1>3. /\ More(X, p) \in [Page -> Nat] /\ More(X, p)[p] = X[p] + 1
      /\ More(X, p)[p] > 0
      /\ \A q \in Page : q # p => More(X, p)[q] = X[q]
  BY <1>1 DEF More
<1>4. p \notin OnFreeList(m) /\ p \notin H
  <2>1. Pointers(m, E, p) # {}
    BY DEF Adds
  <2>2. QED
    BY <2>1 DEF MemOK, PlaceOf
<1>5. ASSUME NEW q \in Page PROVE PlaceOf(n, D, H, More(X, p), q)
  <2>1. CASE q = p
    BY <1>2, <1>3, <1>4, <2>1 DEF PlaceOf
  <2>2. CASE q # p
    <3>1. PlaceOf(m, E, H, X, q) /\ Pointers(n, D, q) = Pointers(m, E, q)
      BY <2>2 DEF MemOK, Adds
    <3>2. QED
      BY <1>2, <1>3, <2>2, <3>1 DEF PlaceOf
  <2>3. QED
    BY <2>1, <2>2
<1>6. ASSUME NEW q \in Page PROVE Counted(n, D, More(X, p), q)
  <2>1. Counted(m, E, X, q)
    BY DEF MemOK
  <2>2. CASE q = p
    <3>1. /\ Cardinality(Pointers(m, E, p)) = Cardinality(Pointers(n, D, p)) + 1
          /\ Cardinality(Pointers(n, D, p)) \in Nat /\ X[p] \in Nat
      BY <1>1, AddsCount
    <3>2. QED
      BY <1>3, <2>1, <2>2, <3>1 DEF Counted
  <2>3. CASE q # p
    BY <1>3, <2>1, <2>3 DEF Counted, Adds
  <2>4. QED
    BY <2>2, <2>3
<1>7. QED
  BY <1>2, <1>3, <1>4, <1>5, <1>6 DEF MemOK

(* page_decref: the pointer is gone already; the page is freed when it was *)
(* the last.                                                               *)
LEMMA CountDown ==
  ASSUME NEW m, NEW D, NEW H, NEW X, MemOK(m, D, H, X),
         NEW p \in Page, X[p] > 0, p \notin H
  PROVE  LET n == page_decref(m, p)
         IN  /\ MemOK(n, D, H, Less(X, p))
             /\ n.frame = m.frame /\ n.panic = m.panic
             /\ SameSlots(m, n, D) /\ SameLookups(m, n, D)
<1> DEFINE n == page_decref(m, p)
           l == [m EXCEPT !.pp_ref[p] = Pred(@)]
           s == m.page_free_list
<1>1. /\ m \in Memory /\ X \in [Page -> Nat] /\ D \in SUBSET Page
      /\ H \in SUBSET Page /\ RefMod \in Nat
  BY SizeAssumption DEF MemOK
<1>2. /\ Cardinality(Pointers(m, D, p)) \in Nat
      /\ Cardinality(Pointers(m, D, p)) = 0 <=> Pointers(m, D, p) = {}
  BY <1>1, PointersFinite
<1>3. m.pp_ref[p] = Cardinality(Pointers(m, D, p)) + X[p] /\ X[p] \in Nat
  BY <1>1 DEF MemOK, Counted
<1>4. Pred(m.pp_ref[p]) = m.pp_ref[p] - 1 /\ m.pp_ref[p] \in 1 .. RefMod - 1
  BY <1>1, <1>2, <1>3, MemoryParts DEF Pred
<1>5. l = [m EXCEPT !.pp_ref = [m.pp_ref EXCEPT ![p] = m.pp_ref[p] - 1]]
  BY <1>4
<1>6. /\ l.pp_ref = [m.pp_ref EXCEPT ![p] = m.pp_ref[p] - 1]
      /\ l.page_free_list = s /\ l.frame = m.frame /\ l.panic = m.panic
  BY <1>1, <1>5 DEF Memory
<1>7. l.pp_ref \in [Page -> 0 .. RefMod - 1] /\ l.pp_ref[p] = m.pp_ref[p] - 1
  BY <1>1, <1>4, <1>6, MemoryParts
<1>8. l \in Memory
  BY <1>1, <1>5, <1>6, <1>7 DEF Memory
<1>9. p \notin OnFreeList(m)
  BY <1>1 DEF MemOK, PlaceOf
<1>10. OnFreeList(l) = OnFreeList(m) /\ Distinct(l)
  BY <1>6 DEF OnFreeList, Distinct, MemOK
<1>11. n = IF l.pp_ref[p] = 0 THEN page_free(l, p) ELSE l
  BY DEF page_decref
<1> HIDE DEF l
<1>12. /\ Less(X, p) \in [Page -> Nat] /\ Less(X, p)[p] = X[p] - 1
       /\ \A q \in Page : q # p => Less(X, p)[q] = X[q]
  BY <1>1 DEF Less
<1>13. CASE l.pp_ref[p] # 0
  <2>1. n = l
    BY <1>11, <1>13
  <2>2. SameSlots(m, n, D) /\ SameLookups(m, n, D)
    BY <1>6, <2>1 DEF SameSlots, SameLookups, page_lookup, HasTable, Table
  <2>3. \A q : Pointers(n, D, q) = Pointers(m, D, q)
    BY <2>2, SamePointers
  <2>4. Private(n, D)
    BY <2>2, <2>3 DEF MemOK, Private, SameSlots, HasTable, Table
  <2>5. ASSUME NEW q \in Page
        PROVE  PlaceOf(n, D, H, Less(X, p), q) /\ Counted(n, D, Less(X, p), q)
    <3>1. PlaceOf(m, D, H, X, q) /\ Counted(m, D, X, q)
      BY DEF MemOK
    <3>2. CASE q = p
      <4>1. Pointers(m, D, p) # {} \/ X[p] - 1 > 0
        BY <1>2, <1>3, <1>7, <1>13
      <4>2. PlaceOf(n, D, H, Less(X, p), q)
        BY <1>9, <1>10, <1>12, <2>1, <2>3, <3>2, <4>1 DEF PlaceOf
      <4>3. Counted(n, D, Less(X, p), q)
        BY <1>2, <1>3, <1>7, <1>12, <2>1, <2>3, <3>2 DEF Counted
      <4>4. QED
        BY <4>2, <4>3
    <3>3. CASE q # p
      <4>1. n.pp_ref[q] = m.pp_ref[q]
        BY <1>1, <1>6, <2>1, <3>3, MemoryParts
      <4>2. QED
        BY <1>10, <1>12, <2>1, <2>3, <3>1, <3>3, <4>1 DEF PlaceOf, Counted
    <3>4. QED
      BY <3>2, <3>3
  <2>6. MemOK(n, D, H, Less(X, p))
    BY <1>1, <1>6, <1>8, <1>10, <1>12, <2>1, <2>4, <2>5 DEF MemOK
  <2>7. QED
    BY <1>6, <2>1, <2>2, <2>6
<1>14. CASE l.pp_ref[p] = 0
  <2>1. ~Linked(l, p)
    BY <1>8, <1>9, <1>10, NotLinked
  <2>2. n = [l EXCEPT !.page_free_list = <<p>> \o s]
    BY <1>6, <1>11, <1>14, <2>1 DEF page_free
  <2>3. /\ n.pp_ref = l.pp_ref /\ n.frame = m.frame /\ n.panic = m.panic
        /\ n.page_free_list = <<p>> \o s
    BY <1>6, <1>8, <2>2 DEF Memory
  <2>4. /\ <<p>> \o s \in Seq(Page)
        /\ \A k, h \in 1 .. Len(<<p>> \o s) :
             (<<p>> \o s)[k] = (<<p>> \o s)[h] => k = h
        /\ ListSet(<<p>> \o s) = ListSet(s) \cup {p}
    <3>1. s \in Seq(Page) /\ p \notin ListSet(s)
      BY <1>1, <1>9, MemoryParts, ListOf
    <3>2. \A k, h \in 1 .. Len(s) : s[k] = s[h] => k = h
      BY DEF MemOK, Distinct
    <3>3. QED
      BY <3>1, <3>2, ConsList
  <2>5. n \in Memory
    BY <1>8, <2>2, <2>3, <2>4 DEF Memory
  <2> HIDE DEF n
  <2>6. OnFreeList(n) = OnFreeList(m) \cup {p} /\ Distinct(n)
    BY <2>3, <2>4, ListOf DEF Distinct
  <2>7. SameSlots(m, n, D) /\ SameLookups(m, n, D)
    BY <2>3 DEF SameSlots, SameLookups, page_lookup, HasTable, Table
  <2>8. \A q : Pointers(n, D, q) = Pointers(m, D, q)
    BY <2>7, SamePointers
  <2>9. Private(n, D)
    BY <2>7, <2>8 DEF MemOK, Private, SameSlots, HasTable, Table
  <2>10. Pointers(m, D, p) = {} /\ X[p] = 1 /\ Less(X, p)[p] = 0
    BY <1>2, <1>3, <1>7, <1>12, <1>14
  <2>11. ASSUME NEW q \in Page
         PROVE  PlaceOf(n, D, H, Less(X, p), q) /\ Counted(n, D, Less(X, p), q)
    <3>1. PlaceOf(m, D, H, X, q) /\ Counted(m, D, X, q)
      BY DEF MemOK
    <3>2. CASE q = p
      <4>1. PlaceOf(n, D, H, Less(X, p), q)
        BY <2>6, <2>8, <2>10, <3>2 DEF PlaceOf
      <4>2. Cardinality(Pointers(m, D, p)) = 0
        BY <1>2, <2>10
      <4>3. Counted(n, D, Less(X, p), q)
        <5>1. n.pp_ref[p] = 0 /\ Less(X, p)[p] = 0
          BY <1>14, <2>3, <2>10
        <5>2. Cardinality(Pointers(n, D, p)) = 0
          BY <2>8, <4>2
        <5>3. QED
          BY <3>2, <5>1, <5>2 DEF Counted
      <4>4. QED
        BY <4>1, <4>3
    <3>3. CASE q # p
      <4>1. n.pp_ref[q] = m.pp_ref[q]
        BY <1>1, <1>6, <2>3, <3>3, MemoryParts
      <4>2. QED
        BY <1>12, <2>6, <2>8, <3>1, <3>3, <4>1 DEF PlaceOf, Counted
    <3>4. QED
      BY <3>2, <3>3
  <2>12. MemOK(n, D, H, Less(X, p))
    <3>1. n.panic # "page_free"
      BY <2>3 DEF MemOK
    <3>2. QED
      BY <1>1, <1>12, <2>5, <2>6, <2>9, <2>11, <3>1 DEF MemOK
  <2>13. QED
    BY <2>3, <2>7, <2>12 DEF n
<1>15. QED
  BY <1>13, <1>14

(* page_free of a page that a caller holds. *)
LEMMA GiveBack ==
  ASSUME NEW m, NEW D, NEW H, MemOK(m, D, H, None), NEW p \in H
  PROVE  LET n == page_free(m, p)
         IN  /\ MemOK(n, D, H \ {p}, None)
             /\ SameSlots(m, n, D) /\ SameLookups(m, n, D)
<1> DEFINE n == page_free(m, p)
           s == m.page_free_list
<1>1. m \in Memory /\ D \in SUBSET Page /\ H \in SUBSET Page /\ p \in Page
  BY DEF MemOK
<1>2. Pointers(m, D, p) = {} /\ p \notin OnFreeList(m)
  BY <1>1 DEF MemOK, PlaceOf
<1>3. m.pp_ref[p] = 0
  <2>1. Counted(m, D, None, p) /\ None[p] = 0
    BY <1>1 DEF MemOK, None
  <2>2. Cardinality(Pointers(m, D, p)) = 0
    BY <1>1, <1>2, PointersFinite
  <2>3. QED
    BY <2>1, <2>2 DEF Counted
<1>4. n = [m EXCEPT !.page_free_list = <<p>> \o s]
  BY <1>1, <1>2, <1>3, NotLinked DEF page_free
<1>5. /\ n.pp_ref = m.pp_ref /\ n.frame = m.frame /\ n.panic = m.panic
      /\ n.page_free_list = <<p>> \o s
  BY <1>1, <1>4 DEF Memory
<1>6. /\ <<p>> \o s \in Seq(Page)
      /\ \A k, h \in 1 .. Len(<<p>> \o s) :
           (<<p>> \o s)[k] = (<<p>> \o s)[h] => k = h
      /\ ListSet(<<p>> \o s) = ListSet(s) \cup {p}
  <2>1. s \in Seq(Page) /\ p \in Page /\ p \notin ListSet(s)
    BY <1>1, <1>2, MemoryParts, ListOf
  <2>2. \A k, h \in 1 .. Len(s) : s[k] = s[h] => k = h
    BY DEF MemOK, Distinct
  <2> HIDE DEF s
  <2>3. QED
    BY <2>1, <2>2, ConsList
<1>7. n \in Memory
  BY <1>1, <1>4, <1>5, <1>6 DEF Memory
<1> HIDE DEF n
<1>8. OnFreeList(n) = OnFreeList(m) \cup {p} /\ Distinct(n)
  BY <1>5, <1>6, ListOf DEF Distinct
<1>9. SameSlots(m, n, D) /\ SameLookups(m, n, D)
  BY <1>5 DEF SameSlots, SameLookups, page_lookup, HasTable, Table
<1>10. \A q : Pointers(n, D, q) = Pointers(m, D, q)
  BY <1>9, SamePointers
<1>11. Private(n, D)
  BY <1>9, <1>10 DEF MemOK, Private, SameSlots, HasTable, Table
<1>12. ASSUME NEW q \in Page
       PROVE  PlaceOf(n, D, H \ {p}, None, q) /\ Counted(n, D, None, q)
  <2>1. PlaceOf(m, D, H, None, q) /\ Counted(m, D, None, q)
    BY DEF MemOK
  <2>2. None[q] = 0
    BY DEF None
  <2>3. PlaceOf(n, D, H \ {p}, None, q)
    <3>1. CASE q = p
      BY <1>2, <1>8, <1>10, <2>2, <3>1 DEF PlaceOf
    <3>2. CASE q # p
      BY <1>8, <1>10, <2>1, <3>2 DEF PlaceOf
    <3>3. QED
      BY <3>1, <3>2
  <2>4. QED
    BY <1>5, <1>10, <2>1, <2>3 DEF Counted
<1>13. n.panic # "page_free" /\ None \in [Page -> Nat]
  BY <1>5 DEF MemOK, None
<1>14. MemOK(n, D, H \ {p}, None)
  BY <1>1, <1>7, <1>8, <1>11, <1>12, <1>13 DEF MemOK
<1>15. QED
  BY <1>9, <1>14 DEF n

(* An edit of slot i of a directory d. *)
LEMMA EditSlot ==
  ASSUME NEW m \in Memory, NEW D \in SUBSET Page, Private(m, D),
         NEW d \in D, NEW i \in Pdx, NEW slot \in Slot
  PROVE  LET n == [m EXCEPT !.frame[d][i] = slot]
         IN  /\ n \in Memory /\ n.pp_ref = m.pp_ref /\ n.panic = m.panic
             /\ n.page_free_list = m.page_free_list
             /\ n.frame[d][i] = slot
             /\ \A a \in D, b \in Pdx :
                  a # d \/ b # i => n.frame[a][b] = m.frame[a][b]
             /\ \A q \in Page : q # d => n.frame[q] = m.frame[q]
             /\ \A a \in D, b \in Pdx, c \in Ptx : a # d \/ b # i =>
                  page_lookup(n, a, b, c) = page_lookup(m, a, b, c)
<1> DEFINE n == [m EXCEPT !.frame[d][i] = slot]
<1>1. d \in Page /\ i \in Ptx /\ m.frame \in [Page -> [Ptx -> Slot]]
  BY MemoryParts, SlotParts
<1>2. n = [m EXCEPT !.frame = [m.frame EXCEPT ![d][i] = slot]]
  OBVIOUS
<1>3. /\ n.pp_ref = m.pp_ref /\ n.panic = m.panic
      /\ n.page_free_list = m.page_free_list
      /\ n.frame = [m.frame EXCEPT ![d][i] = slot]
  BY <1>2 DEF Memory
<1>4. n.frame \in [Page -> [Ptx -> Slot]]
  BY <1>1, <1>3
<1>5. n \in Memory
  BY <1>2, <1>3, <1>4 DEF Memory
<1> HIDE DEF n
<1>6. n.frame[d][i] = slot
  BY <1>1, <1>3
<1>7. \A q \in Page : q # d => n.frame[q] = m.frame[q]
  BY <1>1, <1>3
<1>8. ASSUME NEW a \in D, NEW b \in Pdx, a # d \/ b # i
      PROVE  n.frame[a][b] = m.frame[a][b]
  <2>1. CASE a = d
    <3>1. b \in Ptx
      BY SlotParts
    <3>2. QED
      BY <1>1, <1>3, <1>8, <2>1, <3>1
  <2>2. CASE a # d
    BY <1>7, <2>2
  <2>3. QED
    BY <2>1, <2>2
<1>9. ASSUME NEW a \in D, NEW b \in Pdx, NEW c \in Ptx, a # d \/ b # i
      PROVE  page_lookup(n, a, b, c) = page_lookup(m, a, b, c)
  <2>1. n.frame[a][b] = m.frame[a][b]
    BY <1>8, <1>9
  <2>2. CASE m.frame[a][b] = NULL
    BY <2>1, <2>2 DEF page_lookup, HasTable
  <2>3. CASE m.frame[a][b] # NULL
    <3>1. Table(m, a, b) \in Page /\ Table(m, a, b) # d
      <4>1. Table(m, a, b) \in Page
        <5>1. m.frame[a][b] \in Slot
          BY <1>1, SlotParts
        <5>2. QED
          BY <2>3, <5>1, SlotParts DEF Table
      <4>2. QED
        BY <2>3, <4>1, PrivateFacts DEF HasTable
    <3>2. n.frame[Table(m, a, b)] = m.frame[Table(m, a, b)]
      BY <1>7, <3>1
    <3>3. QED
      BY <2>1, <2>3, <3>2 DEF page_lookup, HasTable, Table
  <2>4. QED
    BY <2>2, <2>3
<1>10. QED
  BY <1>3, <1>5, <1>6, <1>7, <1>8, <1>9 DEF n

(* An edit of slot j of the page table for slot i of directory d. *)
LEMMA EditPte ==
  ASSUME NEW m \in Memory, NEW D \in SUBSET Page, Private(m, D),
         NEW d \in D, NEW i \in Pdx, NEW j \in Ptx, NEW slot \in Slot,
         HasTable(m, d, i)
  PROVE  LET n == set_pte(m, Table(m, d, i), j, slot)
         IN  /\ n \in Memory /\ n.pp_ref = m.pp_ref /\ n.panic = m.panic
             /\ n.page_free_list = m.page_free_list
             /\ SameSlots(m, n, D)
             /\ page_lookup(n, d, i, j) = slot
             /\ \A a \in D, b \in Pdx, c \in Ptx :
                  a # d \/ b # i \/ c # j =>
                    page_lookup(n, a, b, c) = page_lookup(m, a, b, c)
<1> DEFINE t == Table(m, d, i)
           n == set_pte(m, t, j, slot)
<1>1. d \in Page /\ i \in Ptx /\ m.frame \in [Page -> [Ptx -> Slot]]
  BY MemoryParts, SlotParts
<1>2. t \in Page /\ t \notin D
  <2>1. m.frame[d][i] \in Slot
    BY <1>1, SlotParts
  <2>2. QED
    BY <2>1, SlotParts, PrivateFacts DEF HasTable, Table
<1>3. n = [m EXCEPT !.frame = [m.frame EXCEPT ![t][j] = slot]]
  BY DEF set_pte
<1>4. /\ n.pp_ref = m.pp_ref /\ n.panic = m.panic
      /\ n.page_free_list = m.page_free_list
      /\ n.frame = [m.frame EXCEPT ![t][j] = slot]
  BY <1>3 DEF Memory
<1>5. n.frame \in [Page -> [Ptx -> Slot]]
  BY <1>1, <1>2, <1>4
<1>6. n \in Memory
  BY <1>3, <1>4, <1>5 DEF Memory
<1> HIDE DEF n
<1>7. n.frame[t][j] = slot /\ \A c \in Ptx : c # j => n.frame[t][c] = m.frame[t][c]
  BY <1>1, <1>2, <1>4
<1>8. \A q \in Page : q # t => n.frame[q] = m.frame[q]
  BY <1>1, <1>2, <1>4
<1>9. SameSlots(m, n, D)
  BY <1>2, <1>8 DEF SameSlots
<1>10. page_lookup(n, d, i, j) = slot
  BY <1>7, <1>9 DEF SameSlots, page_lookup, HasTable, Table
<1>11. ASSUME NEW a \in D, NEW b \in Pdx, NEW c \in Ptx,
              a # d \/ b # i \/ c # j
       PROVE  page_lookup(n, a, b, c) = page_lookup(m, a, b, c)
  <2>1. n.frame[a][b] = m.frame[a][b]
    BY <1>9 DEF SameSlots
  <2>2. CASE m.frame[a][b] = NULL
    BY <2>1, <2>2 DEF page_lookup, HasTable
  <2>3. CASE m.frame[a][b] # NULL
    <3>1. Table(m, a, b) \in Page
      <4>1. m.frame[a][b] \in Slot
        BY <1>1, SlotParts
      <4>2. QED
        BY <2>3, <4>1, SlotParts DEF Table
    <3>2. Table(m, a, b) = t => a = d /\ b = i
      BY <2>3, PrivateFacts DEF HasTable
    <3>3. n.frame[Table(m, a, b)][c] = m.frame[Table(m, a, b)][c]
      BY <1>7, <1>8, <1>11, <3>1, <3>2
    <3>4. QED
      BY <2>1, <2>3, <3>3 DEF page_lookup, HasTable, Table
  <2>4. QED
    BY <2>2, <2>3
<1>12. QED
  BY <1>4, <1>6, <1>9, <1>10, <1>11 DEF n

------------------------------------------------------------------------------
(* The calls. *)

(* pgdir_walk: a table for slot i that was not there before has no entry. *)
LEMMA WalkOK ==
  ASSUME NEW m, NEW D, NEW H, MemOK(m, D, H, None),
         NEW d \in D, NEW i \in Pdx, CanWalk(m, d, i)
  PROVE  LET n == pgdir_walk(m, d, i)
         IN  /\ MemOK(n, D, H, None) /\ HasTable(n, d, i)
             /\ SameLookups(m, n, D) /\ n.panic = m.panic
             /\ OnFreeList(n) \subseteq OnFreeList(m)
             /\ \A q \in Page : q \in H => q \notin OnFreeList(n)
             /\ \A q \in Page : q \notin OnFreeList(m) =>
                  Pointers(n, D, q) = Pointers(m, D, q)
<1>1. CASE HasTable(m, d, i)
  <2>1. pgdir_walk(m, d, i) = m
    BY <1>1 DEF pgdir_walk
  <2>2. QED
    BY <1>1, <2>1 DEF SameLookups, MemOK, PlaceOf
<1>2. CASE ~HasTable(m, d, i)
  <2> DEFINE p == Allocated(m)
             m1 == page_alloc(m, TRUE)
             m2 == page_incref(m1, p)
             n == pgdir_walk(m, d, i)
             e == [pp |-> p, perm |-> "UW"]
  <2>1. CanAlloc(m)
    BY <1>2 DEF CanWalk
  <2>2. /\ MemOK(m1, D, H \cup {p}, None)
        /\ p \in Page /\ p \notin H /\ p \in OnFreeList(m)
        /\ Pointers(m, D, p) = {} /\ Pointers(m1, D, p) = {}
        /\ SameSlots(m, m1, D) /\ SameLookups(m, m1, D)
        /\ m1.panic = m.panic /\ m1.pp_ref[p] = 0
        /\ OnFreeList(m1) = OnFreeList(m) \ {p} /\ m1.frame[p] = Zero
    BY <2>1, TakePage
  <2> HIDE DEF m1
  <2>3. p \notin OnFreeList(m1) /\ m1.pp_ref[p] + 1 < RefMod
    BY <2>2, SizeAssumption
  <2>4. /\ MemOK(m2, D, H \cup {p}, More(None, p))
        /\ m2.frame = m1.frame /\ OnFreeList(m2) = OnFreeList(m1)
        /\ m2.panic = m1.panic
        /\ SameSlots(m1, m2, D) /\ SameLookups(m1, m2, D)
    BY <2>2, <2>3, CountUp
  <2> HIDE DEF m2
  <2>5. n = [m2 EXCEPT !.frame[d][i] = e]
    BY <1>2 DEF pgdir_walk, m1, m2
  <2>6. m2 \in Memory /\ D \in SUBSET Page /\ Private(m2, D) /\ e \in Slot
    BY <2>2, <2>4, SlotParts DEF MemOK, Perm
  <2>7. /\ n \in Memory /\ n.pp_ref = m2.pp_ref /\ n.panic = m2.panic
        /\ n.page_free_list = m2.page_free_list
        /\ n.frame[d][i] = e
        /\ \A a \in D, b \in Pdx :
             a # d \/ b # i => n.frame[a][b] = m2.frame[a][b]
        /\ \A q \in Page : q # d => n.frame[q] = m2.frame[q]
        /\ \A a \in D, b \in Pdx, c \in Ptx : a # d \/ b # i =>
             page_lookup(n, a, b, c) = page_lookup(m2, a, b, c)
    BY <2>5, <2>6, EditSlot
  <2>8. ~HasTable(m2, d, i) /\ e # NULL /\ e.pp = p
    BY <1>2, <2>2, <2>4, SlotParts DEF SameSlots, HasTable, Perm
  <2> HIDE DEF n, e
  <2>9. HasTable(n, d, i) /\ Table(n, d, i) = p
    BY <2>7, <2>8 DEF HasTable, Table
  <2>10. \A q : Pointers(m2, D, q) = Pointers(m, D, q)
    BY <2>2, <2>4, SamePointers
  <2>11. p \notin D /\ \A a \in D, b \in Pdx : HasTable(m2, a, b) => Table(m2, a, b) # p
    BY <2>2, <2>10, UnusedPage
  <2>12. \A c \in Ptx : page_lookup(n, d, i, c) = NULL /\ page_lookup(m2, d, i, c) = NULL
    <3>1. n.frame[p] = Zero
      BY <2>2, <2>4, <2>7, <2>11
    <3>2. QED
      BY <2>8, <2>9, <3>1, SlotParts DEF page_lookup
  <2>13. SameLookups(m2, n, D)
    BY <2>7, <2>12 DEF SameLookups
  <2>14. Adds(m2, D, n, D, p, <<d, i>>)
    BY <2>7, <2>8, <2>9, <2>13, SlotAdds
  <2>15. Private(n, D)
    <3>1. \A a \in D : Pointers(n, D, a) = {<<a>>}
      BY <2>6, <2>11, <2>14 DEF Adds, Private
    <3>2. ASSUME NEW a \in D, NEW b \in Pdx, HasTable(n, a, b)
          PROVE  Pointers(n, D, Table(n, a, b)) = {<<a, b>>}
      <4>1. CASE a = d /\ b = i
        <5>1. Pointers(m2, D, p) = {}
          BY <2>2, <2>10
        <5>2. QED
          BY <2>9, <2>14, <4>1, <5>1 DEF Adds
      <4>2. CASE ~(a = d /\ b = i)
        <5>1. HasTable(m2, a, b) /\ Table(n, a, b) = Table(m2, a, b)
          BY <2>7, <3>2, <4>2 DEF HasTable, Table
        <5>2. Table(n, a, b) # p /\ Pointers(m2, D, Table(n, a, b)) = {<<a, b>>}
          BY <2>6, <2>11, <5>1 DEF Private
        <5>3. QED
          BY <2>14, <5>2 DEF Adds
      <4>3. QED
        BY <4>1, <4>2
    <3>3. QED
      BY <3>1, <3>2 DEF Private
  <2>16. More(None, p)[p] > 0 /\ Less(More(None, p), p) = None
    BY <2>2 DEF More, Less, None
  <2>17. n.panic # "page_free"
    BY <2>4, <2>7 DEF MemOK
  <2>18. MemOK(n, D, (H \cup {p}) \ {p}, None)
    BY <2>2, <2>4, <2>6, <2>7, <2>14, <2>15, <2>16, <2>17, PutPointer
  <2>19. (H \cup {p}) \ {p} = H
    BY <2>2
  <2>20. SameLookups(m, n, D)
    BY <2>2, <2>4, <2>13 DEF SameLookups
  <2>21. OnFreeList(n) = OnFreeList(m) \ {p}
    BY <2>2, <2>4, <2>7 DEF OnFreeList
  <2>22. \A q \in Page : q \notin OnFreeList(m) =>
           Pointers(n, D, q) = Pointers(m, D, q)
    BY <2>2, <2>10, <2>14 DEF Adds
  <2>23. \A q \in Page : q \in H => q \notin OnFreeList(m)
    BY DEF MemOK, PlaceOf
  <2>24. QED
    BY <2>2, <2>4, <2>7, <2>9, <2>18, <2>19, <2>20, <2>21, <2>22, <2>23 DEF n
<1>3. QED
  BY <1>1, <1>2

(* p is no directory and no page table. *)
NotTable(m, D, p) ==
  p \notin D /\ \A a \in D, b \in Pdx : HasTable(m, a, b) => Table(m, a, b) # p

(* A pointer from a page table touches neither directories nor tables. *)
LEMMA PtePrivate ==
  ASSUME NEW m, NEW n, NEW D, NEW p, NEW where, NotTable(m, D, p),
         SameSlots(m, n, D),
         \A q : q # p => Pointers(n, D, q) = Pointers(m, D, q)
  PROVE  Private(n, D) <=> Private(m, D)
BY DEF NotTable, SameSlots, Private, HasTable, Table

(* page_remove: the mapping is gone, whatever it led to counts one less,   *)
(* and was freed if that was its last.                                     *)
LEMMA RemoveOK ==
  ASSUME NEW m, NEW D, NEW H, NEW X, MemOK(m, D, H, X),
         NEW d \in D, NEW i \in Pdx, NEW j \in Ptx
  PROVE  LET n == page_remove(m, d, i, j)
         IN  /\ MemOK(n, D, H, X) /\ n.panic = m.panic
             /\ SameSlots(m, n, D)
             /\ page_lookup(n, d, i, j) = NULL
             /\ \A a \in D, b \in Pdx, c \in Ptx :
                  a # d \/ b # i \/ c # j =>
                    page_lookup(n, a, b, c) = page_lookup(m, a, b, c)
<1> DEFINE pte == page_lookup(m, d, i, j)
           p == pte.pp
           n == page_remove(m, d, i, j)
<1>1. CASE pte = NULL
  <2>1. n = m
    BY <1>1 DEF page_remove
  <2>2. QED
    BY <1>1, <2>1 DEF SameSlots
<1>2. CASE pte # NULL
  <2> DEFINE m1 == set_pte(m, Table(m, d, i), j, NULL)
  <2>1. HasTable(m, d, i) /\ n = page_decref(m1, p)
    BY <1>2 DEF page_lookup, page_remove
  <2>2. m \in Memory /\ D \in SUBSET Page /\ Private(m, D) /\ NULL \in Slot
    BY DEF MemOK, Slot
  <2>3. /\ m1 \in Memory /\ m1.pp_ref = m.pp_ref /\ m1.panic = m.panic
        /\ m1.page_free_list = m.page_free_list
        /\ SameSlots(m, m1, D)
        /\ page_lookup(m1, d, i, j) = NULL
        /\ \A a \in D, b \in Pdx, c \in Ptx :
             a # d \/ b # i \/ c # j =>
               page_lookup(m1, a, b, c) = page_lookup(m, a, b, c)
    BY <2>1, <2>2, EditPte
  <2>4. p \in Page /\ NotTable(m, D, p)
    <3>1. Table(m, d, i) \in Page
      <4>1. m.frame[d][i] \in Slot
        BY <2>2, MemoryParts, SlotParts
      <4>2. QED
        BY <2>1, <4>1, SlotParts DEF HasTable, Table
    <3>2. pte \in Slot
      BY <2>1, <2>2, <3>1, MemoryParts DEF page_lookup
    <3>3. p \in Page
      BY <1>2, <3>2, SlotParts
    <3>4. QED
      BY <1>2, <2>2, <3>3, PrivateFacts DEF NotTable
  <2> HIDE DEF m1, p, pte
  <2>5. SameSlots(m1, m, D) /\ NotTable(m1, D, p)
    BY <2>3, <2>4 DEF SameSlots, NotTable, HasTable, Table
  <2>6. Adds(m1, D, m, D, p, <<d, i, j>>)
    BY <1>2, <2>3, <2>5, PteAdds DEF p, pte
  <2>7. Private(m1, D)
    <3>1. \A q : q # p => Pointers(m, D, q) = Pointers(m1, D, q)
      BY <2>6 DEF Adds
    <3>2. QED
      BY <2>2, <2>5, <3>1, PtePrivate
  <2>8. m1.panic # "page_free"
    BY <2>3 DEF MemOK
  <2>9. MemOK(m1, D, H, More(X, p)) /\ p \notin H /\ More(X, p)[p] > 0
    BY <2>2, <2>3, <2>4, <2>6, <2>7, <2>8, ErasePointer
  <2>10. /\ MemOK(n, D, H, Less(More(X, p), p)) /\ n.panic = m1.panic
         /\ SameSlots(m1, n, D) /\ SameLookups(m1, n, D)
    BY <2>1, <2>4, <2>9, CountDown
  <2>11. Less(More(X, p), p) = X
    <3>1. X \in [Page -> Nat]
      BY DEF MemOK
    <3>2. QED
      BY <2>4, <3>1, MoreLess
  <2>12. SameSlots(m, n, D)
    BY <2>3, <2>10 DEF SameSlots
  <2>13. QED
    BY <2>3, <2>10, <2>11, <2>12 DEF SameLookups
<1>3. QED
  BY <1>1, <1>2

(* One more pointer to p does not make its pp_ref wrap. *)
RoomFor(m, D, p) == Cardinality(Pointers(m, D, p)) + 1 < RefMod

(* page_insert: the page is mapped, and what was mapped there is not.      *)
LEMMA InsertOK ==
  ASSUME NEW m, NEW D, NEW H, MemOK(m, D, H, None),
         NEW d \in D, NEW i \in Pdx, NEW j \in Ptx, NEW p \in Page,
         NEW perm \in Perm, CanWalk(m, d, i),
         p \notin OnFreeList(m), NotTable(m, D, p),
         RoomFor(m, D, p)
  PROVE  LET n == page_insert(m, d, p, i, j, perm)
         IN  /\ MemOK(n, D, H \ {p}, None) /\ n.panic = m.panic
             /\ page_lookup(n, d, i, j) = [pp |-> p, perm |-> perm]
             /\ \A a \in D, b \in Pdx, c \in Ptx :
                  a # d \/ b # i \/ c # j =>
                    page_lookup(n, a, b, c) = page_lookup(m, a, b, c)
<1> DEFINE m1 == pgdir_walk(m, d, i)
           m2 == page_incref(m1, p)
           m3 == page_remove(m2, d, i, j)
           e == [pp |-> p, perm |-> perm]
           n == set_pte(m3, Table(m3, d, i), j, e)
           X == More(None, p)
<1>1. page_insert(m, d, p, i, j, perm) = n
  BY DEF page_insert
<1>2. /\ MemOK(m1, D, H, None) /\ HasTable(m1, d, i)
      /\ SameLookups(m, m1, D) /\ m1.panic = m.panic
      /\ OnFreeList(m1) \subseteq OnFreeList(m)
      /\ Pointers(m1, D, p) = Pointers(m, D, p)
  BY WalkOK
<1> HIDE DEF m1
<1>3. NotTable(m1, D, p)
  <2>1. p \notin D
    BY DEF NotTable
  <2>2. ASSUME NEW a \in D, NEW b \in Pdx, HasTable(m1, a, b),
               Table(m1, a, b) = p
        PROVE  FALSE
    <3>1. <<a, b>> \in Pointers(m1, D, p)
      BY <2>2, PointerKinds
    <3>2. <<a, b>> \in Pointers(m, D, p)
      BY <1>2, <3>1
    <3>3. HasTable(m, a, b) /\ Table(m, a, b) = p
      BY <3>2, PointerKinds
    <3>4. QED
      BY <3>3 DEF NotTable
  <2>3. QED
    BY <2>1, <2>2 DEF NotTable
<1>4. p \notin OnFreeList(m1) /\ m1.pp_ref[p] + 1 < RefMod
  <2>1. Counted(m1, D, None, p) /\ None[p] = 0
    BY <1>2 DEF MemOK, None
  <2>2. D \in SUBSET Page
    BY DEF MemOK
  <2>3. Cardinality(Pointers(m, D, p)) \in Nat
    BY <2>2, PointersFinite
  <2>4. m1.pp_ref[p] = Cardinality(Pointers(m, D, p))
    BY <1>2, <2>1, <2>3 DEF Counted
  <2>5. QED
    BY <1>2, <2>4 DEF RoomFor
<1>5. /\ MemOK(m2, D, H, X) /\ m2.panic = m1.panic
      /\ SameSlots(m1, m2, D) /\ SameLookups(m1, m2, D)
  BY <1>2, <1>4, CountUp
<1> HIDE DEF m2, X
<1>6. /\ MemOK(m3, D, H, X) /\ m3.panic = m2.panic
      /\ SameSlots(m2, m3, D)
      /\ page_lookup(m3, d, i, j) = NULL
      /\ \A a \in D, b \in Pdx, c \in Ptx :
           a # d \/ b # i \/ c # j =>
             page_lookup(m3, a, b, c) = page_lookup(m2, a, b, c)
  BY <1>5, RemoveOK
<1> HIDE DEF m3
<1>7. HasTable(m3, d, i) /\ NotTable(m3, D, p)
  BY <1>2, <1>3, <1>5, <1>6 DEF SameSlots, NotTable, HasTable, Table
<1>8. m3 \in Memory /\ D \in SUBSET Page /\ Private(m3, D)
  BY <1>6 DEF MemOK
<1>9. e \in Slot /\ e # NULL /\ e.pp = p
  BY SlotParts
<1> HIDE DEF e
<1>10. /\ n \in Memory /\ n.pp_ref = m3.pp_ref /\ n.panic = m3.panic
       /\ n.page_free_list = m3.page_free_list
       /\ SameSlots(m3, n, D)
       /\ page_lookup(n, d, i, j) = e
       /\ \A a \in D, b \in Pdx, c \in Ptx :
            a # d \/ b # i \/ c # j =>
              page_lookup(n, a, b, c) = page_lookup(m3, a, b, c)
  BY <1>7, <1>8, <1>9, EditPte
<1> HIDE DEF n
<1>11. Adds(m3, D, n, D, p, <<d, i, j>>)
  BY <1>6, <1>9, <1>10, PteAdds
<1>12. Private(n, D)
  <2>1. \A q : q # p => Pointers(n, D, q) = Pointers(m3, D, q)
    BY <1>11 DEF Adds
  <2>2. QED
    BY <1>7, <1>8, <1>10, <2>1, PtePrivate
<1>13. X[p] > 0 /\ Less(X, p) = None
  BY DEF X, More, Less, None
<1>14. n.panic # "page_free"
  BY <1>6, <1>10 DEF MemOK
<1>15. MemOK(n, D, H \ {p}, None)
  BY <1>6, <1>8, <1>10, <1>11, <1>12, <1>13, <1>14, PutPointer
<1>16. \A a \in D, b \in Pdx, c \in Ptx :
         a # d \/ b # i \/ c # j =>
           page_lookup(n, a, b, c) = page_lookup(m, a, b, c)
  BY <1>2, <1>5, <1>6, <1>10 DEF SameLookups
<1>17. QED
  BY <1>1, <1>2, <1>5, <1>6, <1>10, <1>15, <1>16 DEF e

(* env_setup_vm: the new directory is a page nothing pointed to. *)
LEMMA SetupOK ==
  ASSUME NEW m, NEW D, NEW H, MemOK(m, D, H, None), CanAlloc(m)
  PROVE  LET n == env_setup_vm(m)
             p == Allocated(m)
         IN  /\ MemOK(n, D \cup {p}, H, None) /\ n.panic = m.panic
             /\ p \in Page /\ p \notin D
             /\ SameLookups(m, n, D)
             /\ \A b \in Pdx : ~HasTable(n, p, b)
<1> DEFINE p == Allocated(m)
           m1 == page_alloc(m, TRUE)
           m2 == page_incref(m1, p)
           n == env_setup_vm(m)
           E == D \cup {p}
<1>1. /\ MemOK(m1, D, H \cup {p}, None)
      /\ p \in Page /\ p \notin H
      /\ Pointers(m, D, p) = {} /\ Pointers(m1, D, p) = {}
      /\ SameSlots(m, m1, D) /\ SameLookups(m, m1, D)
      /\ m1.panic = m.panic /\ m1.pp_ref[p] = 0
      /\ OnFreeList(m1) = OnFreeList(m) \ {p} /\ m1.frame[p] = Zero
  BY TakePage
<1> HIDE DEF m1
<1>2. p \notin OnFreeList(m1) /\ m1.pp_ref[p] + 1 < RefMod
  BY <1>1, SizeAssumption
<1>3. /\ MemOK(m2, D, H \cup {p}, More(None, p))
      /\ m2.frame = m1.frame /\ m2.panic = m1.panic
      /\ SameSlots(m1, m2, D) /\ SameLookups(m1, m2, D)
  BY <1>1, <1>2, CountUp
<1> HIDE DEF m2
<1>4. m2 \in Memory /\ D \in SUBSET Page /\ Private(m2, D)
  BY <1>3 DEF MemOK
<1>5. n = m2
  <2>1. n = [m2 EXCEPT !.frame = [m2.frame EXCEPT ![p] = Zero]]
    BY DEF env_setup_vm, m1, m2
  <2>2. m2.frame \in [Page -> [Ptx -> Slot]] /\ m2.frame[p] = Zero
    BY <1>1, <1>3, <1>4, MemoryParts
  <2>3. [m2.frame EXCEPT ![p] = Zero] = m2.frame
    BY <1>1, <2>2
  <2>4. [m2 EXCEPT !.frame = m2.frame] = m2
    BY <1>4 DEF Memory
  <2>5. QED
    BY <2>1, <2>3, <2>4
<1>6. \A b \in Pdx : ~HasTable(m2, p, b)
  BY <1>1, <1>3, SlotParts DEF HasTable
<1>7. \A q : Pointers(m2, D, q) = Pointers(m, D, q)
  <2>1. \A q : Pointers(m2, D, q) = Pointers(m1, D, q)
    BY <1>3, SamePointers
  <2>2. \A q : Pointers(m1, D, q) = Pointers(m, D, q)
    BY <1>1, SamePointers
  <2>3. QED
    BY <2>1, <2>2
<1>8. NotTable(m2, D, p) /\ Pointers(m2, D, p) = {}
  <2>1. Pointers(m2, D, p) = {}
    BY <1>1, <1>7
  <2>2. QED
    BY <2>1, UnusedPage DEF NotTable
<1>9. Adds(m2, D, m2, E, p, <<p>>)
  BY <1>6, <1>8, DirAdds DEF NotTable
<1>10. Private(m2, E)
  <2>1. ASSUME NEW a \in E PROVE Pointers(m2, E, a) = {<<a>>}
    <3>1. CASE a = p
      BY <1>8, <1>9, <3>1 DEF Adds
    <3>2. CASE a # p
      BY <1>4, <1>9, <3>2 DEF Adds, Private
    <3>3. QED
      BY <3>1, <3>2
  <2>2. ASSUME NEW a \in E, NEW b \in Pdx, HasTable(m2, a, b)
        PROVE  Pointers(m2, E, Table(m2, a, b)) = {<<a, b>>}
    <3>1. a \in D
      BY <1>6, <2>2
    <3>2. Table(m2, a, b) # p /\ Pointers(m2, D, Table(m2, a, b)) = {<<a, b>>}
      BY <1>4, <1>8, <2>2, <3>1 DEF NotTable, Private
    <3>3. QED
      BY <1>9, <3>2 DEF Adds
  <2>3. QED
    BY <2>1, <2>2 DEF Private
<1>11. More(None, p)[p] > 0 /\ Less(More(None, p), p) = None
  BY <1>1 DEF More, Less, None
<1>12. m2.panic # "page_free" /\ E \in SUBSET Page
  BY <1>1, <1>3, <1>4 DEF MemOK
<1> HIDE DEF E
<1>13. MemOK(m2, E, (H \cup {p}) \ {p}, None)
  BY <1>1, <1>3, <1>4, <1>9, <1>10, <1>11, <1>12, PutPointer
<1>14. (H \cup {p}) \ {p} = H
  BY <1>1
<1>15. SameLookups(m, m2, D) /\ p \notin D
  BY <1>1, <1>3, <1>8 DEF SameLookups, NotTable
<1>16. QED
  BY <1>1, <1>3, <1>5, <1>6, <1>13, <1>14, <1>15 DEF E

(* The end of a turn of env_free's outer loop: the empty table is freed. *)
LEMMA FreeTableOK ==
  ASSUME NEW m, NEW D, NEW H, MemOK(m, D, H, None),
         NEW d \in D, NEW i \in Pdx, HasTable(m, d, i),
         \A c \in Ptx : page_lookup(m, d, i, c) = NULL
  PROVE  LET n == FreeTable(m, d, i)
         IN  /\ MemOK(n, D, H, None) /\ n.panic = m.panic
             /\ SameLookups(m, n, D)
             /\ ~HasTable(n, d, i)
             /\ \A a \in D, b \in Pdx :
                  a # d \/ b # i => n.frame[a][b] = m.frame[a][b]
<1> DEFINE t == Table(m, d, i)
           m1 == [m EXCEPT !.frame[d][i] = NULL]
           n == FreeTable(m, d, i)
<1>1. m \in Memory /\ D \in SUBSET Page /\ Private(m, D) /\ NULL \in Slot
  BY DEF MemOK, Slot
<1>2. /\ m1 \in Memory /\ m1.pp_ref = m.pp_ref /\ m1.panic = m.panic
      /\ m1.page_free_list = m.page_free_list
      /\ m1.frame[d][i] = NULL
      /\ \A a \in D, b \in Pdx :
           a # d \/ b # i => m1.frame[a][b] = m.frame[a][b]
      /\ \A a \in D, b \in Pdx, c \in Ptx : a # d \/ b # i =>
           page_lookup(m1, a, b, c) = page_lookup(m, a, b, c)
  BY <1>1, EditSlot
<1> HIDE DEF m1
<1>3. n = page_decref(m1, t)
  BY DEF FreeTable, m1
<1>4. ~HasTable(m1, d, i)
  BY <1>2 DEF HasTable
<1>5. SameLookups(m1, m, D) /\ SameLookups(m, m1, D)
  <2>1. \A c \in Ptx : page_lookup(m1, d, i, c) = NULL
    BY <1>4 DEF page_lookup
  <2>2. QED
    BY <1>2, <2>1 DEF SameLookups
<1>6. t \in Page
  <2>1. m.frame[d][i] \in Slot
    BY <1>1, MemoryParts, SlotParts
  <2>2. QED
    BY <2>1, SlotParts DEF HasTable, Table
<1>7. Adds(m1, D, m, D, t, <<d, i>>)
  BY <1>2, <1>4, <1>5, SlotAdds
<1>8. Private(m1, D)
  <2>1. ASSUME NEW a \in D PROVE Pointers(m1, D, a) = {<<a>>}
    <3>1. a # t
      BY <1>1, PrivateFacts
    <3>2. QED
      BY <1>1, <1>7, <3>1 DEF Adds, Private
  <2>2. ASSUME NEW a \in D, NEW b \in Pdx, HasTable(m1, a, b)
        PROVE  Pointers(m1, D, Table(m1, a, b)) = {<<a, b>>}
    <3>1. a # d \/ b # i
      BY <1>4, <2>2
    <3>2. HasTable(m, a, b) /\ Table(m1, a, b) = Table(m, a, b)
      BY <1>2, <2>2, <3>1 DEF HasTable, Table
    <3>3. Table(m, a, b) # t
      BY <1>1, <3>1, <3>2, PrivateFacts
    <3>4. QED
      BY <1>1, <1>7, <3>2, <3>3 DEF Adds, Private
  <2>3. QED
    BY <2>1, <2>2 DEF Private
<1>9. m1.panic # "page_free"
  BY <1>2 DEF MemOK
<1>10. MemOK(m1, D, H, More(None, t)) /\ t \notin H /\ More(None, t)[t] > 0
  BY <1>1, <1>2, <1>6, <1>7, <1>8, <1>9, ErasePointer
<1> HIDE DEF t
<1>11. /\ MemOK(n, D, H, Less(More(None, t), t)) /\ n.panic = m1.panic
       /\ SameSlots(m1, n, D) /\ SameLookups(m1, n, D)
  BY <1>3, <1>6, <1>10, CountDown
<1>12. Less(More(None, t), t) = None
  <2>1. None \in [Page -> Nat]
    BY DEF None
  <2>2. QED
    BY <1>6, <2>1, MoreLess
<1>13. ~HasTable(n, d, i) /\ SameLookups(m, n, D)
  BY <1>4, <1>5, <1>11 DEF SameSlots, SameLookups, HasTable
<1>14. \A a \in D, b \in Pdx :
         a # d \/ b # i => n.frame[a][b] = m.frame[a][b]
  BY <1>2, <1>11 DEF SameSlots
<1>15. QED
  BY <1>2, <1>11, <1>12, <1>13, <1>14

(* The end of env_free: the empty directory is freed. *)
LEMMA FreeDirOK ==
  ASSUME NEW m, NEW D, NEW H, MemOK(m, D, H, None), NEW d \in D,
         \A b \in Pdx : ~HasTable(m, d, b)
  PROVE  LET n == page_decref(m, d)
         IN  /\ MemOK(n, D \ {d}, H, None) /\ n.panic = m.panic
             /\ SameLookups(m, n, D \ {d})
<1> DEFINE E == D \ {d}
           n == page_decref(m, d)
<1>1. m \in Memory /\ D \in SUBSET Page /\ Private(m, D) /\ d \in Page
  BY DEF MemOK
<1>2. E \in SUBSET Page /\ E \cup {d} = D /\ d \notin E
  BY <1>1
<1>3. Adds(m, E, m, D, d, <<d>>)
  <2> HIDE DEF E
  <2>1. QED
    BY <1>2, DirAdds
<1>4. Private(m, E)
  <2>1. ASSUME NEW a \in E PROVE Pointers(m, E, a) = {<<a>>}
    BY <1>1, <1>3 DEF Adds, Private
  <2>2. ASSUME NEW a \in E, NEW b \in Pdx, HasTable(m, a, b)
        PROVE  Pointers(m, E, Table(m, a, b)) = {<<a, b>>}
    <3>1. Table(m, a, b) # d
      BY <1>1, <2>2, PrivateFacts
    <3>2. QED
      BY <1>1, <1>3, <2>2, <3>1 DEF Adds, Private
  <2>3. QED
    BY <2>1, <2>2 DEF Private
<1> HIDE DEF E
<1>5. m.panic # "page_free"
  BY DEF MemOK
<1>6. MemOK(m, E, H, More(None, d)) /\ d \notin H /\ More(None, d)[d] > 0
  BY <1>1, <1>2, <1>3, <1>4, <1>5, ErasePointer
<1>7. /\ MemOK(n, E, H, Less(More(None, d), d)) /\ n.panic = m.panic
      /\ SameLookups(m, n, E)
  BY <1>1, <1>6, CountDown
<1>8. Less(More(None, d), d) = None
  <2>1. None \in [Page -> Nat]
    BY DEF None
  <2>2. QED
    BY <1>1, <2>1, MoreLess
<1>9. QED
  BY <1>7, <1>8 DEF E

------------------------------------------------------------------------------
(* The inductive invariant.                                                *)

(* An address space is borrowed only when there is no curenv. *)
AddressSpace == cr3 # NULL => curenv = NULL \/ curenv = cr3

(* env_free has left the address space it takes apart, and emptied it up   *)
(* to the place where it stands.                                           *)
FreeingInv ==
  freeing # NULL =>
    /\ cr3 # freeing[1]
    /\ \A b \in Pdx : b < freeing[2] => ~HasTable(mem, freeing[1], b)
    /\ \A c \in Ptx : freeing[2] \in Pdx /\ c < freeing[3] =>
         page_lookup(mem, freeing[1], freeing[2], c) = NULL

PmapInv ==
  /\ MemOK(mem, dirs, held \cup lost, None)
  /\ held \cap lost = {}
  /\ TypeOK /\ TlbCoherent /\ AddressSpace /\ FreeingInv

(* The parts of the invariant. *)
LEMMA InvParts ==
  ASSUME PmapInv
  PROVE  /\ mem \in Memory /\ dirs \in SUBSET Page /\ held \in SUBSET Page
         /\ lost \in SUBSET Page /\ Private(mem, dirs)
         /\ mem.panic # "page_free"
         /\ curenv \in dirs \cup {NULL} /\ cr3 \in dirs \cup {NULL}
         /\ tlb \in SUBSET (Pdx \X Ptx \X Entry)
         /\ freeing \in (dirs \X (0 .. U) \X (0 .. N)) \cup {NULL}
         /\ NULL \notin dirs
         /\ \A x \in tlb : x[1] \in Pdx /\ x[2] \in Ptx /\ x[3] \in Entry
<1>1. TypeOK /\ MemOK(mem, dirs, held \cup lost, None)
  BY DEF PmapInv
<1>2. \A x \in tlb : x[1] \in Pdx /\ x[2] \in Ptx /\ x[3] \in Entry
  BY <1>1 DEF TypeOK
<1>3. QED
  BY <1>1, <1>2, PageAssumption DEF TypeOK, MemOK

(* An entry is present. *)
LEMMA EntryPresent == NULL \notin Entry /\ Entry \subseteq Slot
BY PageAssumption DEF Entry, Slot

(* What page_lookup returns. *)
LEMMA LookupType ==
  ASSUME NEW m \in Memory, NEW D \in SUBSET Page, NEW d \in D, NEW i \in Pdx,
         NEW j \in Ptx
  PROVE  /\ page_lookup(m, d, i, j) \in Entry \cup {NULL}
         /\ HasTable(m, d, i) => Table(m, d, i) \in Page
<1>1. m.frame \in [Page -> [Ptx -> Slot]] /\ d \in Page /\ i \in Ptx
  BY MemoryParts, SlotParts
<1>2. HasTable(m, d, i) => Table(m, d, i) \in Page
  <2>1. m.frame[d][i] \in Slot
    BY <1>1
  <2>2. QED
    BY <2>1, SlotParts DEF HasTable, Table
<1>3. page_lookup(m, d, i, j) \in Slot
  BY <1>1, <1>2 DEF page_lookup, Slot
<1>4. QED
  BY <1>2, <1>3 DEF Slot

(* After an edit of one translation, followed by tlb_invalidate, the TLB   *)
(* agrees with the tables.                                                 *)
LEMMA TlbEdit ==
  ASSUME PmapInv, NEW d \in dirs, NEW i \in Pdx, NEW j \in Ptx, NEW n,
         \A a \in dirs, b \in Pdx, c \in Ptx :
           a # d \/ b # i \/ c # j =>
             page_lookup(n, a, b, c) = page_lookup(mem, a, b, c)
  PROVE  /\ TlbAfterRemove(d, i, j) \subseteq tlb
         /\ \A x \in TlbAfterRemove(d, i, j) :
              cr3 # NULL /\ page_lookup(n, cr3, x[1], x[2]) = x[3]
<1>1. TlbAfterRemove(d, i, j) \subseteq tlb
  BY DEF TlbAfterRemove, tlb_invalidate
<1>2. ASSUME NEW x \in TlbAfterRemove(d, i, j)
      PROVE  cr3 # NULL /\ page_lookup(n, cr3, x[1], x[2]) = x[3]
  <2>1. /\ x \in tlb /\ cr3 # NULL /\ page_lookup(mem, cr3, x[1], x[2]) = x[3]
        /\ cr3 \in dirs /\ x[1] \in Pdx /\ x[2] \in Ptx /\ x[3] # NULL
    BY <1>1, InvParts, EntryPresent DEF PmapInv, TlbCoherent
  <2>2. ~(cr3 = d /\ x[1] = i /\ x[2] = j)
    <3> SUFFICES ASSUME cr3 = d, x[1] = i, x[2] = j PROVE FALSE
      OBVIOUS
    <3>1. x \in tlb_invalidate(d, i, j)
      BY <2>1 DEF TlbAfterRemove
    <3>2. curenv = NULL \/ curenv = d
      BY <2>1 DEF PmapInv, AddressSpace
    <3>3. QED
      BY <3>1, <3>2 DEF tlb_invalidate
  <2>3. QED
    BY <2>1, <2>2
<1>3. QED
  BY <1>1, <1>2

(* The TLB keeps agreeing while the current directory says the same. *)
LEMMA TlbSame ==
  ASSUME PmapInv, NEW n, SameLookups(mem, n, dirs \cap {cr3})
  PROVE  \A x \in tlb : cr3 # NULL /\ page_lookup(n, cr3, x[1], x[2]) = x[3]
<1>1. ASSUME NEW x \in tlb
      PROVE  cr3 # NULL /\ page_lookup(n, cr3, x[1], x[2]) = x[3]
  <2>1. /\ cr3 # NULL /\ page_lookup(mem, cr3, x[1], x[2]) = x[3]
        /\ cr3 \in dirs /\ x[1] \in Pdx /\ x[2] \in Ptx
    BY InvParts DEF PmapInv, TlbCoherent
  <2>2. QED
    BY <2>1 DEF SameLookups
<1>2. QED
  BY <1>1

------------------------------------------------------------------------------
(* The first state is in the invariant. *)
LEMMA PmapInit == Init => PmapInv
<1> SUFFICES ASSUME Init PROVE PmapInv
  OBVIOUS
<1>1. /\ mem.pp_ref = [p \in Page |-> 0] /\ mem.frame = [p \in Page |-> Zero]
      /\ mem.panic = "none"
      /\ mem.page_free_list \in [1 .. Cardinality(Page) -> Page]
      /\ \A p \in Page : \E k \in DOMAIN mem.page_free_list :
           mem.page_free_list[k] = p
  BY DEF Init
<1> DEFINE s == mem.page_free_list
           n == Cardinality(Page)
<1>2. n \in Nat /\ Cardinality(1 .. n) = n /\ IsFiniteSet(1 .. n)
  <2>1. n \in Nat
    BY PageAssumption, FS_CardinalityType
  <2> HIDE DEF n
  <2>2. 1 \in Int /\ n \in Int
    BY <2>1
  <2>3. IsFiniteSet(1 .. n) /\ Cardinality(1 .. n) = IF 1 > n THEN 0 ELSE n - 1 + 1
    BY <2>2, FS_Interval
  <2>4. QED
    BY <2>1, <2>3
<1>3. s \in Seq(Page) /\ Len(s) = n /\ DOMAIN s = 1 .. n
  BY <1>1, <1>2, SeqDef
<1>4. s \in Injection(1 .. n, Page)
  <2>1. s \in Surjection(1 .. n, Page)
    BY <1>1, <1>3 DEF Surjection
  <2>2. QED
    BY <1>2, <2>1, FS_SurjSameCardinalityImpliesInj
<1>5. \A k, l \in 1 .. Len(s) : s[k] = s[l] => k = l
  BY <1>3, <1>4 DEF Injection, IsInjective
<1>6. mem \in Memory
  <2>1. [p \in Page |-> 0] \in [Page -> 0 .. RefMod - 1]
    BY SizeAssumption
  <2>2. [p \in Page |-> Zero] \in [Page -> [Ptx -> Slot]]
    BY SlotParts
  <2>3. QED
    BY <1>1, <1>3, <2>1, <2>2 DEF Init, Memory
<1>7. dirs = {} /\ held = {} /\ lost = {}
  BY DEF Init
<1>8. \A p : Pointers(mem, dirs, p) = {}
  BY <1>7 DEF Pointers
<1>9. OnFreeList(mem) = Page
  BY <1>1, <1>3 DEF OnFreeList
<1>10. Cardinality({}) = 0
  BY FS_EmptySet
<1>11. None \in [Page -> Nat] /\ \A p \in Page : None[p] = 0
  BY DEF None
<1>12. ASSUME NEW p \in Page
       PROVE  PlaceOf(mem, dirs, held \cup lost, None, p) /\ Counted(mem, dirs, None, p)
  <2>1. PlaceOf(mem, dirs, held \cup lost, None, p)
    BY <1>7, <1>8, <1>9, <1>11 DEF PlaceOf
  <2>2. Cardinality(Pointers(mem, dirs, p)) = 0 /\ mem.pp_ref[p] = 0 /\ None[p] = 0
    BY <1>1, <1>8, <1>10, <1>11
  <2>3. QED
    BY <2>1, <2>2 DEF Counted
<1>13. Private(mem, dirs)
  BY <1>7 DEF Private
<1>14. MemOK(mem, dirs, held \cup lost, None)
  BY <1>1, <1>5, <1>6, <1>7, <1>11, <1>12, <1>13 DEF MemOK, Distinct
<1>15. TypeOK /\ TlbCoherent /\ AddressSpace /\ FreeingInv
  BY <1>6, <1>7 DEF Init, TypeOK, TlbCoherent, AddressSpace, FreeingInv
<1>16. QED
  BY <1>7, <1>14, <1>15 DEF PmapInv

(* page_alloc keeps the invariant. *)
LEMMA PageAllocInv == ASSUME PmapInv, PageAlloc PROVE PmapInv'
<1> DEFINE p == Allocated(mem)
<1>1. /\ Ready /\ CanAlloc(mem) /\ mem' = page_alloc(mem, FALSE)
      /\ held' = held \cup {p}
      /\ UNCHANGED <<dirs, lost, curenv, cr3, tlb, freeing>>
  BY DEF PageAlloc
<1>2. /\ MemOK(mem', dirs, (held \cup lost) \cup {p}, None)
      /\ p \in Page /\ p \notin held \cup lost
      /\ SameLookups(mem, mem', dirs)
  BY <1>1, TakePage DEF PmapInv
<1>3. MemOK(mem, dirs, held \cup lost, None)' /\ (held \cap lost = {})'
  <2>1. held' \cup lost' = (held \cup lost) \cup {p}
    BY <1>1
  <2>2. held' \cap lost' = {}
    BY <1>1, <1>2 DEF PmapInv
  <2>3. QED
    BY <1>1, <1>2, <2>1, <2>2
<1>4. TlbCoherent'
  <2>1. SameLookups(mem, mem', dirs \cap {cr3})
    BY <1>2 DEF SameLookups
  <2>2. QED
    BY <1>1, <2>1, TlbSame DEF TlbCoherent
<1>5. TypeOK'
  BY <1>1, <1>2 DEF PmapInv, TypeOK, MemOK
<1>6. AddressSpace' /\ FreeingInv'
  BY <1>1 DEF PmapInv, AddressSpace, FreeingInv, Ready
<1>7. QED
  BY <1>3, <1>4, <1>5, <1>6 DEF PmapInv

(* page_free of a page in hand keeps the invariant. *)
LEMMA PageFreeInv ==
  ASSUME PmapInv, NEW p \in held, PageFree(p) PROVE PmapInv'
<1>1. /\ Ready /\ mem' = page_free(mem, p) /\ held' = held \ {p}
      /\ UNCHANGED <<dirs, lost, curenv, cr3, tlb, freeing>>
  BY DEF PageFree
<1>2. /\ MemOK(mem', dirs, (held \cup lost) \ {p}, None)
      /\ SameLookups(mem, mem', dirs)
  BY <1>1, GiveBack DEF PmapInv
<1>3. MemOK(mem, dirs, held \cup lost, None)' /\ (held \cap lost = {})'
  <2>1. held' \cup lost' = (held \cup lost) \ {p}
    BY <1>1 DEF PmapInv
  <2>2. held' \cap lost' = {}
    BY <1>1 DEF PmapInv
  <2>3. QED
    BY <1>1, <1>2, <2>1, <2>2
<1>4. TlbCoherent'
  <2>1. SameLookups(mem, mem', dirs \cap {cr3})
    BY <1>2 DEF SameLookups
  <2>2. QED
    BY <1>1, <2>1, TlbSame DEF TlbCoherent
<1>5. TypeOK'
  BY <1>1, <1>2 DEF PmapInv, TypeOK, MemOK
<1>6. AddressSpace' /\ FreeingInv'
  BY <1>1 DEF PmapInv, AddressSpace, FreeingInv, Ready
<1>7. QED
  BY <1>3, <1>4, <1>5, <1>6 DEF PmapInv

(* A page that is held or mapped can be mapped (again). *)
LEMMA Mappable ==
  ASSUME PmapInv, NEW p \in held \cup Mapped
  PROVE  /\ p \in Page /\ p \notin OnFreeList(mem) /\ p \notin lost
         /\ NotTable(mem, dirs, p)
<1>1. CASE p \in held
  <2>1. /\ p \in Page /\ PlaceOf(mem, dirs, held \cup lost, None, p)
        /\ p \notin lost
    BY <1>1, InvParts DEF PmapInv, MemOK
  <2>2. Pointers(mem, dirs, p) = {}
    BY <1>1, <2>1 DEF PlaceOf
  <2>3. NotTable(mem, dirs, p)
    BY <2>2, UnusedPage DEF NotTable
  <2>4. QED
    BY <1>1, <2>1, <2>3 DEF PlaceOf
<1>2. CASE p \in Mapped
  <2>1. p \in Page
    BY <1>2 DEF Mapped
  <2>2. PICK d \in dirs, i \in Pdx, j \in Ptx :
          page_lookup(mem, d, i, j) # NULL /\ page_lookup(mem, d, i, j).pp = p
    BY <1>2 DEF Mapped
  <2>3. Pointers(mem, dirs, p) # {}
    BY <2>2, MappingPoints
  <2>4. PlaceOf(mem, dirs, held \cup lost, None, p)
    BY <2>1 DEF PmapInv, MemOK
  <2>5. NotTable(mem, dirs, p)
    BY <2>2, InvParts, PrivateFacts DEF NotTable
  <2>6. QED
    BY <2>1, <2>3, <2>4, <2>5 DEF PlaceOf
<1>3. QED
  BY <1>1, <1>2

(* page_insert keeps the invariant, also when it runs out of memory. *)
LEMMA PageInsertInv ==
  ASSUME PmapInv, MaxMaps < RefMod, NEW d \in dirs, NEW p \in Page,
         NEW i \in Pdx, NEW j \in Ptx, NEW perm \in Perm,
         PageInsert(d, p, i, j, perm)
  PROVE  PmapInv'
<1>1. /\ Ready /\ p \in held \cup Mapped
      /\ Cardinality(Pointers(mem, dirs, p)) < MaxMaps
      /\ mem' = page_insert(mem, d, p, i, j, perm)
      /\ held' = IF CanWalk(mem, d, i) THEN held \ {p} ELSE held
      /\ tlb' = IF CanWalk(mem, d, i) THEN TlbAfterRemove(d, i, j) ELSE tlb
      /\ UNCHANGED <<dirs, lost, curenv, cr3, freeing>>
  BY DEF PageInsert
<1>2. p \notin OnFreeList(mem) /\ p \notin lost /\ NotTable(mem, dirs, p)
  BY <1>1, Mappable
<1>3. RoomFor(mem, dirs, p)
  <2>1. Cardinality(Pointers(mem, dirs, p)) \in Nat
    BY InvParts, PointersFinite
  <2>2. QED
    BY <1>1, <2>1, SizeAssumption, MaxMapsAssumption DEF RoomFor
<1>4. CASE CanWalk(mem, d, i)
  <2>1. /\ MemOK(mem', dirs, (held \cup lost) \ {p}, None)
        /\ \A a \in dirs, b \in Pdx, c \in Ptx :
             a # d \/ b # i \/ c # j =>
               page_lookup(mem', a, b, c) = page_lookup(mem, a, b, c)
    <3>1. MemOK(mem, dirs, held \cup lost, None)
      BY DEF PmapInv
    <3>2. QED
      BY <1>1, <1>2, <1>3, <1>4, <3>1, InsertOK
  <2>2. MemOK(mem, dirs, held \cup lost, None)' /\ (held \cap lost = {})'
    <3>1. held' \cup lost' = (held \cup lost) \ {p}
      BY <1>1, <1>2, <1>4
    <3>2. held' \cap lost' = {}
      BY <1>1, <1>4 DEF PmapInv
    <3>3. QED
      BY <1>1, <2>1, <3>1, <3>2
  <2>3. tlb' \subseteq tlb /\ TlbCoherent'
    BY <1>1, <1>4, <2>1, TlbEdit DEF TlbCoherent
  <2>4. TypeOK'
    BY <1>1, <1>4, <2>1, <2>3 DEF PmapInv, TypeOK, MemOK
  <2>5. AddressSpace' /\ FreeingInv'
    BY <1>1 DEF PmapInv, AddressSpace, FreeingInv, Ready
  <2>6. QED
    BY <2>2, <2>3, <2>4, <2>5 DEF PmapInv
<1>5. CASE ~CanWalk(mem, d, i)
  <2>1. UNCHANGED <<mem, dirs, held, lost, curenv, cr3, tlb, freeing>>
    BY <1>1, <1>5 DEF page_insert
  <2>2. QED
    BY <2>1 DEF PmapInv, TypeOK, TlbCoherent, AddressSpace, FreeingInv
<1>6. QED
  BY <1>4, <1>5

(* page_remove keeps the invariant. *)
LEMMA PageRemoveInv ==
  ASSUME PmapInv, NEW d \in dirs, NEW i \in Pdx, NEW j \in Ptx,
         PageRemove(d, i, j)
  PROVE  PmapInv'
<1>1. /\ Ready /\ mem' = page_remove(mem, d, i, j)
      /\ tlb' = TlbAfterRemove(d, i, j)
      /\ UNCHANGED <<dirs, held, lost, curenv, cr3, freeing>>
  BY DEF PageRemove
<1>2. /\ MemOK(mem', dirs, held \cup lost, None)
      /\ \A a \in dirs, b \in Pdx, c \in Ptx :
           a # d \/ b # i \/ c # j =>
             page_lookup(mem', a, b, c) = page_lookup(mem, a, b, c)
  BY <1>1, RemoveOK DEF PmapInv
<1>3. tlb' \subseteq tlb /\ TlbCoherent'
  BY <1>1, <1>2, TlbEdit DEF TlbCoherent
<1>4. TypeOK'
  BY <1>1, <1>2, <1>3 DEF PmapInv, TypeOK, MemOK
<1>5. AddressSpace' /\ FreeingInv'
  BY <1>1 DEF PmapInv, AddressSpace, FreeingInv, Ready
<1>6. QED
  BY <1>1, <1>2, <1>3, <1>4, <1>5 DEF PmapInv

(* A page of region_alloc keeps the invariant, also when it is dropped. *)
LEMMA RegionAllocInv ==
  ASSUME PmapInv, NEW d \in dirs, NEW i \in Pdx, NEW j \in Ptx,
         RegionAlloc(d, i, j)
  PROVE  PmapInv'
<1> DEFINE p == Allocated(mem)
           m == page_alloc(mem, FALSE)
<1>1. Ready /\ UNCHANGED <<dirs, held, curenv, cr3, freeing>>
  BY DEF RegionAlloc
<1>2. AddressSpace' /\ FreeingInv'
  BY <1>1 DEF PmapInv, AddressSpace, FreeingInv, Ready
<1>3. CASE ~CanAlloc(mem)
  <2>1. mem' = [mem EXCEPT !.panic = "region_alloc"] /\ UNCHANGED <<lost, tlb>>
    BY <1>3 DEF RegionAlloc
  <2>2. mem \in Memory
    BY InvParts
  <2>3. /\ mem'.frame = mem.frame /\ mem'.pp_ref = mem.pp_ref
        /\ mem'.page_free_list = mem.page_free_list
        /\ mem'.panic = "region_alloc" /\ mem' \in Memory
    BY <2>1, <2>2 DEF Memory
  <2>4. SameSlots(mem, mem', dirs) /\ SameLookups(mem, mem', dirs)
    BY <2>3 DEF SameSlots, SameLookups, page_lookup, HasTable, Table
  <2>5. MemOK(mem', dirs, held \cup lost, None)
    BY <2>3, <2>4, SameMemOK DEF PmapInv
  <2>6. TlbCoherent'
    <3>1. SameLookups(mem, mem', dirs \cap {cr3})
      BY <2>4 DEF SameLookups
    <3>2. QED
      BY <1>1, <2>1, <3>1, TlbSame DEF TlbCoherent
  <2>7. TypeOK'
    BY <1>1, <2>1, <2>3 DEF PmapInv, TypeOK
  <2>8. QED
    BY <1>1, <1>2, <2>1, <2>5, <2>6, <2>7 DEF PmapInv
<1>4. CASE CanAlloc(mem)
  <2>1. /\ mem' = page_insert(m, d, p, i, j, "UW")
        /\ lost' = IF CanWalk(m, d, i) THEN lost ELSE lost \cup {p}
        /\ tlb' = TlbAfterRemove(d, i, j)
    BY <1>4 DEF RegionAlloc
  <2>2. /\ MemOK(m, dirs, (held \cup lost) \cup {p}, None)
        /\ p \in Page /\ p \notin held \cup lost
        /\ Pointers(m, dirs, p) = {} /\ SameLookups(mem, m, dirs)
        /\ OnFreeList(m) = OnFreeList(mem) \ {p}
    BY <1>4, TakePage DEF PmapInv
  <2> HIDE DEF m, p
  <2>3. CASE CanWalk(m, d, i)
    <3>1. p \notin OnFreeList(m) /\ NotTable(m, dirs, p)
      BY <2>2, UnusedPage DEF NotTable
    <3>2. RoomFor(m, dirs, p)
      <4>1. Cardinality({}) = 0
        BY FS_EmptySet
      <4>2. QED
        BY <2>2, <4>1, SizeAssumption DEF RoomFor
    <3>3. "UW" \in Perm
      BY DEF Perm
    <3>4. /\ MemOK(mem', dirs, ((held \cup lost) \cup {p}) \ {p}, None)
          /\ \A a \in dirs, b \in Pdx, c \in Ptx :
               a # d \/ b # i \/ c # j =>
                 page_lookup(mem', a, b, c) = page_lookup(m, a, b, c)
      BY <2>1, <2>2, <2>3, <3>1, <3>2, <3>3, InsertOK
    <3>5. \A a \in dirs, b \in Pdx, c \in Ptx :
            a # d \/ b # i \/ c # j =>
              page_lookup(mem', a, b, c) = page_lookup(mem, a, b, c)
      BY <2>2, <3>4 DEF SameLookups
    <3>6. MemOK(mem', dirs, held \cup lost, None) /\ lost' = lost
      <4>1. ((held \cup lost) \cup {p}) \ {p} = held \cup lost
        BY <2>2
      <4>2. QED
        BY <2>1, <2>3, <3>4, <4>1
    <3>7. tlb' \subseteq tlb /\ TlbCoherent'
      BY <1>1, <2>1, <3>5, TlbEdit DEF TlbCoherent
    <3>8. TypeOK'
      BY <1>1, <3>6, <3>7 DEF PmapInv, TypeOK, MemOK
    <3>9. QED
      BY <1>1, <1>2, <3>6, <3>7, <3>8 DEF PmapInv
  <2>4. CASE ~CanWalk(m, d, i)
    <3>1. mem' = m /\ lost' = lost \cup {p}
      BY <2>1, <2>4 DEF page_insert
    <3>2. MemOK(mem, dirs, held \cup lost, None)' /\ (held \cap lost = {})'
      <4>1. held' \cup lost' = (held \cup lost) \cup {p}
        BY <1>1, <3>1
      <4>2. held' \cap lost' = {}
        BY <1>1, <2>2, <3>1 DEF PmapInv
      <4>3. QED
        BY <1>1, <2>2, <3>1, <4>1, <4>2
    <3>3. tlb' \subseteq tlb /\ TlbCoherent'
      <4>1. \A a \in dirs, b \in Pdx, c \in Ptx :
              page_lookup(mem', a, b, c) = page_lookup(mem, a, b, c)
        BY <2>2, <3>1 DEF SameLookups
      <4>2. QED
        BY <1>1, <2>1, <4>1, TlbEdit DEF TlbCoherent
    <3>4. TypeOK'
      BY <1>1, <2>2, <3>1, <3>3 DEF PmapInv, TypeOK, MemOK
    <3>5. QED
      BY <1>2, <3>2, <3>3, <3>4 DEF PmapInv
  <2>5. QED
    BY <2>3, <2>4
<1>5. QED
  BY <1>3, <1>4

(* env_setup_vm keeps the invariant. *)
LEMMA EnvSetupVmInv == ASSUME PmapInv, EnvSetupVm PROVE PmapInv'
<1> DEFINE p == Allocated(mem)
<1>1. /\ Ready /\ CanAlloc(mem) /\ mem' = env_setup_vm(mem)
      /\ dirs' = dirs \cup {p}
      /\ UNCHANGED <<held, lost, curenv, cr3, tlb, freeing>>
  BY DEF EnvSetupVm
<1>2. /\ MemOK(mem', dirs \cup {p}, held \cup lost, None)
      /\ p \in Page /\ SameLookups(mem, mem', dirs)
  BY <1>1, SetupOK DEF PmapInv
<1>3. TlbCoherent'
  <2>1. SameLookups(mem, mem', dirs \cap {cr3})
    BY <1>2 DEF SameLookups
  <2>2. QED
    BY <1>1, <2>1, TlbSame DEF TlbCoherent
<1>4. TypeOK'
  BY <1>1, <1>2 DEF PmapInv, TypeOK, MemOK, Ready
<1>5. AddressSpace' /\ FreeingInv'
  BY <1>1 DEF PmapInv, AddressSpace, FreeingInv, Ready
<1>6. QED
  BY <1>1, <1>2, <1>3, <1>4, <1>5 DEF PmapInv

(* lcr3, which empties the TLB. *)
LEMMA SwitchInv ==
  ASSUME PmapInv,
         \/ \E d \in dirs : EnvRun(d) \/ LoadIcodeEnter(d) \/ EnvFreeStart(d)
         \/ ToKernPgdir
  PROVE  PmapInv'
<1>1. UNCHANGED <<mem, dirs, held, lost>> /\ Ready
  BY DEF EnvRun, LoadIcodeEnter, EnvFreeStart, ToKernPgdir
<1>2. ASSUME NEW d \in dirs, EnvRun(d) PROVE PmapInv'
  BY <1>1, <1>2 DEF EnvRun, PmapInv, TypeOK, TlbCoherent, AddressSpace,
     FreeingInv, Ready
<1>3. ASSUME NEW d \in dirs, LoadIcodeEnter(d) PROVE PmapInv'
  BY <1>1, <1>3 DEF LoadIcodeEnter, PmapInv, TypeOK, TlbCoherent,
     AddressSpace, FreeingInv, Ready
<1>4. ASSUME ToKernPgdir PROVE PmapInv'
  BY <1>1, <1>4 DEF ToKernPgdir, PmapInv, TypeOK, TlbCoherent, AddressSpace,
     FreeingInv, Ready
<1>5. ASSUME NEW d \in dirs, EnvFreeStart(d) PROVE PmapInv'
  <2>1. /\ freeing' = <<d, 0, 0>> /\ curenv' = curenv
        /\ cr3' = IF d = curenv THEN NULL ELSE cr3
        /\ tlb' = IF d = curenv THEN {} ELSE tlb
        /\ cr3 = d => curenv = d
    BY <1>5 DEF EnvFreeStart
  <2>2. TypeOK'
    <3>1. freeing' \in dirs \X (0 .. U) \X (0 .. N)
      BY <2>1, SizeAssumption
    <3>2. QED
      BY <1>1, <2>1, <3>1 DEF PmapInv, TypeOK
  <2>3. TlbCoherent' /\ AddressSpace'
    BY <1>1, <2>1 DEF PmapInv, TlbCoherent, AddressSpace
  <2>4. FreeingInv'
    <3>1. cr3' # d
      BY <2>1, InvParts
    <3>2. freeing'[1] = d /\ freeing'[2] = 0 /\ freeing'[3] = 0
      BY <2>1
    <3>3. \A b \in Pdx : ~(b < 0)
      BY SizeAssumption DEF Pdx
    <3>4. \A c \in Ptx : ~(c < 0)
      BY SizeAssumption DEF Ptx
    <3>5. QED
      BY <3>1, <3>2, <3>3, <3>4 DEF FreeingInv
  <2>5. QED
    BY <1>1, <2>2, <2>3, <2>4 DEF PmapInv
<1>6. QED
  BY <1>2, <1>3, <1>4, <1>5

(* A turn of env_free's inner loop keeps the invariant. *)
LEMMA EnvFreePteInv ==
  ASSUME PmapInv, NEW d \in dirs, NEW i \in 0 .. U, NEW j \in 0 .. N,
         EnvFreePte(d, i, j)
  PROVE  PmapInv'
<1>1. /\ freeing = <<d, i, j>> /\ i < U /\ HasTable(mem, d, i) /\ j < N
      /\ mem' = page_remove(mem, d, i, j)
      /\ tlb' = TlbAfterRemove(d, i, j)
      /\ freeing' = <<d, i, j + 1>>
      /\ UNCHANGED <<dirs, held, lost, curenv, cr3>>
  BY DEF EnvFreePte
<1>2. i \in Pdx /\ j \in Ptx
  BY <1>1, SizeAssumption DEF Pdx, Ptx
<1>3. /\ MemOK(mem', dirs, held \cup lost, None)
      /\ SameSlots(mem, mem', dirs)
      /\ page_lookup(mem', d, i, j) = NULL
      /\ \A a \in dirs, b \in Pdx, c \in Ptx :
           a # d \/ b # i \/ c # j =>
             page_lookup(mem', a, b, c) = page_lookup(mem, a, b, c)
  BY <1>1, <1>2, RemoveOK DEF PmapInv
<1>4. tlb' \subseteq tlb /\ TlbCoherent'
  BY <1>1, <1>2, <1>3, TlbEdit DEF TlbCoherent
<1>5. freeing' \in dirs \X (0 .. U) \X (0 .. N)
  BY <1>1, <1>2, SizeAssumption DEF Ptx
<1>6. TypeOK'
  BY <1>1, <1>3, <1>4, <1>5 DEF PmapInv, TypeOK, MemOK
<1>7. FreeingInv'
  <2>1. freeing # NULL
    BY <1>1, InvParts, FreeingAssumption
  <2>2. /\ cr3 # d /\ \A b \in Pdx : b < i => ~HasTable(mem, d, b)
        /\ \A c \in Ptx : c < j => page_lookup(mem, d, i, c) = NULL
    BY <1>1, <1>2, <2>1 DEF PmapInv, FreeingInv
  <2>3. \A b \in Pdx : b < i => ~HasTable(mem', d, b)
    BY <1>3, <2>2 DEF SameSlots, HasTable
  <2>4. ASSUME NEW c \in Ptx, c < j + 1 PROVE page_lookup(mem', d, i, c) = NULL
    <3>1. c = j \/ c < j
      BY <2>4, SizeAssumption DEF Ptx
    <3>2. QED
      BY <1>2, <1>3, <2>2, <3>1
  <2>5. freeing'[1] = d /\ freeing'[2] = i /\ freeing'[3] = j + 1
    BY <1>1
  <2>6. QED
    BY <1>1, <2>2, <2>3, <2>4, <2>5 DEF FreeingInv
<1>8. AddressSpace'
  BY <1>1 DEF PmapInv, AddressSpace
<1>9. QED
  BY <1>1, <1>3, <1>4, <1>6, <1>7, <1>8 DEF PmapInv

(* The giving back of a page table keeps the invariant. *)
LEMMA EnvFreeTableInv ==
  ASSUME PmapInv, NEW d \in dirs, NEW i \in 0 .. U, NEW j \in 0 .. N,
         EnvFreeTable(d, i, j)
  PROVE  PmapInv'
<1>1. /\ freeing = <<d, i, j>> /\ i < U
      /\ freeing' = <<d, i + 1, 0>>
      /\ UNCHANGED <<dirs, held, lost, curenv, cr3, tlb>>
  BY DEF EnvFreeTable
<1>2. i \in Pdx /\ freeing # NULL
  BY <1>1, InvParts, SizeAssumption, FreeingAssumption DEF Pdx
<1>3. /\ cr3 # d /\ \A b \in Pdx : b < i => ~HasTable(mem, d, b)
      /\ \A c \in Ptx : c < j => page_lookup(mem, d, i, c) = NULL
  BY <1>1, <1>2 DEF PmapInv, FreeingInv
<1>4. /\ MemOK(mem', dirs, held \cup lost, None)
      /\ SameLookups(mem, mem', dirs)
      /\ ~HasTable(mem', d, i)
      /\ \A b \in Pdx : b # i => (HasTable(mem', d, b) <=> HasTable(mem, d, b))
  <2>1. CASE ~HasTable(mem, d, i)
    <3>1. mem' = mem
      BY <2>1 DEF EnvFreeTable
    <3>2. QED
      BY <2>1, <3>1 DEF PmapInv, SameLookups
  <2>2. CASE HasTable(mem, d, i)
    <3>1. j = N /\ mem' = FreeTable(mem, d, i)
      BY <2>2 DEF EnvFreeTable
    <3>2. \A c \in Ptx : page_lookup(mem, d, i, c) = NULL
      BY <1>3, <3>1, SizeAssumption DEF Ptx
    <3>3. MemOK(mem, dirs, held \cup lost, None)
      BY DEF PmapInv
    <3>4. /\ MemOK(mem', dirs, held \cup lost, None)
          /\ SameLookups(mem, mem', dirs)
          /\ ~HasTable(mem', d, i)
          /\ \A a \in dirs, b \in Pdx :
               a # d \/ b # i => mem'.frame[a][b] = mem.frame[a][b]
      BY <1>2, <2>2, <3>1, <3>2, <3>3, FreeTableOK
    <3>5. QED
      BY <3>4 DEF HasTable
  <2>3. QED
    BY <2>1, <2>2
<1>5. TlbCoherent'
  <2>1. SameLookups(mem, mem', dirs \cap {cr3})
    BY <1>4 DEF SameLookups
  <2>2. QED
    BY <1>1, <2>1, TlbSame DEF TlbCoherent
<1>6. freeing' \in dirs \X (0 .. U) \X (0 .. N)
  BY <1>1, SizeAssumption
<1>7. TypeOK'
  BY <1>1, <1>4, <1>6 DEF PmapInv, TypeOK, MemOK
<1>8. FreeingInv'
  <2>1. freeing'[1] = d /\ freeing'[2] = i + 1 /\ freeing'[3] = 0
    BY <1>1
  <2>2. ASSUME NEW b \in Pdx, b < i + 1 PROVE ~HasTable(mem', d, b)
    <3>1. b = i \/ b < i
      BY <2>2, SizeAssumption DEF Pdx
    <3>2. QED
      BY <1>3, <1>4, <3>1
  <2>3. \A c \in Ptx : ~(c < 0)
    BY SizeAssumption DEF Ptx
  <2>4. QED
    BY <1>1, <1>3, <2>1, <2>2, <2>3 DEF FreeingInv
<1>9. AddressSpace'
  BY <1>1 DEF PmapInv, AddressSpace
<1>10. QED
  BY <1>1, <1>4, <1>5, <1>7, <1>8, <1>9 DEF PmapInv

(* The giving back of the directory keeps the invariant. *)
LEMMA EnvFreeDirInv ==
  ASSUME PmapInv, NEW d \in dirs, EnvFreeDir(d) PROVE PmapInv'
<1>1. /\ freeing = <<d, U, 0>> /\ mem' = page_decref(mem, d)
      /\ dirs' = dirs \ {d} /\ freeing' = NULL
      /\ curenv' = IF curenv = d THEN NULL ELSE curenv
      /\ UNCHANGED <<held, lost, cr3, tlb>>
  BY DEF EnvFreeDir
<1>2. freeing # NULL
  BY <1>1, InvParts, SizeAssumption, FreeingAssumption
<1>3. cr3 # d /\ \A b \in Pdx : ~HasTable(mem, d, b)
  <2>1. \A b \in Pdx : b < U
    BY SizeAssumption DEF Pdx
  <2>2. QED
    BY <1>1, <1>2, <2>1 DEF PmapInv, FreeingInv
<1>4. MemOK(mem', dirs \ {d}, held \cup lost, None)
      /\ SameLookups(mem, mem', dirs \ {d})
  <2>1. MemOK(mem, dirs, held \cup lost, None)
    BY DEF PmapInv
  <2>2. QED
    BY <1>1, <1>3, <2>1, FreeDirOK
<1>5. TlbCoherent'
  <2>1. SameLookups(mem, mem', dirs \cap {cr3})
    BY <1>3, <1>4 DEF SameLookups
  <2>2. QED
    BY <1>1, <2>1, TlbSame DEF TlbCoherent
<1>6. TypeOK'
  BY <1>1, <1>3, <1>4 DEF PmapInv, TypeOK, MemOK
<1>7. AddressSpace' /\ FreeingInv'
  BY <1>1 DEF PmapInv, AddressSpace, FreeingInv
<1>8. QED
  BY <1>1, <1>4, <1>5, <1>6, <1>7 DEF PmapInv

(* A translation the processor loads is one the tables have. *)
LEMMA TlbFillInv ==
  ASSUME PmapInv, NEW i \in Pdx, NEW j \in Ptx, TlbFill(i, j) PROVE PmapInv'
<1> DEFINE e == page_lookup(mem, cr3, i, j)
<1>1. /\ cr3 # NULL /\ e # NULL /\ tlb' = tlb \cup {<<i, j, e>>}
      /\ UNCHANGED <<mem, dirs, held, lost, curenv, cr3, freeing>>
  BY DEF TlbFill
<1>2. e \in Entry
  BY <1>1, InvParts, LookupType
<1> HIDE DEF e
<1>3. TypeOK'
  <2>1. tlb' \subseteq Pdx \X Ptx \X Entry
    BY <1>1, <1>2, InvParts
  <2>2. QED
    BY <1>1, <2>1 DEF PmapInv, TypeOK
<1>4. TlbCoherent'
  BY <1>1 DEF PmapInv, TlbCoherent, e
<1>5. QED
  BY <1>1, <1>3, <1>4 DEF PmapInv, AddressSpace, FreeingInv

(* The pages user code can store to are no tables. *)
LEMMA UserStoreInv ==
  ASSUME PmapInv, NEW x \in tlb, UserStore(x) PROVE PmapInv'
<1> DEFINE p == x[3].pp
           pattern == [j \in Ptx |-> [pp |-> p, perm |-> "UW"]]
<1>1. /\ Ready /\ mem' = [mem EXCEPT !.frame[p] = pattern]
      /\ UNCHANGED <<dirs, held, lost, curenv, cr3, tlb, freeing>>
  BY DEF UserStore
<1>2. /\ cr3 \in dirs /\ x[1] \in Pdx /\ x[2] \in Ptx /\ x[3] # NULL
      /\ page_lookup(mem, cr3, x[1], x[2]) = x[3] /\ p \in Page
  BY InvParts, EntryPresent DEF PmapInv, TlbCoherent, Entry
<1>3. NotTable(mem, dirs, p)
  BY <1>2, InvParts, PrivateFacts DEF NotTable
<1>4. pattern \in [Ptx -> Slot] /\ mem \in Memory
  BY <1>2, InvParts, SlotParts DEF Perm
<1> HIDE DEF pattern
<1>5. /\ mem'.frame = [mem.frame EXCEPT ![p] = pattern]
      /\ mem'.pp_ref = mem.pp_ref /\ mem'.panic = mem.panic
      /\ mem'.page_free_list = mem.page_free_list
  BY <1>1, <1>4 DEF Memory
<1>6. mem'.frame \in [Page -> [Ptx -> Slot]]
  BY <1>2, <1>4, <1>5, MemoryParts
<1>7. mem' \in Memory
  BY <1>1, <1>4, <1>5, <1>6 DEF Memory
<1>8. \A q \in Page : q # p => mem'.frame[q] = mem.frame[q]
  BY <1>4, <1>5, MemoryParts
<1>9. SameSlots(mem, mem', dirs) /\ SameLookups(mem, mem', dirs)
  BY <1>3, <1>4, <1>8, InvParts, EditElsewhere DEF NotTable
<1>10. MemOK(mem', dirs, held \cup lost, None)
  <2>1. MemOK(mem, dirs, held \cup lost, None) /\ mem'.panic # "page_free"
    BY <1>5, InvParts DEF PmapInv
  <2>2. QED
    BY <1>5, <1>7, <1>9, <2>1, SameMemOK
<1>11. TlbCoherent'
  <2>1. SameLookups(mem, mem', dirs \cap {cr3})
    BY <1>9 DEF SameLookups
  <2>2. QED
    BY <1>1, <2>1, TlbSame DEF TlbCoherent
<1>12. TypeOK'
  BY <1>1, <1>7 DEF PmapInv, TypeOK
<1>13. QED
  BY <1>1, <1>10, <1>11, <1>12 DEF PmapInv, AddressSpace, FreeingInv, Ready

------------------------------------------------------------------------------
(* Every call, every turn of env_free and every step of the processor      *)
(* keeps the invariant.                                                    *)
THEOREM PmapInvariant ==
  ASSUME MaxMaps < RefMod PROVE Spec => []PmapInv
<1>1. PmapInv /\ [Next]_vars => PmapInv'
  <2> SUFFICES ASSUME PmapInv, [Next]_vars PROVE PmapInv'
    OBVIOUS
  <2>1. CASE UNCHANGED vars
    BY <2>1 DEF vars, PmapInv, TypeOK, TlbCoherent, AddressSpace, FreeingInv
  <2>2. QED
    BY <2>1, PageAllocInv, PageFreeInv, PageInsertInv, PageRemoveInv,
       RegionAllocInv, EnvSetupVmInv, SwitchInv, EnvFreePteInv,
       EnvFreeTableInv, EnvFreeDirInv, TlbFillInv, UserStoreInv DEF Next
<1>2. QED
  BY <1>1, PmapInit, PTL DEF Spec

(* Memory, the TLB and env_free's place keep their types, whatever the     *)
(* number of pages and the size of a table.                                *)
THEOREM PmapTypeCorrect ==
  ASSUME MaxMaps < RefMod PROVE Spec => []TypeOK
<1>1. PmapInv => TypeOK
  BY DEF PmapInv
<1>2. QED
  BY <1>1, PmapInvariant, PTL

(* pp_ref is the number of pointers to a page, as long as fewer than 65536 *)
(* of them are made.                                                       *)
THEOREM PmapRefCountExact ==
  ASSUME MaxMaps < RefMod PROVE Spec => []RefCountExact
<1>1. PmapInv => RefCountExact
  <2> SUFFICES ASSUME PmapInv, NEW p \in Page
               PROVE  mem.pp_ref[p] = Cardinality(Pointers(mem, dirs, p))
    BY DEF RefCountExact
  <2>1. Counted(mem, dirs, None, p) /\ None[p] = 0
    BY DEF PmapInv, MemOK, None
  <2>2. Cardinality(Pointers(mem, dirs, p)) \in Nat
    BY InvParts, PointersFinite
  <2>3. QED
    BY <2>1, <2>2 DEF Counted
<1>2. QED
  BY <1>1, PmapInvariant, PTL

(* A sequence without repetition has as many elements as places. *)
LEMMA DistinctLength ==
  ASSUME NEW S, NEW s \in Seq(S),
         \A k, l \in 1 .. Len(s) : s[k] = s[l] => k = l
  PROVE  Cardinality({s[k] : k \in 1 .. Len(s)}) = Len(s)
<1> DEFINE T == {s[k] : k \in 1 .. Len(s)}
           f == [k \in 1 .. Len(s) |-> s[k]]
<1>1. f \in Bijection(1 .. Len(s), T)
  BY DEF Bijection, Injection, Surjection, IsInjective
<1>2. ExistsBijection(1 .. Len(s), T)
  BY <1>1 DEF ExistsBijection
<1>3. Len(s) \in Nat
  OBVIOUS
<1>4. QED
  BY <1>2, <1>3, FS_CountingElements

(* No page is leaked, freed twice or used while it is free, but for those  *)
(* region_alloc drops.                                                     *)
THEOREM PmapFramesAccounted ==
  ASSUME MaxMaps < RefMod PROVE Spec => []FramesAccounted
<1>1. PmapInv => FramesAccounted
  <2> SUFFICES ASSUME PmapInv PROVE FramesAccounted
    OBVIOUS
  <2> DEFINE used == {p \in Page : Pointers(mem, dirs, p) # {}}
             free == OnFreeList(mem)
  <2>1. mem.page_free_list \in Seq(Page) /\ Distinct(mem)
    BY InvParts, MemoryParts DEF PmapInv, MemOK
  <2>2. Cardinality(free) = Len(mem.page_free_list)
    BY <2>1, DistinctLength DEF OnFreeList, Distinct
  <2>3. free \subseteq Page /\ held \subseteq Page /\ lost \subseteq Page
    BY <2>1, InvParts DEF OnFreeList
  <2>4. \A p \in Page : PlaceOf(mem, dirs, held \cup lost, None, p) /\ None[p] = 0
    BY DEF PmapInv, MemOK, None
  <2>5. free \cup held \cup lost \cup used = Page
    BY <2>3, <2>4 DEF PlaceOf
  <2>6. free \cap (held \cup lost \cup used) = {}
    BY <2>3, <2>4 DEF PlaceOf
  <2>7. held \cap (lost \cup used) = {} /\ lost \cap used = {}
    BY <2>3, <2>4 DEF PlaceOf, PmapInv
  <2>8. QED
    BY <2>2, <2>5, <2>6, <2>7 DEF FramesAccounted
<1>2. QED
  BY <1>1, PmapInvariant, PTL

(* No directory or page table is shared between environments or mapped. *)
THEOREM PmapTablesPrivate ==
  ASSUME MaxMaps < RefMod PROVE Spec => []TablesPrivate
<1>1. PmapInv => TablesPrivate
  BY DEF PmapInv, MemOK, Private, TablesPrivate
<1>2. QED
  BY <1>1, PmapInvariant, PTL

(* The TLB never holds a translation that the page tables do not. *)
THEOREM PmapTlbCoherent ==
  ASSUME MaxMaps < RefMod PROVE Spec => []TlbCoherent
<1>1. PmapInv => TlbCoherent
  BY DEF PmapInv
<1>2. QED
  BY <1>1, PmapInvariant, PTL

(* page_free's checks are never run into. *)
THEOREM PmapPageFreeNeverPanics ==
  ASSUME MaxMaps < RefMod PROVE Spec => []PageFreeNeverPanics
<1>1. PmapInv => PageFreeNeverPanics
  BY InvParts DEF PageFreeNeverPanics
<1>2. QED
  BY <1>1, PmapInvariant, PTL

------------------------------------------------------------------------------
(* A step that changes the mapping at <<d, i, j>> at most. *)
LEMMA OneChange ==
  ASSUME NEW d, NEW i, NEW j,
         \A a \in dirs \cap dirs', b \in Pdx, c \in Ptx :
           a # d \/ b # i \/ c # j =>
             page_lookup(mem', a, b, c) = page_lookup(mem, a, b, c),
         \A a \in dirs \ dirs', b \in Pdx, c \in Ptx :
           page_lookup(mem, a, b, c) = NULL,
         \A a \in dirs' \ dirs, b \in Pdx, c \in Ptx :
           page_lookup(mem', a, b, c) = NULL
  PROVE  Cardinality(MappingsChanged) <= 1
<1>1. ASSUME NEW x \in MappingsChanged PROVE x = <<d, i, j>>
  <2>1. x \in Mappings(mem, dirs) \/ x \in Mappings(mem', dirs')
    BY DEF MappingsChanged
  <2>2. PICK a \in dirs \cup dirs', b \in Pdx, c \in Ptx : x = <<a, b, c>>
    BY <2>1 DEF Mappings
  <2>3. a \in dirs /\ a \in dirs'
    <3>1. CASE a \in dirs \ dirs'
      BY <2>1, <2>2, <3>1 DEF Mappings
    <3>2. CASE a \in dirs' \ dirs
      BY <2>1, <2>2, <3>2 DEF Mappings
    <3>3. QED
      BY <3>1, <3>2
  <2>4. page_lookup(mem', a, b, c) # page_lookup(mem, a, b, c)
    BY <2>1, <2>2, <2>3 DEF Mappings, MappingsChanged
  <2>5. QED
    BY <2>2, <2>3, <2>4
<1>2. MappingsChanged \in SUBSET {<<d, i, j>>}
  BY <1>1
<1>3. IsFiniteSet({<<d, i, j>>}) /\ Cardinality({<<d, i, j>>}) = 1
  BY FS_Singleton
<1>4. QED
  BY <1>2, <1>3, FS_Subset

(* Every step changes one user mapping at most. *)
THEOREM PmapOneMapping ==
  ASSUME MaxMaps < RefMod PROVE Spec => OneMappingAtATime
<1>1. PmapInv /\ [Next]_vars => [Cardinality(MappingsChanged) <= 1]_vars
  <2> SUFFICES ASSUME PmapInv, [Next]_vars
               PROVE  Cardinality(MappingsChanged) <= 1
    OBVIOUS
  <2>0. MemOK(mem, dirs, held \cup lost, None)
    BY DEF PmapInv
  <2>1. ASSUME SameLookups(mem, mem', dirs), dirs' = dirs
        PROVE  Cardinality(MappingsChanged) <= 1
    BY <2>1, OneChange DEF SameLookups
  <2>2. ASSUME mem' = mem, dirs' = dirs
        PROVE  Cardinality(MappingsChanged) <= 1
    BY <2>1, <2>2 DEF SameLookups
  <2>3. CASE PageAlloc
    BY <2>0, <2>1, <2>3, TakePage DEF PageAlloc
  <2>4. ASSUME NEW p \in held, PageFree(p)
        PROVE  Cardinality(MappingsChanged) <= 1
    BY <2>0, <2>1, <2>4, GiveBack DEF PageFree
  <2>5. ASSUME NEW d \in dirs, NEW p \in Page, NEW i \in Pdx, NEW j \in Ptx,
               NEW perm \in Perm, PageInsert(d, p, i, j, perm)
        PROVE  Cardinality(MappingsChanged) <= 1
    <3>1. /\ p \in held \cup Mapped /\ dirs' = dirs
          /\ Cardinality(Pointers(mem, dirs, p)) < MaxMaps
          /\ mem' = page_insert(mem, d, p, i, j, perm)
      BY <2>5 DEF PageInsert
    <3>2. p \notin OnFreeList(mem) /\ NotTable(mem, dirs, p)
      BY <3>1, Mappable
    <3>3. RoomFor(mem, dirs, p)
      <4>1. Cardinality(Pointers(mem, dirs, p)) \in Nat
        BY InvParts, PointersFinite
      <4>2. QED
        BY <3>1, <4>1, SizeAssumption, MaxMapsAssumption DEF RoomFor
    <3>4. CASE CanWalk(mem, d, i)
      <4>1. /\ MemOK(mem', dirs, (held \cup lost) \ {p}, None)
            /\ \A a \in dirs, b \in Pdx, c \in Ptx :
                 a # d \/ b # i \/ c # j =>
                   page_lookup(mem', a, b, c) = page_lookup(mem, a, b, c)
        BY <2>0, <2>5, <3>1, <3>2, <3>3, <3>4, InsertOK
      <4>2. QED
        BY <3>1, <4>1, OneChange
    <3>5. CASE ~CanWalk(mem, d, i)
      BY <2>2, <3>1, <3>5 DEF page_insert
    <3>6. QED
      BY <3>4, <3>5
  <2>6. ASSUME NEW d \in dirs, NEW i \in Pdx, NEW j \in Ptx,
               mem' = page_remove(mem, d, i, j), dirs' = dirs
        PROVE  Cardinality(MappingsChanged) <= 1
    <3>1. \A a \in dirs, b \in Pdx, c \in Ptx :
            a # d \/ b # i \/ c # j =>
              page_lookup(mem', a, b, c) = page_lookup(mem, a, b, c)
      BY <2>0, <2>6, RemoveOK
    <3>2. QED
      BY <2>6, <3>1, OneChange
  <2>7. ASSUME NEW d \in dirs, NEW i \in Pdx, NEW j \in Ptx, PageRemove(d, i, j)
        PROVE  Cardinality(MappingsChanged) <= 1
    BY <2>6, <2>7 DEF PageRemove
  <2>8. ASSUME NEW d \in dirs, NEW i \in 0 .. U, NEW j \in 0 .. N,
               EnvFreePte(d, i, j)
        PROVE  Cardinality(MappingsChanged) <= 1
    <3>1. i \in Pdx /\ j \in Ptx
      BY <2>8, SizeAssumption DEF EnvFreePte, Pdx, Ptx
    <3>2. QED
      BY <2>6, <2>8, <3>1 DEF EnvFreePte
  <2>9. ASSUME NEW d \in dirs, NEW i \in Pdx, NEW j \in Ptx, RegionAlloc(d, i, j)
        PROVE  Cardinality(MappingsChanged) <= 1
    <3> DEFINE p == Allocated(mem)
               m == page_alloc(mem, FALSE)
    <3>1. dirs' = dirs
      BY <2>9 DEF RegionAlloc
    <3>2. CASE ~CanAlloc(mem)
      <4>1. mem' = [mem EXCEPT !.panic = "region_alloc"]
        BY <2>9, <3>2 DEF RegionAlloc
      <4>2. mem'.frame = mem.frame
        BY <4>1, InvParts DEF Memory
      <4>3. SameLookups(mem, mem', dirs)
        BY <4>2 DEF SameLookups, page_lookup, HasTable, Table
      <4>4. QED
        BY <2>1, <3>1, <4>3
    <3>3. CASE CanAlloc(mem)
      <4>1. mem' = page_insert(m, d, p, i, j, "UW")
        BY <2>9, <3>3 DEF RegionAlloc
      <4>2. /\ MemOK(m, dirs, (held \cup lost) \cup {p}, None)
            /\ p \in Page /\ Pointers(m, dirs, p) = {}
            /\ SameLookups(mem, m, dirs)
            /\ OnFreeList(m) = OnFreeList(mem) \ {p}
        BY <2>0, <3>3, TakePage
      <4> HIDE DEF m, p
      <4>3. CASE CanWalk(m, d, i)
        <5>1. p \notin OnFreeList(m) /\ NotTable(m, dirs, p) /\ "UW" \in Perm
          BY <4>2, UnusedPage DEF NotTable, Perm
        <5>2. RoomFor(m, dirs, p)
          <6>1. Cardinality({}) = 0
            BY FS_EmptySet
          <6>2. QED
            BY <4>2, <6>1, SizeAssumption DEF RoomFor
        <5>3. /\ MemOK(mem', dirs, ((held \cup lost) \cup {p}) \ {p}, None)
              /\ \A a \in dirs, b \in Pdx, c \in Ptx :
                   a # d \/ b # i \/ c # j =>
                     page_lookup(mem', a, b, c) = page_lookup(m, a, b, c)
          BY <2>9, <4>1, <4>2, <4>3, <5>1, <5>2, InsertOK
        <5>4. \A a \in dirs, b \in Pdx, c \in Ptx :
                a # d \/ b # i \/ c # j =>
                  page_lookup(mem', a, b, c) = page_lookup(mem, a, b, c)
          BY <4>2, <5>3 DEF SameLookups
        <5>5. QED
          BY <3>1, <5>4, OneChange
      <4>4. CASE ~CanWalk(m, d, i)
        <5>1. mem' = m
          BY <4>1, <4>4 DEF page_insert
        <5>2. QED
          BY <2>1, <3>1, <4>2, <5>1
      <4>5. QED
        BY <4>3, <4>4
    <3>4. QED
      BY <3>2, <3>3
  <2>10. CASE EnvSetupVm
    <3>1. /\ mem' = env_setup_vm(mem) /\ CanAlloc(mem)
          /\ dirs' = dirs \cup {Allocated(mem)}
      BY <2>10 DEF EnvSetupVm
    <3>2. /\ Allocated(mem) \notin dirs /\ SameLookups(mem, mem', dirs)
          /\ \A b \in Pdx : ~HasTable(mem', Allocated(mem), b)
      BY <2>0, <3>1, SetupOK
    <3>3. \A b \in Pdx, c \in Ptx :
            page_lookup(mem', Allocated(mem), b, c) = NULL
      BY <3>2 DEF page_lookup
    <3>4. QED
      BY <3>1, <3>2, <3>3, OneChange DEF SameLookups
  <2>11. ASSUME NEW d \in dirs, NEW i \in 0 .. U, NEW j \in 0 .. N,
                EnvFreeTable(d, i, j)
         PROVE  Cardinality(MappingsChanged) <= 1
    <3>1. freeing = <<d, i, j>> /\ i < U /\ dirs' = dirs
      BY <2>11 DEF EnvFreeTable
    <3>2. i \in Pdx /\ freeing # NULL
      BY <3>1, InvParts, SizeAssumption, FreeingAssumption DEF Pdx
    <3>3. CASE ~HasTable(mem, d, i)
      BY <2>2, <2>11, <3>1, <3>3 DEF EnvFreeTable
    <3>4. CASE HasTable(mem, d, i)
      <4>1. j = N /\ mem' = FreeTable(mem, d, i)
        BY <2>11, <3>4 DEF EnvFreeTable
      <4>2. \A c \in Ptx : c < N
        BY SizeAssumption DEF Ptx
      <4>3. \A c \in Ptx : page_lookup(mem, d, i, c) = NULL
        BY <3>1, <3>2, <4>1, <4>2 DEF PmapInv, FreeingInv
      <4>4. SameLookups(mem, mem', dirs)
        BY <2>0, <3>2, <3>4, <4>1, <4>3, FreeTableOK
      <4>5. QED
        BY <2>1, <3>1, <4>4
    <3>5. QED
      BY <3>3, <3>4
  <2>12. ASSUME NEW d \in dirs, EnvFreeDir(d)
         PROVE  Cardinality(MappingsChanged) <= 1
    <3>1. freeing = <<d, U, 0>> /\ dirs' = dirs \ {d} /\ mem' = page_decref(mem, d)
      BY <2>12 DEF EnvFreeDir
    <3>2. freeing # NULL /\ \A b \in Pdx : b < U
      BY <3>1, InvParts, SizeAssumption, FreeingAssumption DEF Pdx
    <3>3. \A b \in Pdx : ~HasTable(mem, d, b)
      BY <3>1, <3>2 DEF PmapInv, FreeingInv
    <3>4. SameLookups(mem, mem', dirs \ {d})
      BY <2>0, <3>1, <3>3, FreeDirOK
    <3>5. \A b \in Pdx, c \in Ptx : page_lookup(mem, d, b, c) = NULL
      BY <3>3 DEF page_lookup
    <3>6. QED
      BY <3>1, <3>4, <3>5, OneChange DEF SameLookups
  <2>13. ASSUME NEW x \in tlb, UserStore(x)
         PROVE  Cardinality(MappingsChanged) <= 1
    <3> DEFINE p == x[3].pp
    <3>1. /\ dirs' = dirs
          /\ mem' = [mem EXCEPT !.frame[p] =
                       [j \in Ptx |-> [pp |-> p, perm |-> "UW"]]]
      BY <2>13 DEF UserStore
    <3>2. /\ cr3 \in dirs /\ x[1] \in Pdx /\ x[2] \in Ptx /\ x[3] # NULL
          /\ page_lookup(mem, cr3, x[1], x[2]) = x[3] /\ p \in Page
      BY InvParts, EntryPresent DEF PmapInv, TlbCoherent, Entry
    <3>3. NotTable(mem, dirs, p)
      BY <3>2, InvParts, PrivateFacts DEF NotTable
    <3>4. \A q \in Page : q # p => mem'.frame[q] = mem.frame[q]
      BY <3>1, InvParts, MemoryParts DEF Memory
    <3>5. SameLookups(mem, mem', dirs)
      BY <3>3, <3>4, InvParts, EditElsewhere DEF NotTable
    <3>6. QED
      BY <2>1, <3>1, <3>5
  <2>14. ASSUME NEW d \in dirs, EnvRun(d) \/ LoadIcodeEnter(d) \/ EnvFreeStart(d)
         PROVE  Cardinality(MappingsChanged) <= 1
    BY <2>2, <2>14 DEF EnvRun, LoadIcodeEnter, EnvFreeStart
  <2>15. ASSUME NEW i \in Pdx, NEW j \in Ptx, TlbFill(i, j)
         PROVE  Cardinality(MappingsChanged) <= 1
    BY <2>2, <2>15 DEF TlbFill
  <2>16. ASSUME ToKernPgdir \/ UNCHANGED vars
         PROVE  Cardinality(MappingsChanged) <= 1
    BY <2>2, <2>16 DEF ToKernPgdir, vars
  <2>17. QED
    BY <2>3, <2>4, <2>5, <2>7, <2>8, <2>9, <2>10, <2>11, <2>12, <2>13, <2>14,
       <2>15, <2>16 DEF Next
<1>2. QED
  BY <1>1, PmapInvariant, PTL DEF Spec, OneMappingAtATime
=============================================================================

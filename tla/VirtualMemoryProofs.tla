-------------------------- MODULE VirtualMemoryProofs --------------------------
(***************************************************************************)
(* The page tables, the heap and the frames under them, for every number   *)
(* of entries, frame size, memory map and set of requests.                 *)
(*                                                                         *)
(* A page is the four indexes of its walk (Indexes), and two pages with    *)
(* the same ones are the same page (PagesApart).  The tables are a tree:   *)
(* there is a level for every table, and each but the root hangs on one    *)
(* entry of the level above (Tree); an entry has no right that the entry   *)
(* above it lacks (Rights).  So walks that end in one entry are one walk,  *)
(* and changing a leaf changes one page (LeafSet).  Own says who has each  *)
(* frame that is handed out: a caller, the tables, or one page of the      *)
(* heap.                                                                   *)
(*                                                                         *)
(* Every call is followed through the memory it works on: one level of a   *)
(* walk (GetOrCreate), a walk (WalkCreates), map (Map), unmap (Unmap), and *)
(* the three loops, each from the first turn at which it could go wrong    *)
(* (IdentityMaps, Rollback, HeapMaps).  VInv is what holds between calls.  *)
(***************************************************************************)
EXTENDS VirtualMemory, FrameAllocatorProofs

-----------------------------------------------------------------------------
(* Walks.  A page is known by the four indexes of its walk.                 *)

(* Division with remainder, and that there is only one way to do it.        *)
LEMMA DivMod ==
    ASSUME NEW a \in Nat, NEW b \in Nat \ {0}
    PROVE  a \div b \in Nat /\ a % b \in 0 .. b - 1 /\ a = (a \div b) * b + (a % b)
  OBVIOUS

LEMMA DivModUnique ==
    ASSUME NEW b \in Nat \ {0}, NEW q \in Nat, NEW r \in 0 .. b - 1
    PROVE  (q * b + r) \div b = q /\ (q * b + r) % b = r
<1> DEFINE a == q * b + r
           p == a \div b
           s == a % b
<1>1. a \in Nat
  OBVIOUS
<1>2. p \in Nat /\ s \in 0 .. b - 1 /\ q * b + r = p * b + s
  BY <1>1, DivMod
<1> HIDE DEF p, s
<1>3. ~(p < q)
  <2> SUFFICES ASSUME p + 1 <= q PROVE FALSE
    BY <1>2
  <2>1. (p + 1) * b <= q * b /\ (p + 1) * b = p * b + b
    BY <1>2
  <2> QED
    BY <1>2, <2>1
<1>4. ~(q < p)
  <2> SUFFICES ASSUME q + 1 <= p PROVE FALSE
    BY <1>2
  <2>1. (q + 1) * b <= p * b /\ (q + 1) * b = q * b + b
    BY <1>2
  <2> QED
    BY <1>2, <2>1
<1>5. p = q
  BY <1>2, <1>3, <1>4
<1>6. s = r
  BY <1>2, <1>5
<1> QED
  BY <1>5, <1>6 DEF p, s

(* Dividing twice.                                                          *)
LEMMA DivDiv ==
    ASSUME NEW a \in Nat, NEW b \in Nat \ {0}, NEW c \in Nat \ {0}
    PROVE  a \div (b * c) = (a \div b) \div c
<1> DEFINE x == a \div b
           r == a % b
           q == x \div c
           s == x % c
<1>1. x \in Nat /\ r \in 0 .. b - 1 /\ a = x * b + r
  BY DivMod
<1> HIDE DEF x, r
<1>2. q \in Nat /\ s \in 0 .. c - 1 /\ x = q * c + s
  BY <1>1, DivMod
<1> HIDE DEF q, s
<1>3. b * c \in Nat \ {0} /\ s * b \in Nat /\ s * b + r \in Nat
  BY <1>1, <1>2
<1>4. (s + 1) * b <= c * b /\ (s + 1) * b = s * b + b
  BY <1>2
<1>5. s * b + r \in 0 .. b * c - 1
  <2>1. c * b = b * c
    OBVIOUS
  <2> QED
    BY <1>1, <1>2, <1>3, <1>4, <2>1
<1>6. a = q * (b * c) + (s * b + r)
  BY <1>1, <1>2
<1>7. a \div (b * c) = q
  <2> DEFINE B == b * c
             R == s * b + r
  <2>1. B \in Nat \ {0} /\ R \in 0 .. B - 1 /\ a = q * B + R
    BY <1>3, <1>5, <1>6
  <2> HIDE DEF B, R
  <2>2. (q * B + R) \div B = q
    BY <1>2, <2>1, DivModUnique
  <2> QED
    BY <2>1, <2>2 DEF B
<1> QED
  BY <1>7 DEF q, x

Index == 0 .. ENTRIES - 1

Indexes == Index \X Index \X Index \X Index

(* Every address has four indexes in range; and two pages with the same     *)
(* ones are the same in the 2^48 bytes a walk tells apart.                  *)
LEMMA IndexDigits ==
    ASSUME NEW va \in Nat
    PROVE  LET page == (va % SPAN) \div PAGE_SIZE
               ix == indexes(va) IN
             /\ page \in Nat
             /\ ix \in Indexes
             /\ page = ((ix[1] * ENTRIES + ix[2]) * ENTRIES + ix[3]) * ENTRIES + ix[4]
<1> DEFINE E == ENTRIES
           page == (va % SPAN) \div PAGE_SIZE
           q1 == page \div E
           q2 == q1 \div E
           q3 == q2 \div E
<1>1. E \in Nat \ {0} /\ PAGE_SIZE \in Nat \ {0}
  BY VirtualAssumption, FrameAssumption DEF PAGE_SIZE
<1>2. E * E \in Nat \ {0} /\ E * E * E \in Nat \ {0} /\ E * E * E * E \in Nat \ {0}
  BY <1>1
<1>3. SPAN = E * E * E * E * PAGE_SIZE /\ SPAN \in Nat \ {0}
  BY <1>1, <1>2 DEF SPAN
<1>4. page \in Nat /\ va % SPAN \in 0 .. SPAN - 1
      /\ va % SPAN = page * PAGE_SIZE + ((va % SPAN) % PAGE_SIZE)
      /\ (va % SPAN) % PAGE_SIZE \in 0 .. PAGE_SIZE - 1
  <2> DEFINE z == va % SPAN
  <2>1. z \in 0 .. SPAN - 1
    BY <1>3, DivMod
  <2> HIDE DEF z
  <2>2. z \in Nat
    BY <1>3, <2>1
  <2>3. z \div PAGE_SIZE \in Nat /\ z % PAGE_SIZE \in 0 .. PAGE_SIZE - 1
        /\ z = (z \div PAGE_SIZE) * PAGE_SIZE + (z % PAGE_SIZE)
    BY <1>1, <2>2, DivMod
  <2> QED
    BY <2>1, <2>3 DEF z
<1>5. indexes(va) = <<page \div (E * E * E), (page \div (E * E)) % E, (page \div E) % E, page % E>>
  BY DEF indexes
<1>6. page < E * E * E * E
  <2> DEFINE F == E * E * E * E
  <2>1. F \in Nat /\ page * PAGE_SIZE < F * PAGE_SIZE
    BY <1>1, <1>2, <1>3, <1>4
  <2> HIDE DEF F
  <2>2. F <= page => F * PAGE_SIZE <= page * PAGE_SIZE
    BY <1>1, <1>4, <2>1
  <2>3. F * PAGE_SIZE \in Nat /\ page * PAGE_SIZE \in Nat
    BY <1>1, <1>4, <2>1, SMTT(30)
  <2> QED
    BY <1>4, <2>1, <2>2, <2>3 DEF F
<1> HIDE DEF page
<1>7. q1 \in Nat /\ page % E \in 0 .. E - 1 /\ page = q1 * E + (page % E)
  BY <1>1, <1>4, DivMod
<1>8. page \div (E * E) = q2
  BY <1>1, <1>4, DivDiv
<1>9. page \div (E * E * E) = q3
  <2> DEFINE EE == E * E
  <2>1. EE \in Nat \ {0}
    BY <1>2
  <2> HIDE DEF EE
  <2>2. page \div (EE * E) = (page \div EE) \div E
    BY <1>1, <1>4, <2>1, DivDiv
  <2> QED
    BY <1>8, <2>2 DEF EE
<1> HIDE DEF q1
<1>10. q2 \in Nat /\ q1 % E \in 0 .. E - 1 /\ q1 = q2 * E + (q1 % E)
  BY <1>1, <1>7, DivMod
<1> HIDE DEF q2
<1>11. q3 \in Nat /\ q2 % E \in 0 .. E - 1 /\ q2 = q3 * E + (q2 % E)
  BY <1>1, <1>10, DivMod
<1> HIDE DEF q3
<1>12. q3 < E
  <2> SUFFICES ASSUME E <= q3 PROVE FALSE
    BY <1>1, <1>11
  <2>1. E * E <= q2
    <3>1. E * E <= q3 * E
      BY <1>1, <1>11
    <3> QED
      BY <1>1, <1>11, <3>1
  <2>2. E * E * E <= q1
    <3>1. E * E * E <= q2 * E
      BY <1>1, <1>2, <1>10, <2>1
    <3> QED
      BY <1>1, <1>2, <1>10, <3>1
  <2>3. E * E * E * E <= page
    <3>1. E * E * E * E <= q1 * E
      BY <1>1, <1>2, <1>7, <2>2
    <3> QED
      BY <1>1, <1>2, <1>7, <3>1
  <2> QED
    BY <1>2, <1>4, <1>6, <2>3
<1>13. indexes(va) = <<q3, q2 % E, q1 % E, page % E>>
  BY <1>5, <1>8, <1>9 DEF q1
<1>14. indexes(va) \in Indexes
  <2> DEFINE d2 == q2 % E
             d3 == q1 % E
             d4 == page % E
  <2>1. q3 \in Index /\ d2 \in Index /\ d3 \in Index /\ d4 \in Index
        /\ indexes(va) = <<q3, d2, d3, d4>>
    BY <1>1, <1>7, <1>10, <1>11, <1>12, <1>13 DEF Index
  <2> HIDE DEF d2, d3, d4
  <2> QED
    BY <2>1 DEF Indexes
<1>15. page = ((q3 * E + (q2 % E)) * E + (q1 % E)) * E + (page % E)
  BY <1>7, <1>10, <1>11
<1> QED
  BY <1>4, <1>13, <1>14, <1>15 DEF page

(* An aligned address is aligned in the part that a walk tells apart.       *)
LEMMA AlignedInSpan ==
    ASSUME NEW va \in Nat, va % PAGE_SIZE = 0
    PROVE  va % SPAN = ((va % SPAN) \div PAGE_SIZE) * PAGE_SIZE
<1> DEFINE F == ENTRIES * ENTRIES * ENTRIES * ENTRIES
           k == va \div SPAN
           z == va % SPAN
           q == z \div PAGE_SIZE
           r == z % PAGE_SIZE
<1>1. PAGE_SIZE \in Nat \ {0} /\ F \in Nat \ {0} /\ SPAN = F * PAGE_SIZE
  BY VirtualAssumption, FrameAssumption DEF PAGE_SIZE, SPAN
<1> HIDE DEF F
<1>2. SPAN \in Nat \ {0}
  BY <1>1
<1>3. k \in Nat /\ z \in Nat /\ va = k * SPAN + z
  BY <1>2, DivMod
<1> HIDE DEF k, z
<1>4. q \in Nat /\ r \in 0 .. PAGE_SIZE - 1 /\ z = q * PAGE_SIZE + r
  BY <1>1, <1>3, DivMod
<1> HIDE DEF q, r
<1> DEFINE n == k * F + q
<1>5. n \in Nat /\ va = n * PAGE_SIZE + r
  BY <1>1, <1>3, <1>4
<1> HIDE DEF n
<1>6. r = 0
  BY <1>1, <1>4, <1>5, DivModUnique
<1> QED
  BY <1>1, <1>4, <1>6 DEF q, z

(* Lower half addresses are themselves, upper half ones the upper half of   *)
(* the span.                                                                *)
LEMMA CanonicalInSpan ==
    ASSUME NEW va \in 0 .. VIRTUAL_LIMIT - 1, is_canonical(va)
    PROVE  \/ va < SPAN \div 2 /\ va % SPAN = va
           \/ /\ va % SPAN = va - (VIRTUAL_LIMIT - SPAN)
              /\ va % SPAN >= SPAN \div 2
<1> DEFINE k == VIRTUAL_LIMIT \div SPAN
           h == SPAN \div 2
<1>1. SPAN \in Nat \ {0} /\ VIRTUAL_LIMIT \in Nat /\ VIRTUAL_LIMIT % SPAN = 0
  BY VirtualAssumption, FrameAssumption DEF PAGE_SIZE, SPAN
<1>2. k \in Nat /\ VIRTUAL_LIMIT = k * SPAN
  <2>1. k \in Nat /\ VIRTUAL_LIMIT = k * SPAN + (VIRTUAL_LIMIT % SPAN)
    BY <1>1, DivMod
  <2> HIDE DEF k
  <2> QED
    BY <1>1, <2>1
<1>3. h \in Nat /\ h + h <= SPAN /\ h < SPAN
  BY <1>1
<1>4. va \in Nat /\ (va < h \/ va >= VIRTUAL_LIMIT - h) /\ va < VIRTUAL_LIMIT
  BY <1>1 DEF is_canonical
<1> HIDE DEF k, h
<1>5. CASE va < h
  <2>1. va \in 0 .. SPAN - 1 /\ va = 0 * SPAN + va
    BY <1>1, <1>3, <1>4, <1>5
  <2>2. va % SPAN = va
    BY <1>1, <2>1, DivModUnique
  <2> QED
    BY <1>5, <2>2 DEF h
<1>6. CASE va >= VIRTUAL_LIMIT - h
  <2>1. k >= 1
    BY <1>1, <1>2, <1>4
  <2> DEFINE j == k - 1
             r == va - (VIRTUAL_LIMIT - SPAN)
  <2>2. j \in Nat /\ VIRTUAL_LIMIT = j * SPAN + SPAN
    BY <1>1, <1>2, <2>1
  <2>3. r \in 0 .. SPAN - 1 /\ r >= h /\ va = j * SPAN + r
    BY <1>1, <1>3, <1>4, <1>6, <2>2
  <2> HIDE DEF j, r
  <2>4. va % SPAN = r
    BY <1>1, <2>2, <2>3, DivModUnique
  <2> QED
    BY <2>3, <2>4 DEF r, h
<1> QED
  BY <1>4, <1>5, <1>6

(* Different pages have different indexes.                                  *)
LEMMA PagesApart ==
    ASSUME NEW va \in 0 .. VIRTUAL_LIMIT - 1, is_canonical(va), va % PAGE_SIZE = 0,
           NEW vb \in 0 .. VIRTUAL_LIMIT - 1, is_canonical(vb), vb % PAGE_SIZE = 0,
           indexes(va) = indexes(vb)
    PROVE  va = vb
<1>1. va \in Nat /\ vb \in Nat /\ VIRTUAL_LIMIT \in Nat /\ SPAN \in Nat
  BY VirtualAssumption, FrameAssumption DEF SPAN, PAGE_SIZE
<1>2. (va % SPAN) \div PAGE_SIZE = (vb % SPAN) \div PAGE_SIZE
  BY <1>1, IndexDigits
<1>3. va % SPAN = vb % SPAN
  BY <1>1, <1>2, AlignedInSpan
<1> DEFINE x == va % SPAN
           h == SPAN \div 2
<1>4. h \in Nat
  BY <1>1
<1>5. \/ va < h /\ x = va
      \/ x = va - (VIRTUAL_LIMIT - SPAN) /\ x >= h
  BY CanonicalInSpan
<1>6. \/ vb < h /\ x = vb
      \/ x = vb - (VIRTUAL_LIMIT - SPAN) /\ x >= h
  BY <1>3, CanonicalInSpan
<1> HIDE DEF x, h
<1> QED
  BY <1>1, <1>4, <1>5, <1>6

-----------------------------------------------------------------------------
(* Page tables.                                                             *)

Entry == [present : BOOLEAN, address : Nat, writable : BOOLEAN, user : BOOLEAN]

IsTables(T) ==
    /\ DOMAIN T \subseteq Nat
    /\ T \in [DOMAIN T -> [Index -> Entry]]

(* T2 is T with one entry set; and with one more table.                     *)
Sets(T, T2, t, i, e) ==
    /\ IsTables(T2) /\ DOMAIN T2 = DOMAIN T
    /\ T2[t][i] = e
    /\ \A s \in DOMAIN T, j \in Index : s # t \/ j # i => T2[s][j] = T[s][j]

Links(T, T2, t, i, n, e) ==
    /\ IsTables(T2) /\ n \notin DOMAIN T /\ DOMAIN T2 = DOMAIN T \cup {n}
    /\ T2[n] = zeroed /\ T2[t][i] = e
    /\ \A s \in DOMAIN T, j \in Index : s # t \/ j # i => T2[s][j] = T[s][j]

(* The tables and their levels: each but the root hangs on one entry of the *)
(* level above.                                                             *)
Above(T, lev, s, j, t) ==
    s \in DOMAIN T /\ j \in Index /\ lev[s] < 4 /\ T[s][j].present /\ T[s][j].address = t

Tree(T, root, lev) ==
    /\ IsTables(T) /\ lev \in [DOMAIN T -> 1 .. 4] /\ root \in DOMAIN T
    /\ \A t \in DOMAIN T : lev[t] = 1 <=> t = root
    /\ \A t, s \in DOMAIN T, j \in Index : Above(T, lev, s, j, t) => lev[t] = lev[s] + 1
    /\ \A s \in DOMAIN T, j \in Index :
         lev[s] < 4 /\ T[s][j].present => T[s][j].address \in DOMAIN T
    /\ \A t \in DOMAIN T \ {root} : \E s \in DOMAIN T, j \in Index : Above(T, lev, s, j, t)
    /\ \A t, s, v \in DOMAIN T, i, j \in Index :
         Above(T, lev, s, i, t) /\ Above(T, lev, v, j, t) => s = v /\ i = j

(* The entry above table t lets through what an entry of t may have.        *)
Permits(T, lev, t, w, u) ==
    \A s \in DOMAIN T, j \in Index :
      Above(T, lev, s, j, t) => (w => T[s][j].writable) /\ (u => T[s][j].user)

Rights(T, lev) ==
    \A t \in DOMAIN T, i \in Index :
      T[t][i].present => Permits(T, lev, t, T[t][i].writable, T[t][i].user)

(* The tables of the walk of ix, and whether all are there.                 *)
Second(T, root, ix) == T[root][ix[1]].address
Third(T, root, ix) == T[Second(T, root, ix)][ix[2]].address
Fourth(T, root, ix) == T[Third(T, root, ix)][ix[3]].address

Arrives(T, root, ix) ==
    /\ T[root][ix[1]].present
    /\ T[Second(T, root, ix)][ix[2]].present
    /\ T[Third(T, root, ix)][ix[3]].present

(* The last entry of a walk, if it gets there and it is present.            *)
Leaf(T, root, ix) ==
    LET e == T[Fourth(T, root, ix)][ix[4]]
    IN  IF Arrives(T, root, ix) /\ e.present THEN e ELSE NotPresent

Keeps(T, T2) ==
    /\ DOMAIN T \subseteq DOMAIN T2
    /\ \A t \in DOMAIN T, j \in Index :
         T[t][j].present => T2[t][j].present /\ T2[t][j].address = T[t][j].address

SameLeaves(T, T2, root) == \A ix \in Indexes : Leaf(T2, root, ix) = Leaf(T, root, ix)

(* What put does to the tables.                                             *)
LEMMA EntrySet ==
    ASSUME NEW T, IsTables(T), NEW t \in DOMAIN T, NEW i \in Index, NEW e \in Entry
    PROVE  Sets(T, [T EXCEPT ![t][i] = e], t, i, e)
<1> DEFINE X == [T[t] EXCEPT ![i] = e]
           T2 == [T EXCEPT ![t][i] = e]
<1>1. T2 = [T EXCEPT ![t] = X]
  OBVIOUS
<1>2. T[t] \in [Index -> Entry]
  BY DEF IsTables
<1>3. X \in [Index -> Entry] /\ X[i] = e /\ \A j \in Index : j # i => X[j] = T[t][j]
  BY <1>2
<1> HIDE DEF X
<1>4. DOMAIN T2 = DOMAIN T /\ T2[t] = X /\ \A s \in DOMAIN T : s # t => T2[s] = T[s]
  BY <1>1 DEF IsTables
<1>5. T2 \in [DOMAIN T -> [Index -> Entry]]
  BY <1>1, <1>3 DEF IsTables
<1> HIDE DEF T2
<1>6. IsTables(T2)
  BY <1>4, <1>5 DEF IsTables
<1> QED
  BY <1>3, <1>4, <1>6 DEF Sets, T2

(* A new, empty table, and the entry that leads to it.                      *)
LEMMA TableLinked ==
    ASSUME NEW T, IsTables(T), NEW t \in DOMAIN T, NEW i \in Index, NEW e \in Entry,
           NEW n \in Nat, n \notin DOMAIN T
    PROVE  LET N == [s \in DOMAIN T \cup {n} |-> IF s = n THEN zeroed ELSE T[s]]
           IN  Links(T, [N EXCEPT ![t][i] = e], t, i, n, e)
<1> DEFINE N == [s \in DOMAIN T \cup {n} |-> IF s = n THEN zeroed ELSE T[s]]
           T2 == [N EXCEPT ![t][i] = e]
<1>1. zeroed \in [Index -> Entry]
  BY DEF zeroed, NotPresent, Index, Entry
<1>2. /\ DOMAIN N = DOMAIN T \cup {n} /\ N[n] = zeroed
      /\ \A s \in DOMAIN T : N[s] = T[s]
  OBVIOUS
<1>3. IsTables(N)
  BY <1>1 DEF IsTables
<1> HIDE DEF N
<1>4. Sets(N, T2, t, i, e)
  BY <1>2, <1>3, EntrySet
<1> HIDE DEF T2
<1>5. T2[n] = zeroed
  <2>1. T2[n] \in [Index -> Entry] /\ \A j \in Index : T2[n][j] = zeroed[j]
    BY <1>2, <1>4 DEF Sets, IsTables
  <2> QED
    BY <1>1, <2>1
<1>6. Links(T, T2, t, i, n, e)
  BY <1>2, <1>4, <1>5 DEF Sets, Links
<1> QED
  BY <1>6 DEF N, T2

(* Tables in which the same entries lead to the same tables are a tree if   *)
(* the others are.                                                          *)
LEMMA TreeKept ==
    ASSUME NEW T, NEW root, NEW lev, Tree(T, root, lev), NEW T2, IsTables(T2),
           DOMAIN T2 = DOMAIN T,
           \A s, j, t : Above(T2, lev, s, j, t) <=> Above(T, lev, s, j, t)
    PROVE  Tree(T2, root, lev)
<1>1. \A s \in DOMAIN T, j \in Index :
        lev[s] < 4 /\ T2[s][j].present => T2[s][j].address \in DOMAIN T
  <2> SUFFICES ASSUME NEW s \in DOMAIN T, NEW j \in Index, lev[s] < 4, T2[s][j].present
               PROVE  T2[s][j].address \in DOMAIN T
    OBVIOUS
  <2>1. Above(T2, lev, s, j, T2[s][j].address)
    BY DEF Above
  <2>2. Above(T, lev, s, j, T2[s][j].address)
    BY <2>1
  <2> QED
    BY <2>2 DEF Above, Tree
<1> QED
  BY <1>1 DEF Tree

(* An entry that is replaced by one which leads to the same table.          *)
LEMMA AboveSame ==
    ASSUME NEW T, NEW T2, NEW lev, NEW t \in DOMAIN T, NEW i \in Index, NEW e \in Entry,
           Sets(T, T2, t, i, e),
           \/ ~(lev[t] < 4)
           \/ e.present /\ T[t][i].present /\ e.address = T[t][i].address
    PROVE  \A s, j, v : Above(T2, lev, s, j, v) <=> Above(T, lev, s, j, v)
<1> SUFFICES ASSUME NEW s, NEW j, NEW v
             PROVE  Above(T2, lev, s, j, v) <=> Above(T, lev, s, j, v)
  OBVIOUS
<1>1. CASE s = t /\ j = i
  BY <1>1 DEF Above, Sets
<1>2. CASE ~(s = t /\ j = i)
  BY <1>2 DEF Above, Sets
<1> QED
  BY <1>1, <1>2

(* The rights still grow towards the root.                                  *)
LEMMA RightsSet ==
    ASSUME NEW T, NEW T2, NEW lev, NEW t \in DOMAIN T, NEW i \in Index, NEW e \in Entry,
           Sets(T, T2, t, i, e), Rights(T, lev),
           \A s, j, v : Above(T2, lev, s, j, v) <=> Above(T, lev, s, j, v),
           e.present => Permits(T, lev, t, e.writable, e.user),
           lev[t] < 4 => /\ T[t][i].writable => e.writable
                         /\ T[t][i].user => e.user
    PROVE  Rights(T2, lev)
<1> SUFFICES ASSUME NEW v \in DOMAIN T, NEW k \in Index, T2[v][k].present,
                    NEW s \in DOMAIN T, NEW j \in Index, Above(T2, lev, s, j, v)
             PROVE  /\ T2[v][k].writable => T2[s][j].writable
                    /\ T2[v][k].user => T2[s][j].user
  BY DEF Rights, Permits, Sets
<1>1. Above(T, lev, s, j, v) /\ lev[s] < 4
  BY DEF Above
<1>2. /\ T2[v][k].writable => T[s][j].writable
      /\ T2[v][k].user => T[s][j].user
  <2>1. CASE v = t /\ k = i
    BY <1>1, <2>1 DEF Sets, Permits
  <2>2. CASE ~(v = t /\ k = i)
    <3>1. T2[v][k] = T[v][k]
      BY <2>2 DEF Sets
    <3> QED
      BY <1>1, <3>1 DEF Rights, Permits
  <2> QED
    BY <2>1, <2>2
<1>3. /\ T[s][j].writable => T2[s][j].writable
      /\ T[s][j].user => T2[s][j].user
  <2>1. CASE s = t /\ j = i
    BY <1>1, <2>1 DEF Sets
  <2>2. CASE ~(s = t /\ j = i)
    BY <2>2 DEF Sets
  <2> QED
    BY <2>1, <2>2
<1> QED
  BY <1>2, <1>3

(* A new table is one level below the entry that leads to it.               *)
Below(T2, n, lev, l) == [s \in DOMAIN T2 |-> IF s = n THEN l + 1 ELSE lev[s]]

Linked(T, T2, lev, lev2, t, i, n, e) ==
    /\ t \in DOMAIN T /\ i \in Index /\ lev[t] < 4 /\ ~T[t][i].present
    /\ e \in Entry /\ e.present /\ e.address = n
    /\ Links(T, T2, t, i, n, e)
    /\ lev2 = Below(T2, n, lev, lev[t])

(* What leads where after a table is linked.                                *)
LEMMA AboveLinked ==
    ASSUME NEW T, NEW root, NEW lev, Tree(T, root, lev), NEW T2, NEW lev2,
           NEW t, NEW i, NEW n, NEW e, Linked(T, T2, lev, lev2, t, i, n, e)
    PROVE  \A s, j, v :
             Above(T2, lev2, s, j, v) <=> Above(T, lev, s, j, v) \/ (s = t /\ j = i /\ v = n)
<1> TAKE s, j, v
<1>1. /\ DOMAIN T2 = DOMAIN T \cup {n} /\ n \notin DOMAIN T
      /\ \A x \in DOMAIN T : lev2[x] = lev[x]
  BY DEF Linked, Links, Below
<1>2. CASE s = n
  <2>1. ~Above(T, lev, s, j, v) /\ s # t
    BY <1>1, <1>2 DEF Above, Linked
  <2>2. j \in Index => ~T2[n][j].present
    BY DEF Linked, Links, zeroed, Index, NotPresent
  <2> QED
    BY <1>2, <2>1, <2>2 DEF Above
<1>3. CASE s = t /\ j = i
  <2>1. T2[s][j] = e /\ lev2[s] < 4 /\ s \in DOMAIN T2
    BY <1>1, <1>3 DEF Linked, Links
  <2> QED
    BY <1>3, <2>1 DEF Above, Linked
<1>4. CASE s \in DOMAIN T /\ ~(s = t /\ j = i)
  <2>1. s \in DOMAIN T2 /\ lev2[s] = lev[s] /\ (j \in Index => T2[s][j] = T[s][j])
    BY <1>1, <1>4 DEF Linked, Links
  <2> QED
    BY <1>4, <2>1 DEF Above
<1> QED
  BY <1>1, <1>2, <1>3, <1>4 DEF Above

(* A tree with a new table linked to it is a tree.                          *)
LEMMA TreeLinked ==
    ASSUME NEW T, NEW root, NEW lev, Tree(T, root, lev), NEW T2, NEW lev2,
           NEW t, NEW i, NEW n, NEW e, Linked(T, T2, lev, lev2, t, i, n, e)
    PROVE  Tree(T2, root, lev2)
<1>1. /\ DOMAIN T2 = DOMAIN T \cup {n} /\ n \notin DOMAIN T /\ IsTables(T2)
      /\ \A x \in DOMAIN T : lev2[x] = lev[x] /\ lev[x] \in 1 .. 4
      /\ lev2[n] = lev[t] + 1 /\ lev2[n] \in 2 .. 4 /\ root \in DOMAIN T
      /\ t \in DOMAIN T /\ i \in Index
  BY DEF Linked, Links, Below, Tree
<1>2. \A s, j, v : Above(T2, lev2, s, j, v) <=> Above(T, lev, s, j, v) \/ (s = t /\ j = i /\ v = n)
  BY AboveLinked
<1>3. \A s, j, v : Above(T, lev, s, j, v) => v \in DOMAIN T /\ s \in DOMAIN T /\ j \in Index
  BY DEF Above, Tree
<1>4. lev2 \in [DOMAIN T2 -> 1 .. 4]
  <2>1. \A x \in DOMAIN T2 : lev2[x] \in 1 .. 4
    BY <1>1
  <2> QED
    BY <2>1 DEF Below, Linked
<1>5. \A x \in DOMAIN T2 : lev2[x] = 1 <=> x = root
  BY <1>1 DEF Tree
<1>6. \A x, s \in DOMAIN T2, j \in Index : Above(T2, lev2, s, j, x) => lev2[x] = lev2[s] + 1
  <2> SUFFICES ASSUME NEW x \in DOMAIN T2, NEW s \in DOMAIN T2, NEW j \in Index,
                      Above(T2, lev2, s, j, x)
               PROVE  lev2[x] = lev2[s] + 1
    OBVIOUS
  <2>1. CASE Above(T, lev, s, j, x)
    <3>1. x \in DOMAIN T /\ s \in DOMAIN T
      BY <1>3, <2>1
    <3>2. lev[x] = lev[s] + 1
      BY <2>1, <3>1 DEF Tree
    <3> QED
      BY <1>1, <3>1, <3>2
  <2>2. CASE s = t /\ j = i /\ x = n
    BY <1>1, <2>2
  <2> QED
    BY <1>2, <2>1, <2>2
<1>7. \A s \in DOMAIN T2, j \in Index :
        lev2[s] < 4 /\ T2[s][j].present => T2[s][j].address \in DOMAIN T2
  <2> SUFFICES ASSUME NEW s \in DOMAIN T2, NEW j \in Index, lev2[s] < 4, T2[s][j].present
               PROVE  T2[s][j].address \in DOMAIN T2
    OBVIOUS
  <2>1. Above(T2, lev2, s, j, T2[s][j].address)
    BY DEF Above
  <2> QED
    BY <1>1, <1>2, <1>3, <2>1
<1>8. \A x \in DOMAIN T2 \ {root} : \E s \in DOMAIN T2, j \in Index : Above(T2, lev2, s, j, x)
  <2> SUFFICES ASSUME NEW x \in DOMAIN T2 \ {root}
               PROVE  \E s \in DOMAIN T2, j \in Index : Above(T2, lev2, s, j, x)
    OBVIOUS
  <2>1. CASE x = n
    BY <1>1, <1>2, <2>1
  <2>2. CASE x # n
    <3>1. PICK s \in DOMAIN T, j \in Index : Above(T, lev, s, j, x)
      BY <1>1, <2>2 DEF Tree
    <3> QED
      BY <1>1, <1>2, <3>1
  <2> QED
    BY <2>1, <2>2
<1>9. \A x, s, v \in DOMAIN T2, j, k \in Index :
        Above(T2, lev2, s, j, x) /\ Above(T2, lev2, v, k, x) => s = v /\ j = k
  <2> SUFFICES ASSUME NEW x \in DOMAIN T2, NEW s \in DOMAIN T2, NEW v \in DOMAIN T2,
                      NEW j \in Index, NEW k \in Index,
                      Above(T2, lev2, s, j, x), Above(T2, lev2, v, k, x)
               PROVE  s = v /\ j = k
    OBVIOUS
  <2>1. CASE x = n
    BY <1>1, <1>2, <1>3, <2>1
  <2>2. CASE x # n
    <3>1. Above(T, lev, s, j, x) /\ Above(T, lev, v, k, x)
      BY <1>2, <2>2
    <3>2. x \in DOMAIN T /\ s \in DOMAIN T /\ v \in DOMAIN T
      BY <1>3, <3>1
    <3> QED
      BY <3>1, <3>2 DEF Tree
  <2> QED
    BY <2>1, <2>2
<1> QED
  BY <1>1, <1>4, <1>5, <1>6, <1>7, <1>8, <1>9 DEF Tree

(* An empty table has no rights to grant.                                   *)
LEMMA RightsLinked ==
    ASSUME NEW T, NEW root, NEW lev, Tree(T, root, lev), Rights(T, lev), NEW T2,
           NEW lev2, NEW t, NEW i, NEW n, NEW e, Linked(T, T2, lev, lev2, t, i, n, e),
           Permits(T, lev, t, e.writable, e.user)
    PROVE  Rights(T2, lev2)
<1>1. \A s, j, v : Above(T2, lev2, s, j, v) <=> Above(T, lev, s, j, v) \/ (s = t /\ j = i /\ v = n)
  BY AboveLinked
<1> SUFFICES ASSUME NEW v \in DOMAIN T2, NEW k \in Index, T2[v][k].present,
                    NEW s \in DOMAIN T2, NEW j \in Index, Above(T2, lev2, s, j, v)
             PROVE  /\ T2[v][k].writable => T2[s][j].writable
                    /\ T2[v][k].user => T2[s][j].user
  BY DEF Rights, Permits
<1>2. v # n
  <2>1. T2[n] = zeroed /\ ~zeroed[k].present
    BY DEF Linked, Links, zeroed, Index, NotPresent
  <2> QED
    BY <2>1
<1>3. Above(T, lev, s, j, v) /\ v \in DOMAIN T
  BY <1>1, <1>2 DEF Linked, Links
<1>4. T[s][j].present /\ s \in DOMAIN T /\ T2[s][j] = T[s][j]
  BY <1>3 DEF Above, Linked, Links
<1>5. CASE v = t /\ k = i
  BY <1>3, <1>4, <1>5 DEF Permits, Linked, Links
<1>6. CASE ~(v = t /\ k = i)
  <2>1. T2[v][k] = T[v][k]
    BY <1>3, <1>6 DEF Linked, Links
  <2> QED
    BY <1>3, <1>4, <2>1 DEF Rights, Permits
<1> QED
  BY <1>5, <1>6

-----------------------------------------------------------------------------
(* What walks find.                                                         *)

(* A change above the last level that leads nowhere new changes no leaf.    *)
LEMMA LeavesKept ==
    ASSUME NEW T, NEW root, NEW lev, Tree(T, root, lev), NEW T2,
           \A s \in DOMAIN T, j \in Index :
             /\ lev[s] < 4 /\ T[s][j].present =>
                  T2[s][j].present /\ T2[s][j].address = T[s][j].address
             /\ lev[s] = 4 => T2[s][j] = T[s][j]
             /\ lev[s] < 4 /\ ~T[s][j].present /\ T2[s][j].present =>
                  \A k \in Index : ~T2[T2[s][j].address][k].present
    PROVE  SameLeaves(T, T2, root)
<1> SUFFICES ASSUME NEW ix \in Indexes PROVE Leaf(T2, root, ix) = Leaf(T, root, ix)
  BY DEF SameLeaves
<1> DEFINE i1 == ix[1]
           i2 == ix[2]
           i3 == ix[3]
           i4 == ix[4]
           e1 == T[root][i1]
           e2 == T[e1.address][i2]
           e3 == T[e2.address][i3]
           e4 == T[e3.address][i4]
           f1 == T2[root][i1]
           f2 == T2[f1.address][i2]
           f3 == T2[f2.address][i3]
           f4 == T2[f3.address][i4]
<1>1. i1 \in Index /\ i2 \in Index /\ i3 \in Index /\ i4 \in Index
  BY DEF Indexes
<1>2. Leaf(T, root, ix) = IF e1.present /\ e2.present /\ e3.present /\ e4.present
                          THEN e4 ELSE NotPresent
  BY DEF Leaf, Arrives, Second, Third, Fourth
<1>3. Leaf(T2, root, ix) = IF f1.present /\ f2.present /\ f3.present /\ f4.present
                           THEN f4 ELSE NotPresent
  BY DEF Leaf, Arrives, Second, Third, Fourth
<1>4. root \in DOMAIN T /\ lev[root] = 1
  BY DEF Tree
<1>5. ASSUME NEW s \in DOMAIN T, NEW j \in Index, lev[s] \in 1 .. 3, T[s][j].present
      PROVE  T[s][j].address \in DOMAIN T /\ lev[T[s][j].address] = lev[s] + 1
  <2>1. lev[s] < 4
    BY <1>5
  <2>2. T[s][j].address \in DOMAIN T /\ Above(T, lev, s, j, T[s][j].address)
    BY <1>5, <2>1 DEF Tree, Above
  <2> QED
    BY <2>2 DEF Tree
<1>6. CASE ~e1.present
  <2>1. f1.present => ~f2.present
    BY <1>1, <1>4, <1>6
  <2> QED
    BY <1>2, <1>3, <1>6, <2>1
<1>7. CASE e1.present /\ ~e2.present
  <2>1. e1.address \in DOMAIN T /\ lev[e1.address] = 2
    BY <1>1, <1>4, <1>5, <1>7
  <2>2. f1.address = e1.address
    BY <1>1, <1>4, <1>7
  <2> HIDE DEF e1, f1
  <2>3. f2.present => ~f3.present
    BY <1>1, <1>7, <2>1, <2>2
  <2> QED
    BY <1>2, <1>3, <1>7, <2>3
<1>8. CASE e1.present /\ e2.present
  <2>1. e1.address \in DOMAIN T /\ lev[e1.address] = 2
    BY <1>1, <1>4, <1>5, <1>8
  <2>2. f1.address = e1.address /\ f1.present
    BY <1>1, <1>4, <1>8
  <2> HIDE DEF e1, f1
  <2>3. f2.address = e2.address /\ f2.present
    BY <1>1, <1>8, <2>1, <2>2
  <2>4. e2.address \in DOMAIN T /\ lev[e2.address] = 3
    BY <1>1, <1>5, <1>8, <2>1
  <2> HIDE DEF e2, f2
  <2>5. CASE ~e3.present
    <3>1. f3.present => ~f4.present
      BY <1>1, <2>3, <2>4, <2>5
    <3> QED
      BY <1>2, <1>3, <2>5, <3>1
  <2>6. CASE e3.present
    <3>1. f3.address = e3.address /\ f3.present
      BY <1>1, <2>3, <2>4, <2>6
    <3>2. e3.address \in DOMAIN T /\ lev[e3.address] = 4
      BY <1>1, <1>5, <2>4, <2>6
    <3> HIDE DEF e3, f3
    <3>3. f4 = e4
      BY <1>1, <3>1, <3>2
    <3> QED
      BY <1>2, <1>3, <1>8, <2>2, <2>3, <2>6, <3>1, <3>3
  <2> QED
    BY <2>5, <2>6
<1> QED
  BY <1>6, <1>7, <1>8

(* An entry that is present above the last level leads to a table.          *)
LEMMA Child ==
    ASSUME NEW T, NEW root, NEW lev, Tree(T, root, lev), NEW s \in DOMAIN T, NEW j \in Index,
           lev[s] \in 1 .. 3, T[s][j].present, NEW v, T[s][j].address = v
    PROVE  Above(T, lev, s, j, v) /\ v \in DOMAIN T /\ lev[v] = lev[s] + 1
<1>1. lev[s] < 4
  OBVIOUS
<1>2. v \in DOMAIN T /\ Above(T, lev, s, j, v)
  BY <1>1 DEF Tree, Above
<1> QED
  BY <1>2 DEF Tree

(* The tables a walk goes through are on the four levels.                   *)
LEMMA WalkLevels ==
    ASSUME NEW T, NEW root, NEW lev, Tree(T, root, lev), NEW ix \in Indexes, Arrives(T, root, ix)
    PROVE  LET s2 == Second(T, root, ix)
               s3 == Third(T, root, ix)
               s4 == Fourth(T, root, ix)
           IN  /\ root \in DOMAIN T /\ s2 \in DOMAIN T /\ s3 \in DOMAIN T /\ s4 \in DOMAIN T
               /\ lev[root] = 1 /\ lev[s2] = 2 /\ lev[s3] = 3 /\ lev[s4] = 4
               /\ Above(T, lev, root, ix[1], s2)
               /\ Above(T, lev, s2, ix[2], s3)
               /\ Above(T, lev, s3, ix[3], s4)
<1> DEFINE i1 == ix[1]
           i2 == ix[2]
           i3 == ix[3]
           s2 == Second(T, root, ix)
           s3 == Third(T, root, ix)
           s4 == Fourth(T, root, ix)
<1>1. i1 \in Index /\ i2 \in Index /\ i3 \in Index
  BY DEF Indexes
<1>2. root \in DOMAIN T /\ lev[root] = 1
  BY DEF Tree
<1>3. T[root][i1].present /\ T[root][i1].address = s2
  BY DEF Arrives, Second
<1>4. T[s2][i2].present /\ T[s2][i2].address = s3
  BY DEF Arrives, Third
<1>5. T[s3][i3].present /\ T[s3][i3].address = s4
  BY DEF Arrives, Fourth
<1> HIDE DEF i1, i2, i3, s2, s3, s4
<1>6. Above(T, lev, root, i1, s2) /\ s2 \in DOMAIN T /\ lev[s2] = 2
  BY <1>1, <1>2, <1>3, Child
<1>7. Above(T, lev, s2, i2, s3) /\ s3 \in DOMAIN T /\ lev[s3] = 3
  BY <1>1, <1>4, <1>6, Child
<1>8. Above(T, lev, s3, i3, s4) /\ s4 \in DOMAIN T /\ lev[s4] = 4
  BY <1>1, <1>5, <1>7, Child
<1> QED
  BY <1>2, <1>6, <1>7, <1>8 DEF i1, i2, i3, s2, s3, s4

(* Two walks meet in a table of the last level only if they are the same    *)
(* up to there.                                                             *)
LEMMA WalksApart ==
    ASSUME NEW T, NEW root, NEW lev, Tree(T, root, lev),
           NEW ix \in Indexes, Arrives(T, root, ix),
           NEW jx \in Indexes, Arrives(T, root, jx),
           Fourth(T, root, ix) = Fourth(T, root, jx), ix[4] = jx[4]
    PROVE  ix = jx
<1> DEFINE i1 == ix[1]
           i2 == ix[2]
           i3 == ix[3]
           s2 == Second(T, root, ix)
           s3 == Third(T, root, ix)
           s4 == Fourth(T, root, ix)
           j1 == jx[1]
           j2 == jx[2]
           j3 == jx[3]
           v2 == Second(T, root, jx)
           v3 == Third(T, root, jx)
<1>1. /\ root \in DOMAIN T /\ s2 \in DOMAIN T /\ s3 \in DOMAIN T /\ s4 \in DOMAIN T
      /\ Above(T, lev, root, i1, s2) /\ Above(T, lev, s2, i2, s3) /\ Above(T, lev, s3, i3, s4)
  BY WalkLevels
<1>2. /\ v2 \in DOMAIN T /\ v3 \in DOMAIN T
      /\ Above(T, lev, root, j1, v2) /\ Above(T, lev, v2, j2, v3) /\ Above(T, lev, v3, j3, s4)
  BY WalkLevels
<1>3. /\ i1 \in Index /\ i2 \in Index /\ i3 \in Index
      /\ j1 \in Index /\ j2 \in Index /\ j3 \in Index
  BY DEF Indexes
<1>4. \A x, s, v \in DOMAIN T, j, k \in Index :
        Above(T, lev, s, j, x) /\ Above(T, lev, v, k, x) => s = v /\ j = k
  BY DEF Tree
<1>5. ix = <<i1, i2, i3, ix[4]>> /\ jx = <<j1, j2, j3, ix[4]>>
  BY DEF Indexes
<1> HIDE DEF i1, i2, i3, s2, s3, s4, j1, j2, j3, v2, v3
<1>6. s3 = v3 /\ i3 = j3
  BY <1>1, <1>2, <1>3, <1>4
<1>7. s2 = v2 /\ i2 = j2
  BY <1>1, <1>2, <1>3, <1>4, <1>6
<1>8. i1 = j1
  BY <1>1, <1>2, <1>3, <1>4, <1>7
<1> QED
  BY <1>5, <1>6, <1>7, <1>8

(* A walk does not notice changes of the last level.                        *)
LEMMA WalkKept ==
    ASSUME NEW T, NEW root, NEW lev, Tree(T, root, lev), NEW T2,
           \A s \in DOMAIN T, j \in Index : lev[s] \in 1 .. 3 => T2[s][j] = T[s][j],
           NEW ix \in Indexes
    PROVE  /\ Arrives(T2, root, ix) <=> Arrives(T, root, ix)
           /\ Arrives(T, root, ix) => Fourth(T2, root, ix) = Fourth(T, root, ix)
<1> DEFINE i1 == ix[1]
           i2 == ix[2]
           i3 == ix[3]
           s2 == Second(T, root, ix)
           s3 == Third(T, root, ix)
           v2 == Second(T2, root, ix)
           v3 == Third(T2, root, ix)
<1>1. i1 \in Index /\ i2 \in Index /\ i3 \in Index
  BY DEF Indexes
<1>2. root \in DOMAIN T /\ lev[root] = 1
  BY DEF Tree
<1>3. T[root][i1].address = s2 /\ T[s2][i2].address = s3 /\ T[s3][i3].address = Fourth(T, root, ix)
  BY DEF Second, Third, Fourth
<1>4. T2[root][i1].address = v2 /\ T2[v2][i2].address = v3 /\ T2[v3][i3].address = Fourth(T2, root, ix)
  BY DEF Second, Third, Fourth
<1>5. Arrives(T, root, ix) <=> T[root][i1].present /\ T[s2][i2].present /\ T[s3][i3].present
  BY DEF Arrives
<1>6. Arrives(T2, root, ix) <=> T2[root][i1].present /\ T2[v2][i2].present /\ T2[v3][i3].present
  BY DEF Arrives
<1> HIDE DEF i1, i2, i3, s2, s3, v2, v3
<1>7. T2[root][i1] = T[root][i1] /\ v2 = s2
  BY <1>1, <1>2, <1>3, <1>4
<1>8. CASE ~T[root][i1].present
  BY <1>5, <1>6, <1>7, <1>8
<1>9. CASE T[root][i1].present
  <2>1. s2 \in DOMAIN T /\ lev[s2] = 2
    BY <1>1, <1>2, <1>3, <1>9, Child
  <2>2. T2[s2][i2] = T[s2][i2]
    BY <1>1, <2>1
  <2>3. v3 = s3
    BY <1>3, <1>4, <1>7, <2>2
  <2>4. CASE ~T[s2][i2].present
    BY <1>5, <1>6, <1>7, <2>2, <2>4
  <2>5. CASE T[s2][i2].present
    <3>1. s3 \in DOMAIN T /\ lev[s3] = 3
      BY <1>1, <1>3, <2>1, <2>5, Child
    <3>2. T2[s3][i3] = T[s3][i3]
      BY <1>1, <3>1
    <3> QED
      BY <1>3, <1>4, <1>5, <1>6, <1>7, <2>2, <2>3, <3>2
  <2> QED
    BY <2>4, <2>5
<1> QED
  BY <1>8, <1>9

(* An entry of the last level is the leaf of one walk only.                 *)
LEMMA LeafSet ==
    ASSUME NEW T, NEW root, NEW lev, Tree(T, root, lev), NEW T2, NEW ix \in Indexes,
           Arrives(T, root, ix), NEW e \in Entry, e.present \/ e = NotPresent,
           Sets(T, T2, Fourth(T, root, ix), ix[4], e)
    PROVE  /\ Arrives(T2, root, ix) /\ Fourth(T2, root, ix) = Fourth(T, root, ix)
           /\ Leaf(T2, root, ix) = e
           /\ \A jx \in Indexes \ {ix} : Leaf(T2, root, jx) = Leaf(T, root, jx)
<1> DEFINE t == Fourth(T, root, ix)
<1>1. t \in DOMAIN T /\ lev[t] = 4
  BY WalkLevels
<1>2. Sets(T, T2, t, ix[4], e)
  OBVIOUS
<1> HIDE DEF t
<1>3. \A s \in DOMAIN T, j \in Index : lev[s] \in 1 .. 3 => T2[s][j] = T[s][j]
  BY <1>1, <1>2 DEF Sets
<1>4. ASSUME NEW jx \in Indexes
      PROVE  /\ Arrives(T2, root, jx) <=> Arrives(T, root, jx)
             /\ Arrives(T, root, jx) => Fourth(T2, root, jx) = Fourth(T, root, jx)
  BY <1>3, WalkKept
<1>5. Leaf(T2, root, ix) = e
  BY <1>2, <1>4 DEF Leaf, Sets, t
<1>6. ASSUME NEW jx \in Indexes, jx # ix PROVE Leaf(T2, root, jx) = Leaf(T, root, jx)
  <2>1. CASE ~Arrives(T, root, jx)
    BY <1>4, <2>1 DEF Leaf
  <2>2. CASE Arrives(T, root, jx)
    <3> DEFINE v == Fourth(T, root, jx)
               j4 == jx[4]
    <3>1. v \in DOMAIN T /\ j4 \in Index
      BY <2>2, WalkLevels DEF Indexes
    <3>2. v # t \/ j4 # ix[4]
      BY <1>6, <2>2, WalksApart DEF t
    <3>3. Fourth(T2, root, jx) = v /\ Arrives(T2, root, jx)
      BY <1>4, <2>2
    <3>4. T2[v][j4] = T[v][j4]
      <4> HIDE DEF v, j4
      <4> QED
        BY <1>2, <3>1, <3>2 DEF Sets
    <3> QED
      BY <2>2, <3>3, <3>4 DEF Leaf
  <2> QED
    BY <2>1, <2>2
<1> QED
  BY <1>4, <1>5, <1>6

-----------------------------------------------------------------------------
(* The memory a call works on.                                              *)

Mem(p, T, c, a, k) == [pmm |-> p, tables |-> T, root |-> c, at |-> a, ok |-> k]

IsMem(m) == m = Mem(m.pmm, m.tables, m.root, m.at, m.ok) /\ m.ok \in BOOLEAN

PmmOK(p) == p.used \subseteq Frames /\ p.allocated \subseteq p.used

Good(m, lev) ==
    /\ IsMem(m) /\ PmmOK(m.pmm)
    /\ Tree(m.tables, m.root, lev) /\ Rights(m.tables, lev)

(* The last entry of the walk of a page of the heap.                        *)
HeapLeaf(m, n) == Leaf(m.tables, m.root, indexes(heap_page(n)))

(* Address a is that of a frame of A.                                       *)
FrameAt(a, A) == a \in Nat /\ a % FRAME_SIZE = 0 /\ a \div FRAME_SIZE \in A

(* Every frame handed out has one use: it is of H, a table, or under one of *)
(* the pages S of the heap.                                                 *)
Own(m, H, S) ==
    /\ H \subseteq m.pmm.allocated
    /\ \A t \in DOMAIN m.tables : FrameAt(t, m.pmm.allocated \ H)
    /\ \A n \in S :
         /\ HeapLeaf(m, n).present
         /\ FrameAt(HeapLeaf(m, n).address, m.pmm.allocated \ H)
         /\ HeapLeaf(m, n).address \notin DOMAIN m.tables
    /\ \A n, k \in S : HeapLeaf(m, n).address = HeapLeaf(m, k).address => n = k
    /\ \A f \in m.pmm.allocated :
         \/ f \in H
         \/ f * FRAME_SIZE \in DOMAIN m.tables
         \/ \E n \in S : HeapLeaf(m, n).address = f * FRAME_SIZE

(* The fields of a memory, and a memory with one of them changed.           *)
LEMMA MemFields ==
    ASSUME NEW p, NEW T, NEW c, NEW a, NEW k
    PROVE  /\ Mem(p, T, c, a, k).pmm = p /\ Mem(p, T, c, a, k).tables = T
           /\ Mem(p, T, c, a, k).root = c /\ Mem(p, T, c, a, k).at = a
           /\ Mem(p, T, c, a, k).ok = k
  BY DEF Mem

LEMMA MemChanged ==
    ASSUME NEW m, IsMem(m), NEW x
    PROVE  /\ [m EXCEPT !.pmm = x] = Mem(x, m.tables, m.root, m.at, m.ok)
           /\ [m EXCEPT !.tables = x] = Mem(m.pmm, x, m.root, m.at, m.ok)
           /\ [m EXCEPT !.at = x] = Mem(m.pmm, m.tables, m.root, x, m.ok)
           /\ [m EXCEPT !.ok = x] = Mem(m.pmm, m.tables, m.root, m.at, x)
<1> DEFINE p == m.pmm
           T == m.tables
           c == m.root
           a == m.at
           k == m.ok
<1>1. m = Mem(p, T, c, a, k)
  BY DEF IsMem
<1> HIDE DEF p, T, c, a, k
<1>2. /\ [Mem(p, T, c, a, k) EXCEPT !.pmm = x] = Mem(x, T, c, a, k)
      /\ [Mem(p, T, c, a, k) EXCEPT !.tables = x] = Mem(p, x, c, a, k)
      /\ [Mem(p, T, c, a, k) EXCEPT !.at = x] = Mem(p, T, c, x, k)
      /\ [Mem(p, T, c, a, k) EXCEPT !.ok = x] = Mem(p, T, c, a, x)
  BY DEF Mem
<1> QED
  BY <1>1, <1>2 DEF p, T, c, a, k

(* The memory is made of p, T and so on.                                    *)
Fields(m, p, T, c, a, k) ==
    IsMem(m) /\ m.pmm = p /\ m.tables = T /\ m.root = c /\ m.at = a /\ m.ok = k

LEMMA FieldsOf ==
    ASSUME NEW p, NEW T, NEW c, NEW a, NEW k \in BOOLEAN, NEW m, m = Mem(p, T, c, a, k)
    PROVE  Fields(m, p, T, c, a, k)
<1>1. m.pmm = p /\ m.tables = T /\ m.root = c /\ m.at = a /\ m.ok = k
  BY MemFields
<1> QED
  BY <1>1, Zenon DEF Fields, IsMem

LEMMA FieldsPmm ==
    ASSUME NEW m, NEW p, NEW T, NEW c, NEW a, NEW k, Fields(m, p, T, c, a, k),
           NEW x, NEW r, r = [m EXCEPT !.pmm = x]
    PROVE  Fields(r, x, T, c, a, k)
<1>1. r = Mem(x, T, c, a, k)
  BY MemChanged, Zenon DEF Fields
<1>2. k \in BOOLEAN
  BY DEF Fields, IsMem
<1> QED
  BY <1>1, <1>2, FieldsOf, Zenon

LEMMA FieldsTables ==
    ASSUME NEW m, NEW p, NEW T, NEW c, NEW a, NEW k, Fields(m, p, T, c, a, k),
           NEW x, NEW r, r = [m EXCEPT !.tables = x]
    PROVE  Fields(r, p, x, c, a, k)
<1>1. r = Mem(p, x, c, a, k)
  BY MemChanged, Zenon DEF Fields
<1>2. k \in BOOLEAN
  BY DEF Fields, IsMem
<1> QED
  BY <1>1, <1>2, FieldsOf, Zenon

LEMMA FieldsAt ==
    ASSUME NEW m, NEW p, NEW T, NEW c, NEW a, NEW k, Fields(m, p, T, c, a, k),
           NEW x, NEW r, r = [m EXCEPT !.at = x]
    PROVE  Fields(r, p, T, c, x, k)
<1>1. r = Mem(p, T, c, x, k)
  BY MemChanged, Zenon DEF Fields
<1>2. k \in BOOLEAN
  BY DEF Fields, IsMem
<1> QED
  BY <1>1, <1>2, FieldsOf, Zenon

LEMMA FieldsOk ==
    ASSUME NEW m, NEW p, NEW T, NEW c, NEW a, NEW k, Fields(m, p, T, c, a, k),
           NEW x \in BOOLEAN, NEW r, r = [m EXCEPT !.ok = x]
    PROVE  Fields(r, p, T, c, a, x)
<1>1. r = Mem(p, T, c, a, x)
  BY MemChanged, Zenon DEF Fields
<1>2. k \in BOOLEAN
  BY DEF Fields, IsMem
<1> QED
  BY <1>1, <1>2, FieldsOf, Zenon

LEMMA FieldsPut ==
    ASSUME NEW m, NEW p, NEW T, NEW c, NEW a, NEW k, Fields(m, p, T, c, a, k),
           NEW t, NEW i, NEW e
    PROVE  Fields(put(m, t, i, e), p, [T EXCEPT ![t][i] = e], c, a, k)
<1> DEFINE X == [m.tables EXCEPT ![t][i] = e]
<1>1. put(m, t, i, e) = [m EXCEPT !.tables = X]
  BY DEF put
<1>2. X = [T EXCEPT ![t][i] = e]
  BY DEF Fields
<1> HIDE DEF X
<1>3. Fields(put(m, t, i, e), p, X, c, a, k)
  BY <1>1, FieldsTables, Zenon
<1> QED
  BY <1>2, <1>3, Zenon

(* The address of a frame tells the frame.                                  *)
LEMMA FrameAddress ==
    ASSUME NEW f \in Nat
    PROVE  /\ f * FRAME_SIZE \in Nat /\ (f * FRAME_SIZE) % FRAME_SIZE = 0
           /\ (f * FRAME_SIZE) \div FRAME_SIZE = f
<1>1. FRAME_SIZE \in Nat \ {0}
  BY FrameAssumption
<1>2. f * FRAME_SIZE \in Nat /\ f * FRAME_SIZE = f * FRAME_SIZE + 0 /\ 0 \in 0 .. FRAME_SIZE - 1
  BY <1>1
<1>3. (f * FRAME_SIZE + 0) \div FRAME_SIZE = f /\ (f * FRAME_SIZE + 0) % FRAME_SIZE = 0
  BY <1>1, <1>2, DivModUnique
<1> QED
  BY <1>2, <1>3

LEMMA AddressOfFrame ==
    ASSUME NEW A, NEW a, FrameAt(a, A)
    PROVE  a = (a \div FRAME_SIZE) * FRAME_SIZE
<1>1. FRAME_SIZE \in Nat \ {0} /\ a \in Nat /\ a % FRAME_SIZE = 0
  BY FrameAssumption DEF FrameAt
<1>2. a \div FRAME_SIZE \in Nat /\ a = (a \div FRAME_SIZE) * FRAME_SIZE + (a % FRAME_SIZE)
  BY <1>1, DivMod
<1> DEFINE q == a \div FRAME_SIZE
<1> HIDE DEF q
<1>3. q \in Nat /\ a = q * FRAME_SIZE + 0
  BY <1>1, <1>2 DEF q
<1>4. a = q * FRAME_SIZE
  BY <1>1, <1>3
<1> QED
  BY <1>4 DEF q

(* Frames that are handed out are natural numbers.                          *)
LEMMA Handed ==
    ASSUME NEW p, PmmOK(p)
    PROVE  p.allocated \subseteq Frames /\ p.allocated \subseteq Nat
<1>1. Frames \subseteq Nat
  BY FrameAssumption DEF Frames
<1> QED
  BY <1>1 DEF PmmOK

(* The allocator hands out a frame that nobody has, and takes one back.     *)
LEMMA TakeOne ==
    ASSUME NEW p, PmmOK(p), HasFree(p)
    PROVE  LET f == first_free(p)
               q == mark_allocated(p, f)
           IN  /\ f \in Frames /\ f \in Nat /\ f \notin p.allocated
               /\ PmmOK(q) /\ q.allocated = p.allocated \cup {f}
<1>1. first_free(p) \in Frames \ p.used
  BY FirstFree
<1>2. Frames \subseteq Nat
  BY FrameAssumption DEF Frames
<1> QED
  BY <1>1, <1>2 DEF PmmOK, mark_allocated

LEMMA GiveBack ==
    ASSUME NEW p, PmmOK(p), NEW a, FrameAt(a, p.allocated)
    PROVE  /\ PmmOK(freed(p, a))
           /\ freed(p, a).allocated = p.allocated \ {a \div FRAME_SIZE}
<1>1. a \div FRAME_SIZE < MAX_FRAMES
  BY Handed, FrameAssumption DEF FrameAt, Frames
<1>2. frees(p, a)
  BY <1>1 DEF frees, FrameAt
<1> QED
  BY <1>2 DEF freed, PmmOK

-----------------------------------------------------------------------------
(* Who has which frame.                                                     *)

(* Nothing changes for the frames.                                          *)
LEMMA OwnSame ==
    ASSUME NEW m, NEW r, NEW H, NEW S, Own(m, H, S),
           r.pmm.allocated = m.pmm.allocated, DOMAIN r.tables = DOMAIN m.tables,
           \A n \in S : HeapLeaf(r, n) = HeapLeaf(m, n)
    PROVE  Own(r, H, S)
  BY DEF Own

(* A frame becomes a table.                                                 *)
LEMMA OwnTable ==
    ASSUME NEW m, NEW r, NEW H, NEW S, Own(m, H, S), PmmOK(m.pmm),
           NEW f \in Nat, f \notin m.pmm.allocated,
           r.pmm.allocated = m.pmm.allocated \cup {f},
           DOMAIN r.tables = DOMAIN m.tables \cup {f * FRAME_SIZE},
           \A n \in S : HeapLeaf(r, n) = HeapLeaf(m, n)
    PROVE  Own(r, H, S)
<1> DEFINE a == f * FRAME_SIZE
<1>1. a \in Nat /\ a % FRAME_SIZE = 0 /\ a \div FRAME_SIZE = f
  BY FrameAddress
<1>2. DOMAIN r.tables = DOMAIN m.tables \cup {a}
  OBVIOUS
<1> HIDE DEF a
<1>3. \A t \in DOMAIN r.tables : FrameAt(t, r.pmm.allocated \ H)
  BY <1>1, <1>2 DEF Own, FrameAt
<1>4. \A n \in S : /\ HeapLeaf(r, n).present
                   /\ FrameAt(HeapLeaf(r, n).address, r.pmm.allocated \ H)
                   /\ HeapLeaf(r, n).address \notin DOMAIN r.tables
  BY <1>1, <1>2 DEF Own, FrameAt
<1>5. \A g \in r.pmm.allocated : \/ g \in H
                                 \/ g * FRAME_SIZE \in DOMAIN r.tables
                                 \/ \E n \in S : HeapLeaf(r, n).address = g * FRAME_SIZE
  BY DEF Own
<1>6. \A n, k \in S : HeapLeaf(r, n).address = HeapLeaf(r, k).address => n = k
  BY DEF Own
<1> QED
  BY <1>3, <1>4, <1>5, <1>6 DEF Own

(* A frame is taken, and not used for anything yet.                         *)
LEMMA OwnTaken ==
    ASSUME NEW m, NEW r, NEW H, NEW S, Own(m, H, S), NEW f, f \notin m.pmm.allocated,
           r.pmm.allocated = m.pmm.allocated \cup {f}, r.tables = m.tables, r.root = m.root
    PROVE  Own(r, H \cup {f}, S)
<1>1. \A n \in S : HeapLeaf(r, n) = HeapLeaf(m, n)
  BY DEF HeapLeaf
<1>2. m.pmm.allocated \ H = r.pmm.allocated \ (H \cup {f})
  BY DEF Own
<1> QED
  BY <1>1, <1>2 DEF Own

(* It is put under a page of the heap.                                      *)
LEMMA OwnPage ==
    ASSUME NEW m, NEW r, NEW H, NEW S, NEW f \in Nat, Own(m, H \cup {f}, S), f \notin H, NEW n,
           n \notin S,
           r.pmm.allocated = m.pmm.allocated, DOMAIN r.tables = DOMAIN m.tables,
           \A k \in S : HeapLeaf(r, k) = HeapLeaf(m, k),
           HeapLeaf(r, n).present, HeapLeaf(r, n).address = f * FRAME_SIZE
    PROVE  Own(r, H, S \cup {n})
<1> DEFINE a == f * FRAME_SIZE
<1>1. a \in Nat /\ a % FRAME_SIZE = 0 /\ a \div FRAME_SIZE = f
  BY FrameAddress
<1>2. HeapLeaf(r, n).address = a
  OBVIOUS
<1>3. FrameAt(a, r.pmm.allocated \ H)
  BY <1>1 DEF FrameAt, Own
<1>4. a \notin DOMAIN r.tables
  BY <1>1 DEF FrameAt, Own
<1>5. \A k \in S : HeapLeaf(r, k).address # a
  BY <1>1 DEF FrameAt, Own
<1>6. \A t : FrameAt(t, m.pmm.allocated \ (H \cup {f})) => FrameAt(t, r.pmm.allocated \ H)
  BY DEF FrameAt
<1>7. \A g \in r.pmm.allocated :
        \/ g \in H
        \/ g * FRAME_SIZE \in DOMAIN r.tables
        \/ \E k \in S \cup {n} : HeapLeaf(r, k).address = g * FRAME_SIZE
  BY DEF Own
<1> HIDE DEF a
<1>8. \A k \in S \cup {n} : /\ HeapLeaf(r, k).present
                            /\ FrameAt(HeapLeaf(r, k).address, r.pmm.allocated \ H)
                            /\ HeapLeaf(r, k).address \notin DOMAIN r.tables
  BY <1>2, <1>3, <1>4, <1>6 DEF Own
<1>9. \A j, k \in S \cup {n} : HeapLeaf(r, j).address = HeapLeaf(r, k).address => j = k
  BY <1>2, <1>5 DEF Own
<1>10. \A t \in DOMAIN r.tables : FrameAt(t, r.pmm.allocated \ H)
  BY <1>6 DEF Own
<1> QED
  BY <1>7, <1>8, <1>9, <1>10 DEF Own

(* Or it is given back.                                                     *)
LEMMA OwnGiven ==
    ASSUME NEW m, NEW r, NEW H, NEW S, NEW f, Own(m, H \cup {f}, S), f \notin H,
           r.pmm.allocated = m.pmm.allocated \ {f}, r.tables = m.tables, r.root = m.root
    PROVE  Own(r, H, S)
<1>1. \A n \in S : HeapLeaf(r, n) = HeapLeaf(m, n)
  BY DEF HeapLeaf
<1>2. m.pmm.allocated \ (H \cup {f}) = r.pmm.allocated \ H
  OBVIOUS
<1> QED
  BY <1>1, <1>2 DEF Own

(* The frame under a page of the heap is taken away and given back.         *)
LEMMA OwnUndone ==
    ASSUME NEW m, NEW r, NEW H, NEW S, Own(m, H, S), PmmOK(m.pmm), NEW n \in S,
           r.pmm.allocated = m.pmm.allocated \ {HeapLeaf(m, n).address \div FRAME_SIZE},
           DOMAIN r.tables = DOMAIN m.tables,
           \A k \in S \ {n} : HeapLeaf(r, k) = HeapLeaf(m, k)
    PROVE  Own(r, H, S \ {n})
<1> DEFINE a == HeapLeaf(m, n).address
           f == a \div FRAME_SIZE
           A == m.pmm.allocated
<1>1. FrameAt(a, A \ H) /\ a \notin DOMAIN m.tables
  BY DEF Own
<1>2. a = f * FRAME_SIZE /\ f \in A /\ f \notin H
  BY <1>1, AddressOfFrame DEF FrameAt
<1>3. r.pmm.allocated = A \ {f} /\ \A k \in S \ {n} : HeapLeaf(m, k).address # a
  BY DEF Own
<1>4. \A t : FrameAt(t, A \ H) /\ t # a => FrameAt(t, r.pmm.allocated \ H)
  <2> TAKE t
  <2> HAVE FrameAt(t, A \ H) /\ t # a
  <2>1. t = (t \div FRAME_SIZE) * FRAME_SIZE
    BY AddressOfFrame
  <2>2. t \div FRAME_SIZE # f
    BY <1>2, <2>1
  <2> QED
    BY <1>3, <2>2 DEF FrameAt
<1>5. H \subseteq r.pmm.allocated
  BY <1>2, <1>3 DEF Own
<1>6. \A t \in DOMAIN r.tables : FrameAt(t, r.pmm.allocated \ H)
  BY <1>1, <1>4 DEF Own
<1>7. \A k \in S \ {n} : /\ HeapLeaf(r, k).present
                         /\ FrameAt(HeapLeaf(r, k).address, r.pmm.allocated \ H)
                         /\ HeapLeaf(r, k).address \notin DOMAIN r.tables
  BY <1>3, <1>4 DEF Own
<1>8. \A g \in r.pmm.allocated :
        \/ g \in H
        \/ g * FRAME_SIZE \in DOMAIN r.tables
        \/ \E k \in S \ {n} : HeapLeaf(r, k).address = g * FRAME_SIZE
  <2> SUFFICES ASSUME NEW g \in r.pmm.allocated, g \notin H, g * FRAME_SIZE \notin DOMAIN m.tables
               PROVE  \E k \in S \ {n} : HeapLeaf(r, k).address = g * FRAME_SIZE
    OBVIOUS
  <2>1. PICK k \in S : HeapLeaf(m, k).address = g * FRAME_SIZE
    BY <1>3 DEF Own
  <2>2. g # f /\ g \in Nat /\ f \in Nat
    BY <1>2, <1>3, Handed
  <2>3. g * FRAME_SIZE # f * FRAME_SIZE
    <3> HIDE DEF f
    <3> QED
      BY <2>2, FrameAddress
  <2>4. k # n
    BY <1>2, <2>1, <2>3
  <2> QED
    BY <2>1, <2>4
<1>9. \A j, k \in S \ {n} : HeapLeaf(r, j).address = HeapLeaf(r, k).address => j = k
  BY DEF Own
<1> QED
  BY <1>5, <1>6, <1>7, <1>8, <1>9 DEF Own

-----------------------------------------------------------------------------
(* One level of a walk that maps.                                           *)

(* What a step may do to the tables: it adds some and widens rights.        *)
Grown(m, lev, r, lev2) ==
    /\ r.root = m.root
    /\ Keeps(m.tables, r.tables) /\ SameLeaves(m.tables, r.tables, m.root)
    /\ \A t \in DOMAIN m.tables : lev2[t] = lev[t]

(* r.at is the child of m.at at i and lets the rights through.              *)
Entered(m, r, lev2, i, w, u) ==
    /\ r.tables[m.at][i].present /\ r.tables[m.at][i].address = r.at
    /\ r.at \in DOMAIN r.tables /\ lev2[r.at] = lev2[m.at] + 1
    /\ Permits(r.tables, lev2, r.at, w, u)

LEMMA HeapPageNat ==
    ASSUME NEW n \in Nat
    PROVE  heap_page(n) \in Nat
<1>1. FRAME_SIZE \in Nat /\ HEAP_START \in Nat
  BY VirtualAssumption, FrameAssumption
<1>2. n * FRAME_SIZE \in Nat
  BY <1>1
<1> QED
  BY <1>1, <1>2 DEF heap_page, PAGE_SIZE

LEMMA LeavesOfHeap ==
    ASSUME NEW m, NEW r, r.root = m.root, SameLeaves(m.tables, r.tables, m.root), NEW S \in SUBSET Nat
    PROVE  \A n \in S : HeapLeaf(r, n) = HeapLeaf(m, n)
<1> TAKE n \in S
<1>1. heap_page(n) \in Nat
  BY HeapPageNat
<1>2. indexes(heap_page(n)) \in Indexes
  BY <1>1, IndexDigits
<1> QED
  BY <1>2 DEF SameLeaves, HeapLeaf

(* The child is there: its entry is widened.                                *)
LEMMA ChildFound ==
    ASSUME NEW m, NEW lev, Good(m, lev), NEW H, NEW S \in SUBSET Nat, Own(m, H, S),
           m.ok, m.at \in DOMAIN m.tables, lev[m.at] \in 1 .. 3,
           NEW i \in Index, NEW w \in BOOLEAN, NEW u \in BOOLEAN,
           Permits(m.tables, lev, m.at, w, u), m.tables[m.at][i].present
    PROVE  LET r == get_or_create_table(m, i, w, u)
           IN  Good(r, lev) /\ Own(r, H, S) /\ Grown(m, lev, r, lev)
               /\ r.ok /\ Entered(m, r, lev, i, w, u)
<1> DEFINE r == get_or_create_table(m, i, w, u)
           T == m.tables
           t == m.at
           x == T[t][i]
           e == widened(x, w, u)
           T2 == [T EXCEPT ![t][i] = e]
<1>1. Tree(T, m.root, lev) /\ Rights(T, lev) /\ IsTables(T) /\ t \in DOMAIN T /\ x.present
  BY DEF Good, Tree
<1>2. x \in Entry
  BY <1>1 DEF IsTables
<1>3. e \in Entry /\ e.present /\ e.address = x.address
  BY <1>2 DEF widened, make_entry, Entry
<1>4. e.writable = (x.writable \/ w) /\ e.user = (x.user \/ u)
  BY DEF widened, make_entry
<1>5. r = [put(m, t, i, e) EXCEPT !.at = x.address]
  BY DEF get_or_create_table
<1>6. /\ IsMem(r) /\ r.pmm = m.pmm /\ r.tables = T2 /\ r.root = m.root
      /\ r.at = x.address /\ r.ok
  <2>1. Fields(m, m.pmm, T, m.root, t, m.ok)
    BY DEF Good, Fields
  <2>2. Fields(put(m, t, i, e), m.pmm, T2, m.root, t, m.ok)
    BY <2>1, FieldsPut, Zenon
  <2>3. Fields(r, m.pmm, T2, m.root, x.address, m.ok)
    BY <1>5, <2>2, FieldsAt, Zenon
  <2> QED
    BY <2>3, Zenon DEF Fields
<1>7. Sets(T, T2, t, i, e)
  <2> HIDE DEF T, t, e
  <2> QED
    BY <1>1, <1>3, EntrySet
<1> HIDE DEF T2, r
<1>8. \A s, j, v : Above(T2, lev, s, j, v) <=> Above(T, lev, s, j, v)
  <2> HIDE DEF T, t, e
  <2> QED
    BY <1>1, <1>3, <1>7, AboveSame DEF x
<1>9. Tree(T2, m.root, lev)
  <2> HIDE DEF T, t, e
  <2> QED
    BY <1>1, <1>7, <1>8, TreeKept DEF Sets
<1>10. Permits(T, lev, t, e.writable, e.user)
  <2>1. Permits(T, lev, t, x.writable, x.user) /\ Permits(T, lev, t, w, u)
    BY <1>1 DEF Rights
  <2> HIDE DEF T, t, x, e
  <2> QED
    BY <1>4, <2>1 DEF Permits
<1>11. Rights(T2, lev)
  <2>1. (T[t][i].writable => e.writable) /\ (T[t][i].user => e.user)
    <3> HIDE DEF T, t, e
    <3> QED
      BY <1>4 DEF x
  <2> HIDE DEF T, t, x, e
  <2> QED
    BY <1>1, <1>3, <1>7, <1>8, <1>10, <2>1, RightsSet
<1>12. Keeps(T, T2)
  <2> HIDE DEF T, t, e
  <2> QED
    BY <1>3, <1>7 DEF Keeps, Sets, x
<1>13. SameLeaves(T, T2, m.root)
  <2>1. \A s \in DOMAIN T, j \in Index :
             /\ lev[s] < 4 /\ T[s][j].present =>
                  T2[s][j].present /\ T2[s][j].address = T[s][j].address
             /\ lev[s] = 4 => T2[s][j] = T[s][j]
             /\ lev[s] < 4 /\ ~T[s][j].present /\ T2[s][j].present =>
                  \A k \in Index : ~T2[T2[s][j].address][k].present
    <3>1. lev[t] # 4
      OBVIOUS
    <3> HIDE DEF T, t, e
    <3> QED
      BY <1>1, <1>3, <1>7, <3>1 DEF Sets, x
  <2> HIDE DEF T, t, e
  <2> QED
    BY <1>1, <2>1, LeavesKept
<1>14. Good(r, lev)
  BY <1>6, <1>9, <1>11 DEF Good
<1>15. Own(r, H, S)
  <2>1. \A n \in S : HeapLeaf(r, n) = HeapLeaf(m, n)
    BY <1>6, <1>13, LeavesOfHeap
  <2>2. DOMAIN r.tables = DOMAIN m.tables
    BY <1>6, <1>7 DEF Sets
  <2> QED
    BY <1>6, <2>1, <2>2, OwnSame
<1>16. Grown(m, lev, r, lev)
  BY <1>6, <1>12, <1>13 DEF Grown
<1>17. Entered(m, r, lev, i, w, u)
  <2>1. T2[t][i] = e
    BY <1>7 DEF Sets
  <2>2. Above(T2, lev, t, i, x.address) /\ x.address \in DOMAIN T2 /\ lev[x.address] = lev[t] + 1
    <3>1. t \in DOMAIN T2 /\ lev[t] \in 1 .. 3 /\ T2[t][i].present /\ T2[t][i].address = x.address
      BY <1>3, <1>7, <2>1 DEF Sets
    <3> HIDE DEF T, t, x, e
    <3> QED
      BY <1>9, <3>1, Child
  <2>3. Permits(T2, lev, x.address, w, u)
    <3>1. e.writable = (x.writable \/ w) /\ e.user = (x.user \/ u)
      BY <1>4
    <3> DEFINE a == x.address
    <3> HIDE DEF T, t, e, a
    <3> SUFFICES ASSUME NEW s \in DOMAIN T2, NEW j \in Index, Above(T2, lev, s, j, a)
                 PROVE  (w => T2[s][j].writable) /\ (u => T2[s][j].user)
      BY DEF Permits, a
    <3>2. a \in DOMAIN T2 /\ t \in DOMAIN T2 /\ Above(T2, lev, t, i, a)
      BY <2>2 DEF Above, a
    <3>3. s = t /\ j = i
      BY <1>9, <3>2 DEF Tree
    <3> HIDE DEF x
    <3> QED
      BY <2>1, <3>1, <3>3
  <2> QED
    BY <1>3, <1>6, <2>1, <2>2, <2>3 DEF Entered
<1> QED
  BY <1>6, <1>14, <1>15, <1>16, <1>17 DEF r

(* The child is made: a frame becomes an empty table.                       *)
LEMMA ChildMade ==
    ASSUME NEW m, NEW lev, Good(m, lev), NEW H, NEW S \in SUBSET Nat, Own(m, H, S),
           m.ok, m.at \in DOMAIN m.tables, lev[m.at] \in 1 .. 3,
           NEW i \in Index, NEW w \in BOOLEAN, NEW u \in BOOLEAN,
           Permits(m.tables, lev, m.at, w, u), ~m.tables[m.at][i].present, HasFree(m.pmm)
    PROVE  LET r == get_or_create_table(m, i, w, u)
           IN  \E lev2 : Good(r, lev2) /\ Own(r, H, S) /\ Grown(m, lev, r, lev2)
                         /\ r.ok /\ Entered(m, r, lev2, i, w, u)
<1> DEFINE r == get_or_create_table(m, i, w, u)
           T == m.tables
           t == m.at
           f == first_free(m.pmm)
           n == f * FRAME_SIZE
           q == mark_allocated(m.pmm, f)
           e == make_entry(n, w, u)
           N == [s \in DOMAIN T \cup {n} |-> IF s = n THEN zeroed ELSE T[s]]
           T2 == [N EXCEPT ![t][i] = e]
           lev2 == Below(T2, n, lev, lev[t])
           made == new_table(m)
<1>1. Tree(T, m.root, lev) /\ Rights(T, lev) /\ IsTables(T) /\ t \in DOMAIN T /\ lev[t] < 4
  BY DEF Good, Tree
<1>2. f \in Nat /\ f \notin m.pmm.allocated /\ PmmOK(q) /\ q.allocated = m.pmm.allocated \cup {f}
  BY TakeOne DEF Good
<1>3. n \in Nat /\ n % FRAME_SIZE = 0 /\ n \div FRAME_SIZE = f
  <2> HIDE DEF f
  <2> QED
    BY <1>2, FrameAddress
<1>4. n \notin DOMAIN T
  <2> HIDE DEF n, f
  <2> QED
    BY <1>2, <1>3 DEF Own, FrameAt
<1>5. e \in Entry /\ e.present /\ e.address = n /\ e.writable = w /\ e.user = u
  <2> HIDE DEF n
  <2> QED
    BY <1>3 DEF make_entry, Entry
<1>6. r = [put(made, t, i, e) EXCEPT !.at = n]
  BY DEF get_or_create_table
<1>7. Fields(r, q, T2, m.root, n, m.ok)
  <2>1. Fields(m, m.pmm, T, m.root, t, m.ok)
    BY DEF Good, Fields
  <2> DEFINE m1 == [m EXCEPT !.pmm = q]
  <2>2. Fields(m1, q, T, m.root, t, m.ok)
    <3>1. m1 = [m EXCEPT !.pmm = q]
      OBVIOUS
    <3> HIDE DEF m1, q, T, t
    <3> QED
      BY <2>1, <3>1, FieldsPmm, Zenon
  <2>3. made = [m1 EXCEPT !.tables = N]
    <3>1. made = [m EXCEPT !.pmm = q, !.tables = N]
      BY DEF new_table
    <3>2. [m EXCEPT !.pmm = q, !.tables = N] = [m1 EXCEPT !.tables = N]
      <4> HIDE DEF q, N
      <4> QED
        OBVIOUS
    <3> QED
      BY <3>1, <3>2, Zenon
  <2> HIDE DEF made, m1, N, q, T, t, e
  <2>4. Fields(made, q, N, m.root, t, m.ok)
    BY <2>2, <2>3, FieldsTables, Zenon
  <2>5. Fields(put(made, t, i, e), q, T2, m.root, t, m.ok)
    BY <2>4, FieldsPut, Zenon
  <2> QED
    BY <1>6, <2>5, FieldsAt, Zenon
<1>8. /\ IsMem(r) /\ r.pmm = q /\ r.tables = T2 /\ r.root = m.root /\ r.at = n /\ r.ok
  BY <1>7, Zenon DEF Fields
<1>9. Links(T, T2, t, i, n, e)
  <2> HIDE DEF T, t, e, n
  <2> QED
    BY <1>1, <1>3, <1>4, <1>5, TableLinked
<1>10. Linked(T, T2, lev, lev2, t, i, n, e)
  <2>1. ~T[t][i].present /\ lev2 = Below(T2, n, lev, lev[t])
    OBVIOUS
  <2> HIDE DEF T, t, e, n, T2, lev2
  <2> QED
    BY <1>1, <1>5, <1>9, <2>1 DEF Linked
<1>11. lev2[n] = lev[t] + 1 /\ \A s \in DOMAIN T : lev2[s] = lev[s]
  <2>1. DOMAIN T2 = DOMAIN T \cup {n}
    BY <1>9 DEF Links
  <2> HIDE DEF T, t, n, T2
  <2> QED
    BY <1>4, <2>1 DEF Below
<1>12. Permits(T, lev, t, e.writable, e.user)
  <2>1. Permits(T, lev, t, w, u)
    OBVIOUS
  <2> HIDE DEF T, t, e
  <2> QED
    BY <1>5, <2>1
<1> HIDE DEF r, T2, lev2, e, n, q, f, N, made
<1>13. Tree(T2, m.root, lev2) /\ Rights(T2, lev2)
  <2> HIDE DEF T, t
  <2> QED
    BY <1>1, <1>10, <1>12, TreeLinked, RightsLinked
<1>14. Keeps(T, T2)
  <2>1. ~T[t][i].present
    OBVIOUS
  <2> HIDE DEF T, t
  <2> QED
    BY <1>9, <2>1 DEF Keeps, Links
<1>15. SameLeaves(T, T2, m.root)
  <2>1. \A s \in DOMAIN T, j \in Index :
             /\ lev[s] < 4 /\ T[s][j].present =>
                  T2[s][j].present /\ T2[s][j].address = T[s][j].address
             /\ lev[s] = 4 => T2[s][j] = T[s][j]
             /\ lev[s] < 4 /\ ~T[s][j].present /\ T2[s][j].present =>
                  \A k \in Index : ~T2[T2[s][j].address][k].present
    <3>1. lev[t] # 4 /\ ~T[t][i].present
      OBVIOUS
    <3>2. \A k \in Index : ~T2[n][k].present
      BY <1>9 DEF Links, zeroed, Index, NotPresent
    <3> HIDE DEF T, t
    <3> QED
      BY <1>1, <1>5, <1>9, <3>1, <3>2 DEF Links
  <2> HIDE DEF T, t
  <2> QED
    BY <1>1, <2>1, LeavesKept
<1>16. Good(r, lev2)
  BY <1>2, <1>8, <1>13 DEF Good
<1>17. Own(r, H, S)
  <2>1. \A k \in S : HeapLeaf(r, k) = HeapLeaf(m, k)
    BY <1>8, <1>15, LeavesOfHeap
  <2>2. DOMAIN r.tables = DOMAIN m.tables \cup {f * FRAME_SIZE}
    BY <1>8, <1>9 DEF Links, n
  <2>3. r.pmm.allocated = m.pmm.allocated \cup {f} /\ PmmOK(m.pmm)
    BY <1>2, <1>8 DEF Good
  <2> QED
    BY <1>2, <2>1, <2>2, <2>3, OwnTable
<1>18. Grown(m, lev, r, lev2)
  BY <1>8, <1>11, <1>14, <1>15 DEF Grown
<1>19. Entered(m, r, lev2, i, w, u)
  <2>1. T2[t][i] = e /\ t \in DOMAIN T2 /\ n \in DOMAIN T2
    BY <1>1, <1>9 DEF Links
  <2>2. lev2[n] = lev2[t] + 1
    BY <1>1, <1>11
  <2>3. Permits(T2, lev2, n, w, u)
    <3> HIDE DEF T, t
    <3> SUFFICES ASSUME NEW s \in DOMAIN T2, NEW j \in Index, Above(T2, lev2, s, j, n)
                 PROVE  (w => T2[s][j].writable) /\ (u => T2[s][j].user)
      BY DEF Permits
    <3>1. Above(T2, lev2, t, i, n)
      BY <1>1, <1>10, AboveLinked
    <3>2. s = t /\ j = i
      BY <1>13, <2>1, <3>1 DEF Tree
    <3> QED
      BY <1>5, <2>1, <3>2
  <2> QED
    BY <1>5, <1>8, <2>1, <2>2, <2>3 DEF Entered
<1> QED
  BY <1>8, <1>16, <1>17, <1>18, <1>19 DEF r

(* Only where the walk is, or how it went, has changed.                     *)
LEMMA SameMem ==
    ASSUME NEW m, NEW lev, Good(m, lev), NEW H, NEW S, Own(m, H, S), NEW r, IsMem(r),
           r.pmm = m.pmm, r.tables = m.tables, r.root = m.root
    PROVE  Good(r, lev) /\ Own(r, H, S) /\ Grown(m, lev, r, lev)
<1>1. Good(r, lev)
  BY DEF Good
<1>2. Own(r, H, S)
  <2>1. \A n \in S : HeapLeaf(r, n) = HeapLeaf(m, n)
    BY DEF HeapLeaf
  <2> QED
    BY <2>1, OwnSame
<1>3. Grown(m, lev, r, lev)
  BY DEF Grown, Keeps, SameLeaves
<1> QED
  BY <1>1, <1>2, <1>3

(* There is no frame for it: nothing has changed.                           *)
LEMMA ChildMissing ==
    ASSUME NEW m, NEW lev, Good(m, lev), NEW H, NEW S \in SUBSET Nat, Own(m, H, S),
           m.ok, NEW i, NEW w, NEW u, ~m.tables[m.at][i].present, ~HasFree(m.pmm)
    PROVE  LET r == get_or_create_table(m, i, w, u)
           IN  Good(r, lev) /\ Own(r, H, S) /\ Grown(m, lev, r, lev) /\ ~r.ok
<1> DEFINE r == get_or_create_table(m, i, w, u)
<1>1. r = [m EXCEPT !.ok = FALSE]
  BY DEF get_or_create_table
<1> HIDE DEF r
<1>2. Fields(m, m.pmm, m.tables, m.root, m.at, m.ok)
  BY DEF Good, Fields
<1>3. Fields(r, m.pmm, m.tables, m.root, m.at, FALSE)
  BY <1>1, <1>2, FieldsOk, Zenon
<1>4. IsMem(r) /\ r.pmm = m.pmm /\ r.tables = m.tables /\ r.root = m.root /\ ~r.ok
  BY <1>3, Zenon DEF Fields
<1> QED
  BY <1>4, SameMem DEF r

(* get_or_create_table, whatever it finds.                                  *)
LEMMA GetOrCreate ==
    ASSUME NEW m, NEW lev, Good(m, lev), NEW H, NEW S \in SUBSET Nat, Own(m, H, S),
           m.ok, m.at \in DOMAIN m.tables, lev[m.at] \in 1 .. 3,
           NEW i \in Index, NEW w \in BOOLEAN, NEW u \in BOOLEAN,
           Permits(m.tables, lev, m.at, w, u)
    PROVE  LET r == get_or_create_table(m, i, w, u)
           IN  \E lev2 : Good(r, lev2) /\ Own(r, H, S) /\ Grown(m, lev, r, lev2)
                         /\ (r.ok => Entered(m, r, lev2, i, w, u))
<1>1. CASE m.tables[m.at][i].present
  BY <1>1, ChildFound
<1>2. CASE ~m.tables[m.at][i].present /\ HasFree(m.pmm)
  BY <1>2, ChildMade
<1>3. CASE ~m.tables[m.at][i].present /\ ~HasFree(m.pmm)
  BY <1>3, ChildMissing
<1> QED
  BY <1>1, <1>2, <1>3

-----------------------------------------------------------------------------
(* map.                                                                     *)

Walked(m, ix, w, u) ==
    get_or_create_table(
      get_or_create_table(
        get_or_create_table([m EXCEPT !.at = m.root], ix[1], w, u), ix[2], w, u), ix[3], w, u)

LEMMA GrownTwice ==
    ASSUME NEW m, NEW lev, NEW r, NEW lev2, NEW q, NEW lev3,
           Grown(m, lev, r, lev2), Grown(r, lev2, q, lev3)
    PROVE  Grown(m, lev, q, lev3)
<1>1. q.root = m.root /\ r.root = m.root
  BY DEF Grown
<1>2. Keeps(m.tables, q.tables)
  BY DEF Grown, Keeps
<1>3. SameLeaves(m.tables, q.tables, m.root)
  BY <1>1 DEF Grown, SameLeaves
<1>4. \A t \in DOMAIN m.tables : lev3[t] = lev[t]
  BY DEF Grown, Keeps
<1> QED
  BY <1>1, <1>2, <1>3, <1>4 DEF Grown

(* Nothing is done once a level has failed.                                 *)
LEMMA NotEntered ==
    ASSUME NEW m, ~m.ok, NEW i, NEW w, NEW u
    PROVE  get_or_create_table(m, i, w, u) = m
  BY DEF get_or_create_table

(* The walk is at the root.                                                 *)
LEMMA AtRoot ==
    ASSUME NEW m, NEW lev, Good(m, lev), NEW H, NEW S \in SUBSET Nat, Own(m, H, S), m.ok, NEW w, NEW u
    PROVE  LET r == [m EXCEPT !.at = m.root]
           IN  /\ Good(r, lev) /\ Own(r, H, S) /\ Grown(m, lev, r, lev) /\ r.ok
               /\ r.at = m.root /\ r.tables = m.tables
               /\ r.at \in DOMAIN r.tables /\ lev[r.at] = 1 /\ Permits(r.tables, lev, r.at, w, u)
<1> DEFINE r == [m EXCEPT !.at = m.root]
<1>1. r = [m EXCEPT !.at = m.root]
  OBVIOUS
<1> HIDE DEF r
<1>2. Fields(m, m.pmm, m.tables, m.root, m.at, m.ok)
  BY DEF Good, Fields
<1>3. Fields(r, m.pmm, m.tables, m.root, m.root, m.ok)
  BY <1>1, <1>2, FieldsAt, Zenon
<1>4. IsMem(r) /\ r.pmm = m.pmm /\ r.tables = m.tables /\ r.root = m.root /\ r.at = m.root /\ r.ok
  BY <1>3, Zenon DEF Fields
<1>5. Good(r, lev) /\ Own(r, H, S) /\ Grown(m, lev, r, lev)
  BY <1>4, SameMem
<1>8. m.root \in DOMAIN m.tables /\ lev[m.root] = 1
  BY DEF Good, Tree
<1>9. Permits(m.tables, lev, m.root, w, u)
  <2> SUFFICES ASSUME NEW s \in DOMAIN m.tables, NEW j \in Index, Above(m.tables, lev, s, j, m.root)
               PROVE  FALSE
    BY DEF Permits
  <2>1. lev[m.root] = lev[s] + 1 /\ lev[s] \in 1 .. 4
    BY <1>8 DEF Good, Tree
  <2> QED
    BY <1>8, <2>1
<1> QED
  BY <1>4, <1>5, <1>8, <1>9 DEF r

(* The tables of a walk are there after it, or a frame was missing.         *)
LEMMA WalkCreates ==
    ASSUME NEW m, NEW lev, Good(m, lev), NEW H, NEW S \in SUBSET Nat, Own(m, H, S), m.ok,
           NEW ix \in Indexes, NEW w \in BOOLEAN, NEW u \in BOOLEAN
    PROVE  LET x == Walked(m, ix, w, u)
           IN  \E lev2 :
                 /\ Good(x, lev2) /\ Own(x, H, S) /\ Grown(m, lev, x, lev2)
                 /\ x.ok => /\ Arrives(x.tables, m.root, ix) /\ Fourth(x.tables, m.root, ix) = x.at
                            /\ Permits(x.tables, lev2, x.at, w, u)
<1> DEFINE i1 == ix[1]
           i2 == ix[2]
           i3 == ix[3]
           m0 == [m EXCEPT !.at = m.root]
           m1 == get_or_create_table(m0, i1, w, u)
           m2 == get_or_create_table(m1, i2, w, u)
           m3 == get_or_create_table(m2, i3, w, u)
<1>1. Walked(m, ix, w, u) = m3
  BY DEF Walked
<1>2. i1 \in Index /\ i2 \in Index /\ i3 \in Index
  BY DEF Indexes
<1>3. /\ Good(m0, lev) /\ Own(m0, H, S) /\ Grown(m, lev, m0, lev) /\ m0.ok
      /\ m0.at = m.root
      /\ m0.at \in DOMAIN m0.tables /\ lev[m0.at] = 1 /\ Permits(m0.tables, lev, m0.at, w, u)
  BY AtRoot
<1> HIDE DEF m0, i1, i2, i3
<1>4. PICK lev1 : /\ Good(m1, lev1) /\ Own(m1, H, S) /\ Grown(m0, lev, m1, lev1)
                  /\ m1.ok => Entered(m0, m1, lev1, i1, w, u)
  <2>1. lev[m0.at] \in 1 .. 3
    BY <1>3
  <2> QED
    BY <1>2, <1>3, <2>1, GetOrCreate
<1>5. Grown(m, lev, m1, lev1)
  BY <1>3, <1>4, GrownTwice
<1>6. CASE ~m1.ok
  <2>1. m2 = m1 /\ m3 = m1
    BY <1>6, NotEntered
  <2> QED
    BY <1>1, <1>4, <1>5, <1>6, <2>1
<1>7. CASE m1.ok
  <2>1. /\ m1.at \in DOMAIN m1.tables /\ Permits(m1.tables, lev1, m1.at, w, u)
        /\ m1.tables[m.root][i1].present /\ m1.tables[m.root][i1].address = m1.at
    BY <1>3, <1>4, <1>7 DEF Entered
  <2>2. lev1[m1.at] = 2
    BY <1>3, <1>4, <1>7 DEF Entered, Grown
  <2> HIDE DEF m1
  <2>3. PICK lev2 : /\ Good(m2, lev2) /\ Own(m2, H, S) /\ Grown(m1, lev1, m2, lev2)
                    /\ m2.ok => Entered(m1, m2, lev2, i2, w, u)
    <3>1. lev1[m1.at] \in 1 .. 3
      BY <2>2
    <3> QED
      BY <1>2, <1>4, <1>7, <2>1, <3>1, GetOrCreate
  <2>4. Grown(m, lev, m2, lev2)
    BY <1>5, <2>3, GrownTwice
  <2>5. CASE ~m2.ok
    <3>1. m3 = m2
      BY <2>5, NotEntered
    <3> QED
      BY <1>1, <2>3, <2>4, <2>5, <3>1
  <2>6. CASE m2.ok
    <3>1. /\ m2.at \in DOMAIN m2.tables /\ Permits(m2.tables, lev2, m2.at, w, u)
          /\ m2.tables[m1.at][i2].present /\ m2.tables[m1.at][i2].address = m2.at
      BY <2>3, <2>6 DEF Entered
    <3>2. lev2[m2.at] = 3
      BY <2>1, <2>2, <2>3, <2>6 DEF Entered, Grown
    <3> HIDE DEF m2
    <3>3. PICK lev3 : /\ Good(m3, lev3) /\ Own(m3, H, S) /\ Grown(m2, lev2, m3, lev3)
                      /\ m3.ok => Entered(m2, m3, lev3, i3, w, u)
      <4>1. lev2[m2.at] \in 1 .. 3
        BY <3>2
      <4> QED
        BY <1>2, <2>3, <2>6, <3>1, <4>1, GetOrCreate
    <3>4. Grown(m, lev, m3, lev3) /\ Grown(m1, lev1, m3, lev3)
      BY <2>3, <2>4, <3>3, GrownTwice
    <3>5. CASE ~m3.ok
      BY <1>1, <3>3, <3>4, <3>5
    <3>6. CASE m3.ok
      <4>1. /\ Permits(m3.tables, lev3, m3.at, w, u)
            /\ m3.tables[m2.at][i3].present /\ m3.tables[m2.at][i3].address = m3.at
        BY <3>3, <3>6 DEF Entered
      <4> HIDE DEF m3
      <4>2. m3.tables[m1.at][i2].present /\ m3.tables[m1.at][i2].address = m2.at
        <5>1. m1.at \in DOMAIN m2.tables
          BY <2>1, <2>3 DEF Grown, Keeps
        <5> QED
          BY <1>2, <3>1, <3>3, <5>1 DEF Grown, Keeps
      <4>3. m3.tables[m.root][i1].present /\ m3.tables[m.root][i1].address = m1.at
        <5>1. m.root \in DOMAIN m1.tables
          BY <1>3, <1>4 DEF Grown, Keeps
        <5> QED
          BY <1>2, <2>1, <3>4, <5>1 DEF Grown, Keeps
      <4>4. /\ Second(m3.tables, m.root, ix) = m1.at
            /\ Third(m3.tables, m.root, ix) = m2.at
            /\ Fourth(m3.tables, m.root, ix) = m3.at
        BY <4>1, <4>2, <4>3 DEF Second, Third, Fourth, i1, i2, i3
      <4>5. Arrives(m3.tables, m.root, ix)
        BY <4>1, <4>2, <4>3, <4>4 DEF Arrives, i1, i2, i3
      <4> QED
        BY <1>1, <3>3, <3>4, <4>1, <4>4, <4>5
    <3> QED
      BY <3>5, <3>6
  <2> QED
    BY <2>5, <2>6
<1> QED
  BY <1>6, <1>7

(* What a successful map does to the leaves.                                *)
MapsOne(m, r, va, pa, w, u) ==
    /\ MapAllowed(va, pa)
    /\ ~Leaf(m.tables, m.root, indexes(va)).present
    /\ Leaf(r.tables, m.root, indexes(va)) = make_entry(pa, w, u)
    /\ \A jx \in Indexes \ {indexes(va)} : Leaf(r.tables, m.root, jx) = Leaf(m.tables, m.root, jx)

Mapped(m, r, H, S, va, pa, w, u) ==
    /\ r.root = m.root /\ Own(r, H, S)
    /\ \E lev2 : Good(r, lev2)
    /\ IF r.ok THEN MapsOne(m, r, va, pa, w, u) ELSE SameLeaves(m.tables, r.tables, m.root)

(* map adds the page and nothing else, or fails and changes no mapping; the *)
(* tables it has made by then stay, and are tables.                         *)
LEMMA Map ==
    ASSUME NEW m, NEW lev, Good(m, lev), NEW H, NEW S \in SUBSET Nat, Own(m, H, S), m.ok,
           NEW va \in Nat, NEW pa \in Nat, NEW w \in BOOLEAN, NEW u \in BOOLEAN
    PROVE  Mapped(m, map(m, va, pa, w, u), H, S, va, pa, w, u)
<1> DEFINE r == map(m, va, pa, w, u)
           ix == indexes(va)
           x == Walked(m, ix, w, u)
           i4 == ix[4]
           e == make_entry(pa, w, u)
           root == m.root
<1>1. ix \in Indexes /\ i4 \in Index
  BY IndexDigits DEF Indexes
<1>2. r = IF ~MapAllowed(va, pa) THEN [m EXCEPT !.ok = FALSE]
          ELSE IF ~x.ok THEN x
          ELSE IF x.tables[x.at][i4].present THEN [x EXCEPT !.ok = FALSE]
          ELSE put(x, x.at, i4, e)
  BY DEF map, Walked
<1>3. e \in Entry /\ e.present
  BY DEF make_entry, Entry
<1> HIDE DEF r, ix, e, i4
<1>4. PICK lev2 :
        /\ Good(x, lev2) /\ Own(x, H, S) /\ Grown(m, lev, x, lev2)
        /\ x.ok => /\ Arrives(x.tables, root, ix) /\ Fourth(x.tables, root, ix) = x.at
                   /\ Permits(x.tables, lev2, x.at, w, u)
  BY <1>1, WalkCreates
<1> HIDE DEF x
<1>5. x.root = root /\ SameLeaves(m.tables, x.tables, root)
  BY <1>4 DEF Grown
<1>6. CASE ~MapAllowed(va, pa)
  <2>1. Fields(m, m.pmm, m.tables, m.root, m.at, m.ok)
    BY DEF Good, Fields
  <2>2. Fields(r, m.pmm, m.tables, m.root, m.at, FALSE)
    <3>1. r = [m EXCEPT !.ok = FALSE]
      BY <1>2, <1>6
    <3> QED
      BY <2>1, <3>1, FieldsOk, Zenon
  <2>3. IsMem(r) /\ r.pmm = m.pmm /\ r.tables = m.tables /\ r.root = m.root /\ ~r.ok
    BY <2>2, Zenon DEF Fields
  <2> QED
    BY <2>3, SameMem DEF Grown, Mapped, r
<1>7. CASE MapAllowed(va, pa) /\ ~x.ok
  <2>1. r = x
    BY <1>2, <1>7
  <2> QED
    BY <1>4, <1>5, <1>7, <2>1 DEF Mapped, r
<1>8. CASE MapAllowed(va, pa) /\ x.ok /\ x.tables[x.at][i4].present
  <2>1. Fields(x, x.pmm, x.tables, x.root, x.at, x.ok)
    BY <1>4 DEF Good, Fields
  <2>2. Fields(r, x.pmm, x.tables, x.root, x.at, FALSE)
    <3>1. r = [x EXCEPT !.ok = FALSE]
      BY <1>2, <1>8
    <3> QED
      BY <2>1, <3>1, FieldsOk, Zenon
  <2>3. IsMem(r) /\ r.pmm = x.pmm /\ r.tables = x.tables /\ r.root = x.root /\ ~r.ok
    BY <2>2, Zenon DEF Fields
  <2>4. Good(r, lev2) /\ Own(r, H, S)
    BY <1>4, <2>3, SameMem
  <2> QED
    BY <1>5, <2>3, <2>4 DEF Mapped, r
<1>9. CASE MapAllowed(va, pa) /\ x.ok /\ ~x.tables[x.at][i4].present
  <2> DEFINE T == x.tables
             t == x.at
             T2 == [T EXCEPT ![t][i4] = e]
  <2>1. Fields(x, x.pmm, T, root, t, x.ok)
    BY <1>4, <1>5 DEF Good, Fields
  <2>2. Fields(r, x.pmm, T2, root, t, x.ok)
    <3>1. r = put(x, t, i4, e)
      BY <1>2, <1>9
    <3> HIDE DEF T, t
    <3> QED
      BY <2>1, <3>1, FieldsPut, Zenon
  <2>3. IsMem(r) /\ r.pmm = x.pmm /\ r.tables = T2 /\ r.root = root /\ r.ok
    BY <1>9, <2>2, Zenon DEF Fields
  <2>4. /\ Tree(T, root, lev2) /\ Rights(T, lev2) /\ IsTables(T)
        /\ Arrives(T, root, ix) /\ Fourth(T, root, ix) = t /\ Permits(T, lev2, t, w, u)
        /\ ~T[t][i4].present
    BY <1>4, <1>5, <1>9 DEF Good, Tree
  <2> HIDE DEF T, t
  <2>5. t \in DOMAIN T /\ lev2[t] = 4
    BY <1>1, <2>4, WalkLevels
  <2>6. Sets(T, T2, t, i4, e)
    BY <1>1, <1>3, <2>4, <2>5, EntrySet
  <2> HIDE DEF T2
  <2>7. \A s, j, v : Above(T2, lev2, s, j, v) <=> Above(T, lev2, s, j, v)
    <3>1. ~(lev2[t] < 4)
      BY <2>5
    <3> QED
      BY <1>1, <1>3, <2>5, <2>6, <3>1, AboveSame
  <2>8. Tree(T2, root, lev2)
    BY <2>4, <2>6, <2>7, TreeKept DEF Sets
  <2>9. Rights(T2, lev2)
    <3>1. ~(lev2[t] < 4)
      BY <2>5
    <3>2. Permits(T, lev2, t, e.writable, e.user)
      BY <2>4 DEF e, make_entry
    <3> QED
      BY <1>1, <1>3, <2>4, <2>5, <2>6, <2>7, <3>1, <3>2, RightsSet
  <2>10. /\ Leaf(T2, root, ix) = e
         /\ \A jx \in Indexes \ {ix} : Leaf(T2, root, jx) = Leaf(T, root, jx)
    <3>1. Sets(T, T2, Fourth(T, root, ix), ix[4], e)
      BY <2>4, <2>6 DEF i4
    <3> QED
      BY <1>1, <1>3, <2>4, <3>1, LeafSet
  <2>11. ~Leaf(T, root, ix).present
    BY <2>4 DEF Leaf, NotPresent, i4
  <2>12. Good(r, lev2)
    BY <1>4, <2>3, <2>8, <2>9 DEF Good
  <2>13. \A jx \in Indexes : Leaf(T, root, jx) = Leaf(m.tables, root, jx)
    BY <1>5 DEF SameLeaves, T
  <2>14. MapsOne(m, r, va, pa, w, u)
    BY <1>1, <1>9, <2>3, <2>10, <2>11, <2>13 DEF MapsOne, ix, e
  <2>15. Own(r, H, S)
    <3>1. ASSUME NEW n \in S PROVE HeapLeaf(r, n) = HeapLeaf(x, n)
      <4> DEFINE jx == indexes(heap_page(n))
      <4>1. jx \in Indexes
        BY HeapPageNat, IndexDigits
      <4>2. HeapLeaf(x, n) = Leaf(T, root, jx) /\ HeapLeaf(r, n) = Leaf(T2, root, jx)
        BY <1>5, <2>3 DEF HeapLeaf, T
      <4>3. HeapLeaf(x, n).present
        BY <1>4 DEF Own
      <4> HIDE DEF jx
      <4>4. jx # ix
        BY <2>11, <4>2, <4>3
      <4> QED
        BY <2>10, <4>1, <4>2, <4>4
    <3>2. r.pmm.allocated = x.pmm.allocated /\ DOMAIN r.tables = DOMAIN x.tables
      BY <2>3, <2>6 DEF Sets, T
    <3> QED
      BY <1>4, <3>1, <3>2, OwnSame
  <2> QED
    BY <2>3, <2>12, <2>14, <2>15 DEF Mapped, r
<1> QED
  BY <1>6, <1>7, <1>8, <1>9

-----------------------------------------------------------------------------
(* The loops.  Each is a function that was chosen; there is one to choose.  *)

(* A set of natural numbers that is not empty has a least one.              *)
LEMMA Least ==
    ASSUME NEW B \in SUBSET Nat, NEW b \in B
    PROVE  \E k \in B : \A n \in B : k <= n
<1>1. PICK k \in B : \A n \in B : ~(<<n, k>> \in OpToRel(<, Nat))
  BY WFMin, NatLessThanWellFounded
<1>2. \A n \in B : ~(n < k)
  BY <1>1 DEF OpToRel
<1> QED
  BY <1>2

(* Turn n of identity_map, of rollback and of heap_map.                     *)
IdentityStep(x, n, start, w) ==
    IF x.ok THEN map(x, start + (n - 1) * PAGE_SIZE, start + (n - 1) * PAGE_SIZE, w, FALSE) ELSE x

UndoStep(x, n) ==
    IF unmaps(x.tables, heap_page(n - 1))
    THEN [unmap(x, heap_page(n - 1)) EXCEPT
            !.pmm = freed(@, walk(x.tables, heap_page(n - 1))[4].address)]
    ELSE x

HeapStep(x, n) == IF x.ok THEN heap_map_next(x, n - 1) ELSE x

(* Turn n of a loop that maps a range for user mode; w is where it is.      *)
UserStep(x, n, start, w) ==
    IF x.ok THEN map(x, start + (n - 1) * PAGE_SIZE, w + (n - 1) * PAGE_SIZE, TRUE, TRUE) ELSE x

LoopStep(loop, x, n, start, w) ==
    IF loop = "identity_map" THEN IdentityStep(x, n, start, w)
    ELSE IF loop = "rollback" THEN UndoStep(x, n)
    ELSE IF loop = "user" THEN UserStep(x, n, start, w)
    ELSE HeapStep(x, n)

Loops(loop, f, k, m, start, w) ==
    f = [n \in 0 .. k |-> IF n = 0 THEN m ELSE LoopStep(loop, f[n - 1], n, start, w)]

LEMMA LoopExists ==
    ASSUME NEW loop, NEW m, NEW start, NEW w, NEW k \in Nat
    PROVE  \E f : Loops(loop, f, k, m, start, w)
<1> DEFINE Loop(f, c) == f = [n \in 0 .. c |-> IF n = 0 THEN m
                                               ELSE LoopStep(loop, f[n - 1], n, start, w)]
           B == {n \in Nat : ~ \E f : Loop(f, n)}
<1> SUFFICES ASSUME k \in B PROVE FALSE
  BY DEF Loops
<1>1. PICK c \in B : \A n \in B : c <= n
  BY Least
<1>2. c # 0
  <2>1. Loop([n \in 0 .. 0 |-> m], 0)
    OBVIOUS
  <2> QED
    BY <1>1, <2>1
<1>3. c \in Nat /\ c - 1 \in Nat /\ c - 1 \notin B
  <2>1. c \in Nat
    OBVIOUS
  <2> HIDE DEF B
  <2> QED
    BY <1>1, <1>2, <2>1
<1>4. PICK g : Loop(g, c - 1)
  BY <1>3
<1> DEFINE h == [n \in 0 .. c |-> IF n = c THEN LoopStep(loop, g[c - 1], c, start, w) ELSE g[n]]
<1>5. \A n \in 0 .. c - 1 : h[n] = g[n] /\ n # c
  BY <1>3
<1>6. \A n \in 0 .. c - 1 : g[n] = IF n = 0 THEN m ELSE LoopStep(loop, g[n - 1], n, start, w)
  BY <1>4
<1>7. h[c] = LoopStep(loop, g[c - 1], c, start, w)
  BY <1>3
<1>8. \A n \in 0 .. c : h[n] = IF n = 0 THEN m ELSE LoopStep(loop, h[n - 1], n, start, w)
  <2> HIDE DEF h, B
  <2> TAKE n \in 0 .. c
  <2>1. CASE n = c
    <3>1. c - 1 \in 0 .. c - 1
      BY <1>3
    <3> QED
      BY <1>2, <1>5, <1>7, <2>1, <3>1
  <2>2. CASE n # c /\ n # 0
    <3>1. n \in 0 .. c - 1 /\ n - 1 \in 0 .. c - 1
      BY <1>3, <2>2
    <3> QED
      BY <1>5, <1>6, <2>2, <3>1
  <2>3. CASE n # c /\ n = 0
    <3>1. n \in 0 .. c - 1
      BY <1>3, <2>3
    <3> QED
      BY <1>5, <1>6, <2>3, <3>1
  <2> QED
    BY <2>1, <2>2, <2>3
<1>9. Loop(h, c)
  <2>1. DOMAIN h = 0 .. c /\ h = [n \in 0 .. c |-> h[n]]
    OBVIOUS
  <2> HIDE DEF h, B
  <2> QED
    BY <1>8, <2>1
<1> QED
  BY <1>1, <1>9

(* So each loop goes through a sequence of memories.                        *)
LEMMA IdentityLoop ==
    ASSUME NEW m, NEW start, NEW end, NEW w, NEW last \in Nat, last = (end - start) \div PAGE_SIZE
    PROVE  \E f : /\ identity_map(m, start, end, w) = f[last] /\ f[0] = m
                  /\ \A n \in 1 .. last : f[n] = IdentityStep(f[n - 1], n, start, w)
<1> DEFINE Loop(f) == f = [n \in 0 .. last |-> IF n = 0 THEN m ELSE IdentityStep(f[n - 1], n, start, w)]
           f == CHOOSE x : Loop(x)
<1>1. identity_map(m, start, end, w) = f[last]
  BY DEF identity_map, IdentityStep
<1>2. \E x : Loop(x)
  <2>1. PICK g : Loops("identity_map", g, last, m, start, w)
    BY LoopExists
  <2>2. \A x, n : LoopStep("identity_map", x, n, start, w) = IdentityStep(x, n, start, w)
    BY DEF LoopStep
  <2> QED
    BY <2>1, <2>2 DEF Loops
<1>3. Loop(f)
  BY <1>2
<1> HIDE DEF f
<1>4. f[0] = m /\ \A n \in 1 .. last : f[n] = IdentityStep(f[n - 1], n, start, w)
  BY <1>3
<1> QED
  BY <1>1, <1>4

LEMMA UndoLoop ==
    ASSUME NEW m, NEW pages \in Nat
    PROVE  \E f : /\ rollback(m, pages) = f[pages] /\ f[0] = m
                  /\ \A n \in 1 .. pages : f[n] = UndoStep(f[n - 1], n)
<1> DEFINE Loop(f) == f = [n \in 0 .. pages |-> IF n = 0 THEN m ELSE UndoStep(f[n - 1], n)]
           f == CHOOSE x : Loop(x)
<1>1. rollback(m, pages) = f[pages]
  BY DEF rollback, UndoStep
<1>2. \E x : Loop(x)
  <2>1. PICK g : Loops("rollback", g, pages, m, 0, 0)
    BY LoopExists
  <2>2. \A x, n : LoopStep("rollback", x, n, 0, 0) = UndoStep(x, n)
    BY DEF LoopStep
  <2> QED
    BY <2>1, <2>2 DEF Loops
<1>3. Loop(f)
  BY <1>2
<1> HIDE DEF f
<1>4. f[0] = m /\ \A n \in 1 .. pages : f[n] = UndoStep(f[n - 1], n)
  BY <1>3
<1> QED
  BY <1>1, <1>4

LEMMA HeapLoop ==
    ASSUME NEW m, NEW pages \in Nat
    PROVE  \E f : /\ heap_map(m, pages) = f[pages] /\ f[0] = m
                  /\ \A n \in 1 .. pages : f[n] = HeapStep(f[n - 1], n)
<1> DEFINE Loop(f) == f = [n \in 0 .. pages |-> IF n = 0 THEN m ELSE HeapStep(f[n - 1], n)]
           f == CHOOSE x : Loop(x)
<1>1. heap_map(m, pages) = f[pages]
  BY DEF heap_map, HeapStep
<1>2. \E x : Loop(x)
  <2>1. PICK g : Loops("heap_map", g, pages, m, 0, 0)
    BY LoopExists
  <2>2. \A x, n : LoopStep("heap_map", x, n, 0, 0) = HeapStep(x, n)
    BY DEF LoopStep
  <2> QED
    BY <2>1, <2>2 DEF Loops
<1>3. Loop(f)
  BY <1>2
<1> HIDE DEF f
<1>4. f[0] = m /\ \A n \in 1 .. pages : f[n] = HeapStep(f[n - 1], n)
  BY <1>3
<1> QED
  BY <1>1, <1>4

-----------------------------------------------------------------------------
(* Walks as the code writes them, and unmap.                                *)

LEMMA WalkIs ==
    ASSUME NEW T, NEW lev, Tree(T, pml4_phys, lev), NEW va \in Nat
    PROVE  LET ix == indexes(va)
           IN  /\ IsMapped(T, va) <=> Leaf(T, pml4_phys, ix).present
               /\ IsMapped(T, va) =>
                    /\ Arrives(T, pml4_phys, ix)
                    /\ walk(T, va)[3].address = Fourth(T, pml4_phys, ix)
                    /\ walk(T, va)[4] = Leaf(T, pml4_phys, ix)
<1> DEFINE ix == indexes(va)
           c == pml4_phys
           e1 == T[c][ix[1]]
           e2 == T[Second(T, c, ix)][ix[2]]
           e3 == T[Third(T, c, ix)][ix[3]]
           e4 == T[Fourth(T, c, ix)][ix[4]]
<1>1. walk(T, va) = IF ~e1.present THEN <<e1>>
                    ELSE IF ~e2.present THEN <<e1, e2>>
                    ELSE IF ~e3.present THEN <<e1, e2, e3>>
                    ELSE <<e1, e2, e3, e4>>
  BY DEF walk, Second, Third, Fourth
<1>2. Arrives(T, c, ix) <=> e1.present /\ e2.present /\ e3.present
  BY DEF Arrives
<1>3. Leaf(T, c, ix) = IF Arrives(T, c, ix) /\ e4.present THEN e4 ELSE NotPresent
  BY DEF Leaf
<1>4. e3.address = Fourth(T, c, ix)
  BY DEF Fourth
<1>5. ~NotPresent.present
  BY DEF NotPresent
<1> HIDE DEF ix, e1, e2, e3, e4
<1>6. CASE Arrives(T, c, ix)
  <2>1. walk(T, va) = <<e1, e2, e3, e4>>
    BY <1>1, <1>2, <1>6
  <2>2. Len(walk(T, va)) = 4 /\ walk(T, va)[3] = e3 /\ walk(T, va)[4] = e4
    BY <2>1
  <2>3. IsMapped(T, va) <=> e4.present
    BY <2>2 DEF IsMapped, Reaches
  <2> QED
    BY <1>3, <1>4, <1>5, <1>6, <2>2, <2>3 DEF ix
<1>7. CASE ~Arrives(T, c, ix)
  <2>1. walk(T, va) \in {<<e1>>, <<e1, e2>>, <<e1, e2, e3>>}
    BY <1>1, <1>2, <1>7
  <2>2. Len(walk(T, va)) # 4
    BY <2>1
  <2>3. ~IsMapped(T, va)
    BY <2>2 DEF IsMapped, Reaches
  <2> QED
    BY <1>3, <1>5, <1>7, <2>3 DEF ix
<1> QED
  BY <1>6, <1>7

(* A page that is not mapped has no leaf.                                   *)
LEMMA NoLeaf ==
    ASSUME NEW T, NEW root, NEW ix, ~Leaf(T, root, ix).present
    PROVE  Leaf(T, root, ix) = NotPresent
  BY DEF Leaf

(* unmap takes away one leaf.                                               *)
LEMMA Unmap ==
    ASSUME NEW m, NEW lev, Good(m, lev), m.root = pml4_phys, NEW va \in Nat,
           Leaf(m.tables, m.root, indexes(va)).present
    PROVE  LET r == unmap(m, va)
               ix == indexes(va)
           IN  /\ Good(r, lev) /\ r.root = m.root /\ r.pmm = m.pmm /\ r.ok = m.ok
               /\ DOMAIN r.tables = DOMAIN m.tables
               /\ Arrives(r.tables, m.root, ix) /\ Leaf(r.tables, m.root, ix) = NotPresent
               /\ \A jx \in Indexes \ {ix} : Leaf(r.tables, m.root, jx) = Leaf(m.tables, m.root, jx)
<1> DEFINE r == unmap(m, va)
           ix == indexes(va)
           T == m.tables
           root == m.root
           t == Fourth(T, root, ix)
           i4 == ix[4]
           e == NotPresent
           T2 == [T EXCEPT ![t][i4] = e]
<1>1. ix \in Indexes /\ i4 \in Index
  BY IndexDigits DEF Indexes
<1>2. Tree(T, root, lev) /\ Rights(T, lev) /\ IsTables(T)
  BY DEF Good, Tree
<1>3. Arrives(T, root, ix) /\ walk(T, va)[3].address = t
  <2>1. Tree(T, pml4_phys, lev) /\ Leaf(T, pml4_phys, ix).present
    BY <1>2
  <2>2. IsMapped(T, va)
    BY <2>1, WalkIs
  <2> QED
    BY <2>1, <2>2, WalkIs
<1>4. e \in Entry /\ ~e.present
  BY DEF NotPresent, Entry
<1>5. r = put(m, t, i4, e)
  BY <1>3 DEF unmap
<1> HIDE DEF r, ix, t, i4, e
<1>6. Fields(r, m.pmm, T2, root, m.at, m.ok)
  <2>1. Fields(m, m.pmm, T, root, m.at, m.ok)
    BY DEF Good, Fields
  <2> HIDE DEF T, root
  <2> QED
    BY <1>5, <2>1, FieldsPut, Zenon
<1>7. IsMem(r) /\ r.pmm = m.pmm /\ r.tables = T2 /\ r.root = root /\ r.ok = m.ok
  BY <1>6, Zenon DEF Fields
<1> HIDE DEF T, root
<1>8. t \in DOMAIN T /\ lev[t] = 4
  BY <1>1, <1>2, <1>3, WalkLevels DEF t
<1>9. Sets(T, T2, t, i4, e)
  BY <1>1, <1>2, <1>4, <1>8, EntrySet
<1> HIDE DEF T2
<1>10. ~(lev[t] < 4)
  BY <1>8
<1>11. \A s, j, v : Above(T2, lev, s, j, v) <=> Above(T, lev, s, j, v)
  BY <1>1, <1>4, <1>8, <1>9, <1>10, AboveSame
<1>12. Tree(T2, root, lev)
  BY <1>2, <1>9, <1>11, TreeKept DEF Sets
<1>13. Rights(T2, lev)
  BY <1>1, <1>2, <1>4, <1>8, <1>9, <1>10, <1>11, RightsSet
<1>14. /\ Arrives(T2, root, ix) /\ Leaf(T2, root, ix) = e
       /\ \A jx \in Indexes \ {ix} : Leaf(T2, root, jx) = Leaf(T, root, jx)
  <2>1. Sets(T, T2, Fourth(T, root, ix), ix[4], e)
    BY <1>9 DEF t, i4
  <2> QED
    BY <1>1, <1>2, <1>3, <1>4, <2>1, LeafSet DEF e
<1>15. Good(r, lev)
  <2>1. PmmOK(r.pmm)
    BY <1>7 DEF Good
  <2> QED
    BY <1>7, <1>12, <1>13, <2>1 DEF Good
<1>16. DOMAIN r.tables = DOMAIN T
  BY <1>7, <1>9 DEF Sets
<1> QED
  BY <1>7, <1>14, <1>15, <1>16 DEF r, ix, T, root, e

-----------------------------------------------------------------------------
(* identity_map.                                                            *)

Page(start, i) == start + i * PAGE_SIZE

(* The first k pages of the range are mapped and nothing else has changed.  *)
IdentityDone(m, x, start, w, k) ==
    /\ \A i \in 0 .. k - 1 :
         LET ix == indexes(Page(start, i)) IN
           /\ MapAllowed(Page(start, i), Page(start, i))
           /\ ~Leaf(m.tables, m.root, ix).present
           /\ Leaf(x.tables, m.root, ix) = make_entry(Page(start, i), w, FALSE)
    /\ \A jx \in Indexes :
         (\A i \in 0 .. k - 1 : indexes(Page(start, i)) # jx) =>
           Leaf(x.tables, m.root, jx) = Leaf(m.tables, m.root, jx)

LEMMA PageNat ==
    ASSUME NEW start \in Nat, NEW i \in Nat
    PROVE  Page(start, i) \in Nat
<1>1. FRAME_SIZE \in Nat
  BY FrameAssumption
<1>2. i * FRAME_SIZE \in Nat
  BY <1>1
<1> QED
  BY <1>2 DEF Page, PAGE_SIZE

LEMMA IdentityNext ==
    ASSUME NEW m, NEW x, NEW start \in Nat, NEW w \in BOOLEAN, NEW k \in Nat,
           IdentityDone(m, x, start, w, k), x.root = m.root, NEW r,
           MapsOne(x, r, Page(start, k), Page(start, k), w, FALSE)
    PROVE  IdentityDone(m, r, start, w, k + 1)
<1> DEFINE va == Page(start, k)
           ix == indexes(va)
<1>1. ix \in Indexes
  BY PageNat, IndexDigits
<1>2. /\ MapAllowed(va, va) /\ ~Leaf(x.tables, m.root, ix).present
      /\ Leaf(r.tables, m.root, ix) = make_entry(va, w, FALSE)
      /\ \A jx \in Indexes \ {ix} : Leaf(r.tables, m.root, jx) = Leaf(x.tables, m.root, jx)
  BY DEF MapsOne
<1> HIDE DEF va, ix
<1>3. \A i \in 0 .. k - 1 : indexes(Page(start, i)) # ix
  <2> TAKE i \in 0 .. k - 1
  <2>1. Leaf(x.tables, m.root, indexes(Page(start, i))).present
    <3>1. Leaf(x.tables, m.root, indexes(Page(start, i))) = make_entry(Page(start, i), w, FALSE)
      BY DEF IdentityDone
    <3> QED
      BY <3>1 DEF make_entry
  <2> QED
    BY <1>2, <2>1
<1>4. Leaf(x.tables, m.root, ix) = Leaf(m.tables, m.root, ix)
  BY <1>1, <1>3 DEF IdentityDone
<1>5. 0 .. (k + 1) - 1 = 0 .. k - 1 \cup {k}
  OBVIOUS
<1>6. ASSUME NEW i \in 0 .. k
      PROVE  LET jx == indexes(Page(start, i)) IN
               /\ MapAllowed(Page(start, i), Page(start, i))
               /\ ~Leaf(m.tables, m.root, jx).present
               /\ Leaf(r.tables, m.root, jx) = make_entry(Page(start, i), w, FALSE)
  <2>1. CASE i = k
    <3>1. Page(start, i) = va /\ indexes(Page(start, i)) = ix
      BY <2>1 DEF va, ix
    <3> QED
      BY <1>2, <1>4, <3>1
  <2>2. CASE i # k
    <3>1. i \in 0 .. k - 1 /\ i \in Nat
      BY <2>2
    <3>2. indexes(Page(start, i)) \in Indexes \ {ix}
      BY <1>3, <3>1, PageNat, IndexDigits
    <3> QED
      BY <1>2, <3>1, <3>2 DEF IdentityDone
  <2> QED
    BY <2>1, <2>2
<1>7. ASSUME NEW jx \in Indexes, \A i \in 0 .. k : indexes(Page(start, i)) # jx
      PROVE  Leaf(r.tables, m.root, jx) = Leaf(m.tables, m.root, jx)
  <2>1. jx # ix /\ \A i \in 0 .. k - 1 : indexes(Page(start, i)) # jx
    BY <1>7 DEF ix, va
  <2> QED
    BY <1>2, <2>1 DEF IdentityDone
<1>8. (k + 1) - 1 = k
  OBVIOUS
<1> QED
  BY <1>6, <1>7, <1>8 DEF IdentityDone

LEMMA IdentityMaps ==
    ASSUME NEW m, NEW lev, Good(m, lev), NEW H, NEW S \in SUBSET Nat, Own(m, H, S), m.ok,
           NEW start \in Nat, NEW end \in Nat, start < end, NEW w \in BOOLEAN
    PROVE  LET r == identity_map(m, start, end, w)
           IN  /\ r.root = m.root /\ Own(r, H, S)
               /\ \E lev2 : Good(r, lev2)
               /\ \E k \in 0 .. (end - start) \div PAGE_SIZE :
                    /\ IdentityDone(m, r, start, w, k)
                    /\ r.ok <=> k = (end - start) \div PAGE_SIZE
<1> DEFINE last == (end - start) \div PAGE_SIZE
<1>1. last \in Nat
  BY FrameAssumption, DivMod DEF PAGE_SIZE
<1>2. last = (end - start) \div PAGE_SIZE
  OBVIOUS
<1> HIDE DEF last
<1>3. PICK f : /\ identity_map(m, start, end, w) = f[last] /\ f[0] = m
               /\ \A n \in 1 .. last : f[n] = IdentityStep(f[n - 1], n, start, w)
  BY <1>1, <1>2, IdentityLoop
<1> DEFINE Fine(n) == /\ f[n].root = m.root /\ Own(f[n], H, S)
                      /\ \E lev2 : Good(f[n], lev2)
                      /\ \E k \in 0 .. n : IdentityDone(m, f[n], start, w, k) /\ (f[n].ok <=> k = n)
           B == {n \in 0 .. last : ~Fine(n)}
<1>4. Fine(0)
  <2>1. IdentityDone(m, m, start, w, 0)
    BY DEF IdentityDone
  <2> QED
    BY <1>3, <2>1
<1>5. ASSUME NEW n \in 1 .. last, Fine(n - 1) PROVE Fine(n)
  <2> DEFINE x == f[n - 1]
             r == f[n]
             i == n - 1
  <2>1. PICK k \in 0 .. i : IdentityDone(m, x, start, w, k) /\ (x.ok <=> k = i)
    BY <1>5
  <2>2. PICK lev2 : Good(x, lev2)
    BY <1>5
  <2>3. x.root = m.root /\ Own(x, H, S) /\ i \in Nat /\ n \in Nat /\ n = i + 1
    BY <1>5
  <2>4. r = IdentityStep(x, n, start, w)
    BY <1>3
  <2> SUFFICES /\ r.root = m.root /\ Own(r, H, S)
               /\ \E lev3 : Good(r, lev3)
               /\ \E c \in 0 .. n : IdentityDone(m, r, start, w, c) /\ (r.ok <=> c = n)
    OBVIOUS
  <2> HIDE DEF x, r, i, Fine
  <2>5. CASE ~x.ok
    <3>1. r = x /\ k \in 0 .. n /\ k # n
      BY <2>3, <2>4, <2>5 DEF IdentityStep
    <3> QED
      BY <2>1, <2>2, <2>3, <2>5, <3>1
  <2>6. CASE x.ok
    <3>1. r = map(x, Page(start, i), Page(start, i), w, FALSE)
      BY <2>4, <2>6 DEF IdentityStep, Page, i
    <3>2. Page(start, i) \in Nat
      BY <2>3, PageNat
    <3>3. Mapped(x, r, H, S, Page(start, i), Page(start, i), w, FALSE)
      <4>1. FALSE \in BOOLEAN
        OBVIOUS
      <4> QED
        BY <2>2, <2>3, <2>6, <3>1, <3>2, <4>1, Map, Zenon
    <3>4. k = i
      BY <2>1, <2>6
    <3>5. CASE r.ok
      <4>1. IdentityDone(m, r, start, w, i + 1)
        BY <2>1, <2>3, <3>3, <3>4, <3>5, IdentityNext DEF Mapped
      <4>2. n \in 0 .. n
        BY <2>3
      <4> QED
        BY <2>3, <3>3, <3>5, <4>1, <4>2 DEF Mapped
    <3>6. CASE ~r.ok
      <4>1. SameLeaves(x.tables, r.tables, m.root)
        BY <2>3, <3>3, <3>6 DEF Mapped
      <4>2. IdentityDone(m, r, start, w, i)
        <5>1. \A jx \in Indexes : Leaf(r.tables, m.root, jx) = Leaf(x.tables, m.root, jx)
          BY <4>1 DEF SameLeaves
        <5>2. \A j \in 0 .. i - 1 : indexes(Page(start, j)) \in Indexes
          BY <2>3, PageNat, IndexDigits
        <5> QED
          BY <2>1, <3>4, <5>1, <5>2 DEF IdentityDone
      <4>3. i \in 0 .. n /\ i # n
        BY <2>3
      <4> QED
        BY <2>3, <3>3, <3>6, <4>2, <4>3 DEF Mapped
    <3> QED
      BY <3>5, <3>6
  <2> QED
    BY <2>5, <2>6
<1>6. Fine(last)
  <2> HIDE DEF Fine
  <2> SUFFICES ASSUME last \in B PROVE FALSE
    BY <1>1
  <2>1. B \in SUBSET Nat
    OBVIOUS
  <2>2. PICK c \in B : \A n \in B : c <= n
    BY <2>1, Least
  <2>3. c # 0 /\ c \in 0 .. last /\ ~Fine(c)
    BY <1>4, <2>2
  <2>4. c \in 1 .. last /\ c - 1 \in 0 .. last /\ c - 1 < c
    BY <1>1, <2>3
  <2>5. c - 1 \notin B
    <3> HIDE DEF B
    <3> QED
      BY <2>2, <2>4
  <2> QED
    BY <1>5, <2>3, <2>4, <2>5
<1> QED
  BY <1>1, <1>2, <1>3, <1>6

-----------------------------------------------------------------------------
(* The heap's pages: mapped one by one, and all unmapped again when one of  *)
(* them cannot be.  m is the memory before.                                 *)

HeapDone(m, x, I) ==
    /\ \A i \in I :
         LET ix == indexes(heap_page(i)) IN
           /\ is_canonical(heap_page(i)) /\ heap_page(i) % PAGE_SIZE = 0
           /\ ~Leaf(m.tables, m.root, ix).present
           /\ Leaf(x.tables, m.root, ix).present
           /\ Leaf(x.tables, m.root, ix).writable /\ ~Leaf(x.tables, m.root, ix).user
    /\ \A jx \in Indexes :
         (\A i \in I : indexes(heap_page(i)) # jx) =>
           Leaf(x.tables, m.root, jx) = Leaf(m.tables, m.root, jx)

(* One turn of rollback.                                                    *)
LEMMA UndoOne ==
    ASSUME NEW m, m.root = pml4_phys, NEW x, NEW lev, Good(x, lev), x.root = m.root,
           NEW H, NEW I \in SUBSET Nat, Own(x, H, I), HeapDone(m, x, I), NEW i \in I
    PROVE  LET r == UndoStep(x, i + 1)
           IN  /\ Good(r, lev) /\ r.root = m.root /\ r.ok = x.ok
               /\ Own(r, H, I \ {i}) /\ HeapDone(m, r, I \ {i})
<1> DEFINE r == UndoStep(x, i + 1)
           va == heap_page(i)
           ix == indexes(va)
           y == unmap(x, va)
           a == Leaf(x.tables, m.root, ix).address
           p == freed(x.pmm, a)
<1>1. va \in Nat /\ ix \in Indexes
  BY HeapPageNat, IndexDigits
<1>2. /\ is_canonical(va) /\ va % PAGE_SIZE = 0 /\ ~Leaf(m.tables, m.root, ix).present
      /\ Leaf(x.tables, m.root, ix).present
  BY DEF HeapDone
<1>3. IsMapped(x.tables, va) /\ walk(x.tables, va)[4].address = a
  <2>1. Tree(x.tables, pml4_phys, lev) /\ Leaf(x.tables, pml4_phys, ix).present
    BY <1>2 DEF Good
  <2>2. IsMapped(x.tables, va)
    BY <1>1, <2>1, WalkIs
  <2> QED
    BY <1>1, <2>1, <2>2, WalkIs
<1>4. /\ Good(y, lev) /\ y.root = m.root /\ y.pmm = x.pmm /\ y.ok = x.ok
      /\ DOMAIN y.tables = DOMAIN x.tables
      /\ Leaf(y.tables, m.root, ix) = NotPresent
      /\ \A jx \in Indexes \ {ix} : Leaf(y.tables, m.root, jx) = Leaf(x.tables, m.root, jx)
  BY <1>1, <1>2, Unmap
<1>5. r = [y EXCEPT !.pmm = p]
  <2>1. (i + 1) - 1 = i
    OBVIOUS
  <2>2. unmaps(x.tables, va)
    BY <1>2, <1>3 DEF unmaps
  <2>3. r = [y EXCEPT !.pmm = freed(y.pmm, a)]
    BY <1>3, <2>1, <2>2 DEF UndoStep
  <2> QED
    BY <1>4, <2>3
<1> HIDE DEF r, va, ix, y, p
<1>6. FrameAt(a, x.pmm.allocated)
  BY DEF Own, HeapLeaf, FrameAt, ix, va
<1>7. PmmOK(p) /\ p.allocated = x.pmm.allocated \ {a \div FRAME_SIZE}
  BY <1>6, GiveBack DEF Good, p
<1>8. Fields(r, p, y.tables, m.root, y.at, x.ok)
  <2>1. Fields(y, y.pmm, y.tables, m.root, y.at, x.ok)
    BY <1>4, Zenon DEF Good, Fields
  <2> QED
    BY <1>5, <2>1, FieldsPmm, Zenon
<1>9. IsMem(r) /\ r.pmm = p /\ r.tables = y.tables /\ r.root = m.root /\ r.ok = x.ok
  BY <1>8, Zenon DEF Fields
<1>10. Good(r, lev)
  BY <1>4, <1>7, <1>9 DEF Good
<1>11. ASSUME NEW k \in I \ {i}
       PROVE  indexes(heap_page(k)) \in Indexes \ {ix}
  <2>1. indexes(heap_page(k)) \in Indexes
    BY HeapPageNat, IndexDigits
  <2>2. HeapLeaf(x, k).address # HeapLeaf(x, i).address
    BY DEF Own
  <2> QED
    BY <2>1, <2>2 DEF HeapLeaf, ix, va
<1>12. Own(r, H, I \ {i})
  <2>1. \A k \in I \ {i} : HeapLeaf(r, k) = HeapLeaf(x, k)
    BY <1>4, <1>9, <1>11 DEF HeapLeaf
  <2>2. HeapLeaf(x, i).address = a
    BY DEF HeapLeaf, ix, va
  <2> HIDE DEF a
  <2>3. r.pmm.allocated = x.pmm.allocated \ {HeapLeaf(x, i).address \div FRAME_SIZE}
    BY <1>7, <1>9, <2>2
  <2>4. DOMAIN r.tables = DOMAIN x.tables /\ PmmOK(x.pmm)
    BY <1>4, <1>9 DEF Good
  <2> QED
    BY <2>1, <2>3, <2>4, OwnUndone
<1>13. HeapDone(m, r, I \ {i})
  <2>1. ASSUME NEW k \in I \ {i}
        PROVE  LET jx == indexes(heap_page(k)) IN
                 /\ is_canonical(heap_page(k)) /\ heap_page(k) % PAGE_SIZE = 0
                 /\ ~Leaf(m.tables, m.root, jx).present
                 /\ Leaf(r.tables, m.root, jx).present
                 /\ Leaf(r.tables, m.root, jx).writable /\ ~Leaf(r.tables, m.root, jx).user
    <3>1. Leaf(r.tables, m.root, indexes(heap_page(k))) = Leaf(x.tables, m.root, indexes(heap_page(k)))
      BY <1>4, <1>9, <1>11
    <3> QED
      BY <3>1 DEF HeapDone
  <2>2. ASSUME NEW jx \in Indexes, \A k \in I \ {i} : indexes(heap_page(k)) # jx
        PROVE  Leaf(r.tables, m.root, jx) = Leaf(m.tables, m.root, jx)
    <3>1. CASE jx = ix
      <4>1. Leaf(m.tables, m.root, ix) = NotPresent
        BY <1>2, NoLeaf
      <4> QED
        BY <1>4, <1>9, <3>1, <4>1
    <3>2. CASE jx # ix
      <4>1. Leaf(r.tables, m.root, jx) = Leaf(x.tables, m.root, jx)
        BY <1>4, <1>9, <3>2
      <4>2. \A k \in I : indexes(heap_page(k)) # jx
        BY <2>2, <3>2 DEF ix, va
      <4> QED
        BY <4>1, <4>2 DEF HeapDone
    <3> QED
      BY <3>1, <3>2
  <2> QED
    BY <2>1, <2>2 DEF HeapDone
<1> QED
  BY <1>9, <1>10, <1>12, <1>13 DEF r

(* What a call that fails leaves: all frames it took are given back or are  *)
(* tables, and no mapping has changed.                                      *)
LeavesNothing(m, r, H) ==
    r.root = m.root /\ (\E lev : Good(r, lev)) /\ Own(r, H, {}) /\ SameLeaves(m.tables, r.tables, m.root)

LEMMA Rollback ==
    ASSUME NEW m, m.root = pml4_phys, NEW x, NEW lev, Good(x, lev), x.root = m.root, NEW H,
           NEW pages \in Nat, Own(x, H, 0 .. pages - 1), HeapDone(m, x, 0 .. pages - 1)
    PROVE  LeavesNothing(m, rollback(x, pages), H) /\ rollback(x, pages).ok = x.ok
<1>1. PICK f : /\ rollback(x, pages) = f[pages] /\ f[0] = x
               /\ \A n \in 1 .. pages : f[n] = UndoStep(f[n - 1], n)
  BY UndoLoop, SMTT(30)
<1> DEFINE Fine(n) == /\ Good(f[n], lev) /\ f[n].root = m.root /\ f[n].ok = x.ok
                      /\ Own(f[n], H, n .. pages - 1) /\ HeapDone(m, f[n], n .. pages - 1)
           B == {n \in 0 .. pages : ~Fine(n)}
<1>2. Fine(0)
  BY <1>1
<1>3. ASSUME NEW n \in 1 .. pages, Fine(n - 1) PROVE Fine(n)
  <2> DEFINE i == n - 1
             I == i .. pages - 1
             y == f[i]
  <2>1. i \in I /\ I \in SUBSET Nat /\ I \ {i} = n .. pages - 1 /\ i + 1 = n
    OBVIOUS
  <2>2. /\ Good(y, lev) /\ y.root = m.root /\ y.ok = x.ok
        /\ Own(y, H, I) /\ HeapDone(m, y, I)
    BY <1>3
  <2>3. f[n] = UndoStep(y, n)
    BY <1>1
  <2> HIDE DEF Fine, i, I, y
  <2>4. LET r == UndoStep(y, i + 1)
        IN  /\ Good(r, lev) /\ r.root = m.root /\ r.ok = y.ok
            /\ Own(r, H, I \ {i}) /\ HeapDone(m, r, I \ {i})
    BY <2>1, <2>2, UndoOne
  <2> QED
    BY <2>1, <2>2, <2>3, <2>4 DEF Fine
<1>4. Fine(pages)
  <2> HIDE DEF Fine
  <2> SUFFICES ASSUME pages \in B PROVE FALSE
    OBVIOUS
  <2>1. B \in SUBSET Nat
    OBVIOUS
  <2>2. PICK c \in B : \A n \in B : c <= n
    BY <2>1, Least
  <2>3. c # 0 /\ c \in 0 .. pages /\ ~Fine(c)
    BY <1>2, <2>2
  <2>4. c \in 1 .. pages /\ c - 1 \in 0 .. pages /\ c - 1 < c
    BY <2>3
  <2>5. c - 1 \notin B
    <3> HIDE DEF B
    <3> QED
      BY <2>2, <2>4
  <2> QED
    BY <1>3, <2>3, <2>4, <2>5
<1>5. pages .. pages - 1 = {}
  OBVIOUS
<1>6. Own(f[pages], H, {}) /\ HeapDone(m, f[pages], {})
  BY <1>4, <1>5
<1>7. SameLeaves(m.tables, f[pages].tables, m.root)
  BY <1>6 DEF HeapDone, SameLeaves
<1> QED
  BY <1>1, <1>4, <1>6, <1>7 DEF LeavesNothing

(* After n pages: all of them, or nothing.                                  *)
HeapFine(m, r, H, n) ==
    IF r.ok
    THEN /\ r.root = m.root /\ (\E lev : Good(r, lev))
         /\ Own(r, H, 0 .. n - 1) /\ HeapDone(m, r, 0 .. n - 1)
    ELSE LeavesNothing(m, r, H)

(* The page is mapped.                                                      *)
LEMMA HeapAdds ==
    ASSUME NEW m, NEW x, x.root = m.root, NEW n \in Nat, HeapDone(m, x, 0 .. n - 1),
           NEW r, NEW pa, MapsOne(x, r, heap_page(n), pa, TRUE, FALSE)
    PROVE  HeapDone(m, r, 0 .. n)
<1> DEFINE va == heap_page(n)
           ix == indexes(va)
           e == make_entry(pa, TRUE, FALSE)
<1>1. ix \in Indexes
  BY HeapPageNat, IndexDigits
<1>2. /\ MapAllowed(va, pa) /\ ~Leaf(x.tables, m.root, ix).present
      /\ Leaf(r.tables, m.root, ix) = e
      /\ \A jx \in Indexes \ {ix} : Leaf(r.tables, m.root, jx) = Leaf(x.tables, m.root, jx)
  BY DEF MapsOne
<1>3. e.present /\ e.writable /\ ~e.user
  BY DEF make_entry
<1> HIDE DEF va, ix, e
<1>4. ASSUME NEW i \in 0 .. n - 1 PROVE indexes(heap_page(i)) \in Indexes \ {ix}
  <2>1. Leaf(x.tables, m.root, indexes(heap_page(i))).present
    BY DEF HeapDone
  <2>2. indexes(heap_page(i)) \in Indexes
    BY HeapPageNat, IndexDigits
  <2> QED
    BY <1>2, <2>1, <2>2
<1>5. Leaf(x.tables, m.root, ix) = Leaf(m.tables, m.root, ix)
  BY <1>1, <1>4 DEF HeapDone
<1>6. ASSUME NEW i \in 0 .. n
      PROVE  LET jx == indexes(heap_page(i)) IN
               /\ is_canonical(heap_page(i)) /\ heap_page(i) % PAGE_SIZE = 0
               /\ ~Leaf(m.tables, m.root, jx).present
               /\ Leaf(r.tables, m.root, jx).present
               /\ Leaf(r.tables, m.root, jx).writable /\ ~Leaf(r.tables, m.root, jx).user
  <2>1. CASE i = n
    <3>1. heap_page(i) = va /\ indexes(heap_page(i)) = ix
      BY <2>1 DEF va, ix
    <3> QED
      BY <1>2, <1>3, <1>5, <3>1 DEF MapAllowed
  <2>2. CASE i # n
    <3>1. i \in 0 .. n - 1
      BY <2>2
    <3>2. Leaf(r.tables, m.root, indexes(heap_page(i))) = Leaf(x.tables, m.root, indexes(heap_page(i)))
      BY <1>2, <1>4, <3>1
    <3> QED
      BY <3>1, <3>2 DEF HeapDone
  <2> QED
    BY <2>1, <2>2
<1>7. ASSUME NEW jx \in Indexes, \A i \in 0 .. n : indexes(heap_page(i)) # jx
      PROVE  Leaf(r.tables, m.root, jx) = Leaf(m.tables, m.root, jx)
  <2>1. jx # ix /\ \A i \in 0 .. n - 1 : indexes(heap_page(i)) # jx
    BY <1>7 DEF ix, va
  <2> QED
    BY <1>2, <2>1 DEF HeapDone
<1> QED
  BY <1>6, <1>7 DEF HeapDone

(* One turn of heap_map.                                                    *)
LEMMA HeapNext ==
    ASSUME NEW m, m.root = pml4_phys, NEW x, NEW lev, Good(x, lev), x.root = m.root, x.ok, NEW H,
           NEW n \in Nat, Own(x, H, 0 .. n - 1), HeapDone(m, x, 0 .. n - 1)
    PROVE  HeapFine(m, heap_map_next(x, n), H, n + 1)
<1> DEFINE S == 0 .. n - 1
           f == first_free(x.pmm)
           a == f * FRAME_SIZE
           va == heap_page(n)
           q == mark_allocated(x.pmm, f)
           y == [x EXCEPT !.pmm = q]
           r == map(y, va, a, TRUE, FALSE)
           r2 == [r EXCEPT !.pmm = freed(r.pmm, a)]
           z == [x EXCEPT !.ok = FALSE]
<1>1. heap_map_next(x, n) = IF ~HasFree(x.pmm) THEN rollback(z, n)
                            ELSE IF r.ok THEN r ELSE rollback(r2, n)
  BY DEF heap_map_next
<1>2. Fields(x, x.pmm, x.tables, x.root, x.at, x.ok)
  BY DEF Good, Fields
<1>3. CASE ~HasFree(x.pmm)
  <2>1. z = [x EXCEPT !.ok = FALSE]
    OBVIOUS
  <2> HIDE DEF z
  <2>2. Fields(z, x.pmm, x.tables, x.root, x.at, FALSE)
    BY <1>2, <2>1, FieldsOk, Zenon
  <2>3. IsMem(z) /\ z.pmm = x.pmm /\ z.tables = x.tables /\ z.root = x.root /\ ~z.ok
    BY <2>2, Zenon DEF Fields
  <2>4. Good(z, lev) /\ Own(z, H, S)
    BY <2>3, SameMem
  <2>5. HeapDone(m, z, S)
    BY <2>3 DEF HeapDone
  <2>6. LeavesNothing(m, rollback(z, n), H) /\ rollback(z, n).ok = z.ok
    BY <2>3, <2>4, <2>5, Rollback
  <2> QED
    BY <1>1, <1>3, <2>3, <2>6 DEF HeapFine
<1>4. CASE HasFree(x.pmm)
  <2>1. f \in Nat /\ f \notin x.pmm.allocated /\ PmmOK(q) /\ q.allocated = x.pmm.allocated \cup {f}
    BY <1>4, TakeOne DEF Good
  <2>2. y = [x EXCEPT !.pmm = q] /\ r = map(y, va, a, TRUE, FALSE)
    OBVIOUS
  <2> HIDE DEF y, q, f, r, S
  <2>3. Fields(y, q, x.tables, x.root, x.at, x.ok)
    BY <1>2, <2>2, FieldsPmm, Zenon
  <2>4. IsMem(y) /\ y.pmm = q /\ y.tables = x.tables /\ y.root = x.root /\ y.ok
    BY <2>3, Zenon DEF Fields
  <2>5. Good(y, lev)
    BY <2>1, <2>4 DEF Good
  <2>6. Own(y, H \cup {f}, S)
    BY <2>1, <2>4, OwnTaken DEF S
  <2>7. f \notin H /\ a \in Nat /\ a % FRAME_SIZE = 0 /\ a \div FRAME_SIZE = f
    BY <2>1, FrameAddress DEF Own
  <2>8. Mapped(y, r, H \cup {f}, S, va, a, TRUE, FALSE)
    <3>1. va \in Nat /\ S \in SUBSET Nat /\ TRUE \in BOOLEAN /\ FALSE \in BOOLEAN
      BY HeapPageNat DEF S
    <3> HIDE DEF va, a
    <3> QED
      BY <2>2, <2>4, <2>5, <2>6, <2>7, <3>1, Map, Zenon
  <2>9. PICK lev2 : Good(r, lev2)
    BY <2>8 DEF Mapped
  <2>10. r.root = m.root /\ Own(r, H \cup {f}, S)
    BY <2>4, <2>8 DEF Mapped
  <2>11. HeapDone(m, y, S)
    BY <2>4 DEF HeapDone, S
  <2>12. CASE r.ok
    <3>1. MapsOne(y, r, va, a, TRUE, FALSE)
      BY <2>8, <2>12 DEF Mapped
    <3>2. HeapDone(m, r, 0 .. n)
      BY <2>4, <2>11, <3>1, HeapAdds DEF S
    <3>3. HeapLeaf(r, n).present /\ HeapLeaf(r, n).address = a
      BY <2>4, <2>10, <3>1 DEF MapsOne, HeapLeaf, make_entry
    <3>4. n \notin S /\ S \cup {n} = 0 .. n
      BY DEF S
    <3>5. Own(r, H, 0 .. n)
      <4>1. Own(r, H, S \cup {n})
        <5>1. HeapLeaf(r, n).address = f * FRAME_SIZE
          BY <3>3
        <5>2. \A k \in S : HeapLeaf(r, k) = HeapLeaf(r, k)
          OBVIOUS
        <5> QED
          BY <2>1, <2>7, <2>10, <3>3, <3>4, <5>1, <5>2, OwnPage
      <4> QED
        BY <3>4, <4>1
    <3>6. (n + 1) - 1 = n
      OBVIOUS
    <3> QED
      BY <1>1, <1>4, <2>9, <2>10, <2>12, <3>2, <3>5, <3>6 DEF HeapFine
  <2>13. CASE ~r.ok
    <3>1. SameLeaves(x.tables, r.tables, m.root)
      BY <2>4, <2>8, <2>13 DEF Mapped
    <3>2. HeapDone(m, r, S)
      <4>1. \A jx \in Indexes : Leaf(r.tables, m.root, jx) = Leaf(x.tables, m.root, jx)
        BY <3>1 DEF SameLeaves
      <4>2. \A i \in S : indexes(heap_page(i)) \in Indexes
        BY HeapPageNat, IndexDigits DEF S
      <4> QED
        BY <4>1, <4>2 DEF HeapDone, S
    <3> DEFINE p == freed(r.pmm, a)
    <3>3. FrameAt(a, r.pmm.allocated)
      BY <2>7, <2>10 DEF FrameAt, Own
    <3>4. PmmOK(p) /\ p.allocated = r.pmm.allocated \ {f}
      BY <2>7, <2>9, <3>3, GiveBack DEF Good
    <3>5. r2 = [r EXCEPT !.pmm = p]
      OBVIOUS
    <3> HIDE DEF p, r2
    <3>6. Fields(r, r.pmm, r.tables, r.root, r.at, r.ok)
      BY <2>9 DEF Good, Fields
    <3>7. Fields(r2, p, r.tables, r.root, r.at, r.ok)
      BY <3>5, <3>6, FieldsPmm, Zenon
    <3>8. IsMem(r2) /\ r2.pmm = p /\ r2.tables = r.tables /\ r2.root = r.root /\ ~r2.ok
      BY <2>13, <3>7, Zenon DEF Fields
    <3>9. Good(r2, lev2)
      BY <2>9, <3>4, <3>8 DEF Good
    <3>10. Own(r2, H, S)
      BY <2>7, <2>10, <3>4, <3>8, OwnGiven
    <3>11. HeapDone(m, r2, S)
      BY <3>2, <3>8 DEF HeapDone
    <3>12. LeavesNothing(m, rollback(r2, n), H) /\ rollback(r2, n).ok = r2.ok
      BY <2>10, <3>8, <3>9, <3>10, <3>11, Rollback DEF S
    <3> QED
      BY <1>1, <1>4, <2>13, <3>8, <3>12 DEF HeapFine
  <2> QED
    BY <2>12, <2>13
<1> QED
  BY <1>3, <1>4

LEMMA HeapMaps ==
    ASSUME NEW m, m.root = pml4_phys, NEW lev, Good(m, lev), m.ok, NEW H, Own(m, H, {}),
           NEW pages \in Nat
    PROVE  HeapFine(m, heap_map(m, pages), H, pages)
<1>1. PICK f : /\ heap_map(m, pages) = f[pages] /\ f[0] = m
               /\ \A n \in 1 .. pages : f[n] = HeapStep(f[n - 1], n)
  BY HeapLoop
<1> DEFINE Fine(n) == HeapFine(m, f[n], H, n)
           B == {n \in 0 .. pages : ~Fine(n)}
<1>2. Fine(0)
  <2>1. 0 .. 0 - 1 = {}
    OBVIOUS
  <2>2. HeapDone(m, m, {})
    BY DEF HeapDone
  <2> QED
    BY <1>1, <2>1, <2>2 DEF HeapFine
<1>3. ASSUME NEW n \in 1 .. pages, Fine(n - 1) PROVE Fine(n)
  <2> DEFINE i == n - 1
             y == f[i]
  <2>1. i \in Nat /\ i + 1 = n
    OBVIOUS
  <2>2. f[n] = (IF y.ok THEN heap_map_next(y, i) ELSE y) /\ HeapFine(m, y, H, i)
    BY <1>1, <1>3 DEF HeapStep
  <2> SUFFICES HeapFine(m, f[n], H, n)
    OBVIOUS
  <2> HIDE DEF y, i, Fine
  <2>3. CASE y.ok
    <3>1. PICK lev2 : Good(y, lev2)
      BY <2>2, <2>3 DEF HeapFine
    <3>2. HeapFine(m, heap_map_next(y, i), H, i + 1)
      BY <2>1, <2>2, <2>3, <3>1, HeapNext DEF HeapFine
    <3> QED
      BY <2>1, <2>2, <2>3, <3>2
  <2>4. CASE ~y.ok
    BY <2>2, <2>4 DEF HeapFine
  <2> QED
    BY <2>3, <2>4
<1>4. Fine(pages)
  <2> HIDE DEF Fine
  <2> SUFFICES ASSUME pages \in B PROVE FALSE
    OBVIOUS
  <2>1. B \in SUBSET Nat
    OBVIOUS
  <2>2. PICK c \in B : \A n \in B : c <= n
    BY <2>1, Least
  <2>3. c # 0 /\ c \in 0 .. pages /\ ~Fine(c)
    BY <1>2, <2>2
  <2>4. c \in 1 .. pages /\ c - 1 \in 0 .. pages /\ c - 1 < c
    BY <2>3
  <2>5. c - 1 \notin B
    <3> HIDE DEF B
    <3> QED
      BY <2>2, <2>4
  <2> QED
    BY <1>3, <2>3, <2>4, <2>5
<1> QED
  BY <1>1, <1>4

-----------------------------------------------------------------------------
(* The invariant.                                                           *)

Whole(p, T, root) == Mem(p, T, root, root, TRUE)

(* The allocator, the tables and the owners of frames agree.                *)
Sound(p, T, root, H, S) ==
    \E lev : Good(Whole(p, T, root), lev) /\ Own(Whole(p, T, root), H, S)

HeapSet == 0 .. heap.mapped_pages - 1

HeapOK ==
    /\ heap.mapped_pages \in 0 .. HEAP_SIZE \div PAGE_SIZE
    /\ ~heap.initialized => heap.mapped_pages = 0
    /\ \A n \in HeapSet : is_canonical(heap_page(n)) /\ heap_page(n) % PAGE_SIZE = 0

VInv ==
    /\ PmmOK(pmm) /\ HeapOK
    /\ phase # "ready" => pmm.allocated = {} /\ pml4_phys = None
    /\ pml4_phys = None => DOMAIN tables = {} /\ ~heap.initialized /\ held = pmm.allocated
    /\ pml4_phys # None => Sound(pmm, tables, pml4_phys, held, HeapSet)

LEMMA WholeFields ==
    ASSUME NEW p, NEW T, NEW root
    PROVE  LET m == Whole(p, T, root)
           IN  IsMem(m) /\ m.pmm = p /\ m.tables = T /\ m.root = root /\ m.ok
<1>1. TRUE \in BOOLEAN
  OBVIOUS
<1>2. Fields(Whole(p, T, root), p, T, root, root, TRUE)
  BY <1>1, FieldsOf, Zenon DEF Whole
<1> QED
  BY <1>2, Zenon DEF Fields

(* mem is the whole memory, and a call's result becomes it.                 *)
LEMMA MemIsWhole == mem = Whole(pmm, tables, pml4_phys)
  BY DEF mem, Whole, Mem

LEMMA Committed ==
    ASSUME NEW m, NEW lev, Good(m, lev), NEW H, NEW S, Own(m, H, S)
    PROVE  Sound(m.pmm, m.tables, m.root, H, S)
<1> DEFINE r == Whole(m.pmm, m.tables, m.root)
<1>1. IsMem(r) /\ r.pmm = m.pmm /\ r.tables = m.tables /\ r.root = m.root
  BY WholeFields
<1> HIDE DEF r
<1>2. Good(r, lev) /\ Own(r, H, S)
  BY <1>1, SameMem
<1> QED
  BY <1>2 DEF Sound, r

(* Pages of the heap are addresses.                                         *)
LEMMA HeapPageInRange ==
    ASSUME NEW n \in Nat, n < HEAP_SIZE \div PAGE_SIZE
    PROVE  heap_page(n) \in 0 .. VIRTUAL_LIMIT - 1
<1> DEFINE F == FRAME_SIZE
           q == HEAP_SIZE \div F
           s == HEAP_SIZE % F
<1>1. F \in Nat \ {0} /\ HEAP_SIZE \in Nat /\ HEAP_START \in Nat /\ VIRTUAL_LIMIT \in Nat
      /\ HEAP_START + HEAP_SIZE <= VIRTUAL_LIMIT
  BY FrameAssumption, VirtualAssumption
<1>2. q \in Nat /\ s \in 0 .. F - 1 /\ HEAP_SIZE = q * F + s
  BY <1>1, DivMod
<1>3. n + 1 <= q
  BY <1>2 DEF PAGE_SIZE
<1> HIDE DEF q, s
<1>4. (n + 1) * F <= q * F /\ (n + 1) * F = n * F + F /\ n * F \in Nat /\ q * F \in Nat
  <2>1. n + 1 <= q => (n + 1) * F <= q * F
    BY <1>1, <1>2
  <2> QED
    BY <1>1, <1>2, <1>3, <2>1
<1>5. heap_page(n) = HEAP_START + n * F
  BY DEF heap_page, PAGE_SIZE
<1> QED
  BY <1>1, <1>2, <1>4, <1>5

-----------------------------------------------------------------------------
(* The steps.                                                               *)

LEMMA InitVInv == VInit => VInv
<1> SUFFICES ASSUME VInit PROVE VInv
  OBVIOUS
<1>1. PmmOK(pmm) /\ pmm.allocated = {}
  BY DEF VInit, Init, PmmOK
<1>2. HEAP_SIZE \div PAGE_SIZE \in Nat
  BY FrameAssumption, VirtualAssumption, DivMod DEF PAGE_SIZE
<1>3. HeapOK
  BY <1>2 DEF VInit, HeapOK, HeapSet
<1> QED
  BY <1>1, <1>3 DEF VInit, VInv, None

LEMMA BootVInv ==
    ASSUME VInv, Boot
    PROVE  VInv'
<1>1. UNCHANGED vm_vars /\ initialize /\ phase # "ready"
  BY DEF Boot, initialize, initialize_start, initialize_release, initialize_reserve
<1>2. pmm.allocated = {} /\ pml4_phys = None /\ PmmOK(pmm)
  BY <1>1 DEF VInv
<1>3. pmm'.used \subseteq Frames /\ pmm'.allocated = {}
  <2>1. CASE initialize_start
    BY <2>1 DEF initialize_start
  <2>2. CASE initialize_release
    BY <1>2, <2>2 DEF initialize_release, release, PmmOK
  <2>3. CASE initialize_reserve
    BY <1>2, <2>3 DEF initialize_reserve, reserve_range, reserve, FramesFrom, PmmOK
  <2> QED
    BY <1>1, <2>1, <2>2, <2>3 DEF initialize
<1>4. PmmOK(pmm')
  BY <1>3 DEF PmmOK
<1>5. HeapOK'
  BY <1>1 DEF VInv, HeapOK, HeapSet, vm_vars, heap_page, is_canonical
<1> QED
  BY <1>1, <1>2, <1>3, <1>4, <1>5 DEF VInv, vm_vars

(* Nothing of the heap's has changed.                                       *)
LEMMA HeapSame ==
    ASSUME HeapOK, heap' = heap
    PROVE  HeapOK' /\ HeapSet' = HeapSet
  BY DEF HeapOK, HeapSet, heap_page, is_canonical

LEMMA AllocateVInv ==
    ASSUME VInv, Allocate
    PROVE  VInv'
<1> DEFINE f == first_free(pmm)
<1>1. /\ phase = "ready" /\ phase' = phase /\ HasFree(pmm) /\ pmm' = mark_allocated(pmm, f)
      /\ held' = held \cup {f} /\ tables' = tables /\ pml4_phys' = pml4_phys /\ heap' = heap
  BY DEF Allocate, allocate_frame
<1>2. f \notin pmm.allocated /\ PmmOK(pmm') /\ pmm'.allocated = pmm.allocated \cup {f}
  BY <1>1, TakeOne DEF VInv
<1> HIDE DEF f
<1>3. HeapOK' /\ HeapSet' = HeapSet
  BY <1>1, HeapSame DEF VInv
<1>4. ASSUME pml4_phys # None
      PROVE  Sound(pmm', tables, pml4_phys, held \cup {f}, HeapSet)
  <2> DEFINE m == Whole(pmm, tables, pml4_phys)
             r == Whole(pmm', tables, pml4_phys)
  <2>1. PICK lev : Good(m, lev) /\ Own(m, held, HeapSet)
    BY <1>4 DEF VInv, Sound
  <2>2. IsMem(m) /\ m.pmm = pmm /\ m.tables = tables /\ m.root = pml4_phys
    BY WholeFields
  <2>3. IsMem(r) /\ r.pmm = pmm' /\ r.tables = tables /\ r.root = pml4_phys
    BY WholeFields
  <2> HIDE DEF m, r
  <2>4. Good(r, lev)
    BY <1>2, <2>1, <2>2, <2>3 DEF Good
  <2>5. Own(r, held \cup {f}, HeapSet)
    BY <1>2, <2>1, <2>2, <2>3, OwnTaken
  <2> QED
    BY <2>4, <2>5 DEF Sound, r
<1> QED
  BY <1>1, <1>2, <1>3, <1>4 DEF VInv

LEMMA FreeVInv ==
    ASSUME VInv, Free
    PROVE  VInv'
<1>1. PICK f \in held \cup ({0} \ pmm.allocated) : free_frame(f * FRAME_SIZE) /\ held' = held \ {f}
  BY DEF Free
<1>2. /\ phase = "ready" /\ phase' = phase /\ pmm' = freed(pmm, f * FRAME_SIZE)
      /\ tables' = tables /\ pml4_phys' = pml4_phys /\ heap' = heap
  BY <1>1 DEF Free, free_frame
<1>3. held \subseteq pmm.allocated
  <2>1. CASE pml4_phys = None
    BY <2>1 DEF VInv
  <2>2. CASE pml4_phys # None
    BY <2>2, WholeFields DEF VInv, Sound, Own
  <2> QED
    BY <2>1, <2>2
<1>4. PmmOK(pmm) /\ HeapOK' /\ HeapSet' = HeapSet
  BY <1>2, HeapSame DEF VInv
<1>5. f \in Nat
  BY <1>1, <1>3, <1>4, Handed
<1>6. f * FRAME_SIZE \in Nat /\ (f * FRAME_SIZE) % FRAME_SIZE = 0 /\ (f * FRAME_SIZE) \div FRAME_SIZE = f
  BY <1>5, FrameAddress
<1>7. CASE f \notin held
  <2>1. ~frees(pmm, f * FRAME_SIZE)
    BY <1>1, <1>6, <1>7 DEF frees
  <2>2. pmm' = pmm /\ held' = held
    BY <1>1, <1>2, <1>7, <2>1 DEF freed
  <2> QED
    BY <1>2, <1>4, <2>2 DEF VInv
<1>8. CASE f \in held
  <2>1. FrameAt(f * FRAME_SIZE, pmm.allocated)
    BY <1>3, <1>6, <1>8 DEF FrameAt
  <2>2. PmmOK(pmm') /\ pmm'.allocated = pmm.allocated \ {f}
    BY <1>2, <1>4, <1>6, <2>1, GiveBack
  <2>3. ASSUME pml4_phys # None
        PROVE  Sound(pmm', tables, pml4_phys, held \ {f}, HeapSet)
    <3> DEFINE m == Whole(pmm, tables, pml4_phys)
               r == Whole(pmm', tables, pml4_phys)
    <3>1. PICK lev : Good(m, lev) /\ Own(m, held, HeapSet)
      BY <2>3 DEF VInv, Sound
    <3>2. IsMem(m) /\ m.pmm = pmm /\ m.tables = tables /\ m.root = pml4_phys
      BY WholeFields
    <3>3. IsMem(r) /\ r.pmm = pmm' /\ r.tables = tables /\ r.root = pml4_phys
      BY WholeFields
    <3> HIDE DEF m, r
    <3>4. Good(r, lev)
      BY <2>2, <3>1, <3>2, <3>3 DEF Good
    <3>5. (held \ {f}) \cup {f} = held
      BY <1>8
    <3>6. Own(r, held \ {f}, HeapSet)
      <4> DEFINE K == held \ {f}
      <4>1. Own(m, K \cup {f}, HeapSet) /\ f \notin K
        BY <3>1, <3>5
      <4> HIDE DEF K
      <4>2. Own(r, K, HeapSet)
        BY <2>2, <3>2, <3>3, <4>1, OwnGiven
      <4> QED
        BY <4>2 DEF K
    <3> QED
      BY <3>4, <3>6 DEF Sound, r
  <2> QED
    BY <1>1, <1>2, <1>4, <2>2, <2>3 DEF VInv
<1> QED
  BY <1>7, <1>8

(* The root is an empty table.                                              *)
LEMMA NewVInv ==
    ASSUME VInv, AddressSpace_new
    PROVE  VInv'
<1> DEFINE f == first_free(pmm)
           a == f * FRAME_SIZE
           T == [t \in {a} |-> zeroed]
           lev == [t \in {a} |-> 1]
           m == Whole(pmm', T, a)
<1>1. /\ phase = "ready" /\ phase' = phase /\ HasFree(pmm) /\ pmm' = mark_allocated(pmm, f)
      /\ held' = held /\ pml4_phys = None /\ pml4_phys' = a /\ heap' = heap
  BY DEF AddressSpace_new
<1>2. tables' = T
  BY DEF AddressSpace_new
<1>3. f \in Nat /\ f \notin pmm.allocated /\ PmmOK(pmm') /\ pmm'.allocated = pmm.allocated \cup {f}
  BY <1>1, TakeOne DEF VInv
<1>4. held = pmm.allocated /\ heap.mapped_pages = 0 /\ HeapOK
  BY <1>1 DEF VInv, HeapOK
<1> HIDE DEF f
<1>5. a \in Nat /\ a % FRAME_SIZE = 0 /\ a \div FRAME_SIZE = f
  BY <1>3, FrameAddress
<1> HIDE DEF a
<1>6. HeapOK' /\ HeapSet' = {}
  BY <1>1, <1>4, HeapSame DEF HeapSet
<1>7. DOMAIN T = {a} /\ \A i \in Index : ~T[a][i].present
  BY DEF zeroed, Index, NotPresent
<1>8. IsTables(T)
  <2>1. zeroed \in [Index -> Entry]
    BY DEF zeroed, NotPresent, Index, Entry
  <2> QED
    BY <1>5, <2>1 DEF IsTables
<1>9. lev \in [DOMAIN T -> 1 .. 4] /\ lev[a] = 1
  OBVIOUS
<1> HIDE DEF T, lev
<1>10. \A s, j, t : ~Above(T, lev, s, j, t)
  BY <1>7 DEF Above
<1>11. Tree(T, a, lev) /\ Rights(T, lev)
  <2>1. Rights(T, lev)
    BY <1>7 DEF Rights
  <2>2. Tree(T, a, lev)
    BY <1>7, <1>8, <1>9, <1>10 DEF Tree
  <2> QED
    BY <2>1, <2>2
<1>12. IsMem(m) /\ m.pmm = pmm' /\ m.tables = T /\ m.root = a
  BY WholeFields
<1> HIDE DEF m
<1>13. Good(m, lev)
  BY <1>3, <1>11, <1>12 DEF Good
<1>14. Own(m, held, {})
  <2>1. FrameAt(a, m.pmm.allocated \ held)
    BY <1>3, <1>4, <1>5, <1>12 DEF FrameAt
  <2> QED
    BY <1>3, <1>4, <1>7, <1>12, <2>1 DEF Own, a
<1>15. Sound(pmm', T, a, held, {})
  BY <1>13, <1>14 DEF Sound, m
<1>16. a # None
  BY <1>5 DEF None
<1> QED
  BY <1>1, <1>2, <1>3, <1>6, <1>15, <1>16 DEF VInv

(* Before a call.                                                           *)
LEMMA MemSound ==
    ASSUME VInv, pml4_phys # None
    PROVE  /\ mem.pmm = pmm /\ mem.tables = tables /\ mem.root = pml4_phys /\ mem.ok
           /\ \E lev : Good(mem, lev) /\ Own(mem, held, HeapSet)
           /\ HeapSet \in SUBSET Nat
<1>1. /\ mem.pmm = pmm /\ mem.tables = tables /\ mem.root = pml4_phys /\ mem.ok
  BY MemIsWhole, WholeFields
<1>2. \E lev : Good(mem, lev) /\ Own(mem, held, HeapSet)
  BY MemIsWhole DEF VInv, Sound
<1>3. HeapSet \in SUBSET Nat
  BY DEF HeapSet
<1> QED
  BY <1>1, <1>2, <1>3

(* After one that has left the heap alone.                                  *)
LEMMA CommitVInv ==
    ASSUME VInv, NEW m, Commit(m), heap' = heap, m.root = pml4_phys,
           NEW lev, Good(m, lev), Own(m, held, HeapSet)
    PROVE  VInv'
<1>1. /\ pml4_phys # None /\ pmm' = m.pmm /\ tables' = m.tables
      /\ phase' = phase /\ pml4_phys' = pml4_phys /\ held' = held
  BY DEF Commit
<1>2. Sound(m.pmm, m.tables, m.root, held, HeapSet)
  BY Committed
<1>3. PmmOK(m.pmm)
  BY DEF Good
<1>4. HeapOK' /\ HeapSet' = HeapSet
  BY HeapSame DEF VInv
<1> QED
  BY <1>1, <1>2, <1>3, <1>4 DEF VInv

LEMMA MapPageVInv ==
    ASSUME VInv, MapPage
    PROVE  VInv'
<1>1. PICK r \in MapRequests : Commit(map(mem, r[1], r[2], r[3], r[4])) /\ heap' = heap
  BY DEF MapPage
<1> DEFINE va == r[1]
           pa == r[2]
           w == r[3]
           u == r[4]
           x == map(mem, va, pa, w, u)
<1>2. va \in Nat /\ pa \in Nat /\ w \in BOOLEAN /\ u \in BOOLEAN
  BY VirtualAssumption
<1>3. pml4_phys # None /\ Commit(x)
  BY <1>1 DEF Commit
<1> HIDE DEF va, pa, w, u
<1>4. PICK lev : Good(mem, lev) /\ Own(mem, held, HeapSet)
  BY <1>3, MemSound
<1>5. Mapped(mem, x, held, HeapSet, va, pa, w, u)
  <2>1. mem.ok /\ HeapSet \in SUBSET Nat
    BY <1>3, MemSound
  <2> QED
    BY <1>2, <1>4, <2>1, Map
<1> HIDE DEF x
<1>6. PICK lev2 : Good(x, lev2)
  BY <1>5 DEF Mapped
<1>7. x.root = pml4_phys /\ Own(x, held, HeapSet)
  BY <1>3, <1>5, MemSound DEF Mapped
<1> QED
  BY <1>1, <1>3, <1>6, <1>7, CommitVInv

(* A page that is not the heap's does not have the indexes of one that is.  *)
LEMMA NotHeap ==
    ASSUME VInv, NEW va \in 0 .. VIRTUAL_LIMIT - 1, is_canonical(va), va % PAGE_SIZE = 0, ~InHeap(va),
           NEW n \in HeapSet
    PROVE  indexes(heap_page(n)) \in Indexes \ {indexes(va)}
<1>1. n \in Nat /\ n < HEAP_SIZE \div PAGE_SIZE /\ heap.initialized
  <2>1. heap.mapped_pages \in 0 .. HEAP_SIZE \div PAGE_SIZE /\ HEAP_SIZE \div PAGE_SIZE \in Nat
    BY FrameAssumption, VirtualAssumption, DivMod DEF VInv, HeapOK, PAGE_SIZE
  <2> DEFINE q == HEAP_SIZE \div PAGE_SIZE
  <2> HIDE DEF q
  <2>2. heap.mapped_pages \in 0 .. q /\ q \in Nat
    BY <2>1 DEF q
  <2>3. n \in Nat /\ n < q /\ heap.mapped_pages # 0
    BY <2>2 DEF HeapSet
  <2> QED
    BY <2>3 DEF VInv, HeapOK, q
<1>2. heap_page(n) \in 0 .. VIRTUAL_LIMIT - 1 /\ indexes(heap_page(n)) \in Indexes
  BY <1>1, HeapPageInRange, HeapPageNat, IndexDigits
<1>3. is_canonical(heap_page(n)) /\ heap_page(n) % PAGE_SIZE = 0
  BY DEF VInv, HeapOK
<1>4. heap_page(n) # va
  BY <1>1 DEF InHeap, HeapSet
<1> QED
  BY <1>2, <1>3, <1>4, PagesApart

LEMMA UnmapPageVInv ==
    ASSUME VInv, UnmapPage
    PROVE  VInv'
<1>1. PICK va \in {r[1] : r \in MapRequests} :
        /\ pml4_phys # None /\ ~InHeap(va) /\ unmaps(tables, va) /\ Commit(unmap(mem, va)) /\ heap' = heap
  BY DEF UnmapPage
<1> DEFINE ix == indexes(va)
           x == unmap(mem, va)
<1>2. va \in 0 .. VIRTUAL_LIMIT - 1 /\ va \in Nat
  BY VirtualAssumption
<1>3. PICK lev : Good(mem, lev) /\ Own(mem, held, HeapSet)
  BY <1>1, MemSound
<1>4. mem.pmm = pmm /\ mem.tables = tables /\ mem.root = pml4_phys /\ mem.ok
  BY <1>1, MemSound
<1>5. is_canonical(va) /\ va % PAGE_SIZE = 0 /\ IsMapped(tables, va)
  BY <1>1 DEF unmaps
<1>6. Leaf(mem.tables, mem.root, ix).present
  <2>1. Tree(tables, pml4_phys, lev)
    BY <1>3, <1>4 DEF Good
  <2> QED
    BY <1>2, <1>4, <1>5, <2>1, WalkIs
<1>7. /\ Good(x, lev) /\ x.root = mem.root /\ x.pmm = mem.pmm
      /\ DOMAIN x.tables = DOMAIN mem.tables
      /\ \A jx \in Indexes \ {ix} : Leaf(x.tables, mem.root, jx) = Leaf(mem.tables, mem.root, jx)
  BY <1>2, <1>3, <1>4, <1>6, Unmap
<1>8. Own(x, held, HeapSet)
  <2>1. \A n \in HeapSet : HeapLeaf(x, n) = HeapLeaf(mem, n)
    <3> TAKE n \in HeapSet
    <3>1. indexes(heap_page(n)) \in Indexes \ {ix}
      BY <1>1, <1>2, <1>5, NotHeap
    <3> QED
      BY <1>7, <3>1 DEF HeapLeaf
  <2> QED
    BY <1>3, <1>7, <2>1, OwnSame
<1> QED
  BY <1>1, <1>4, <1>7, <1>8, CommitVInv

LEMMA IdentityMapVInv ==
    ASSUME VInv, IdentityMap
    PROVE  VInv'
<1>1. PICK r \in IdentityRequests :
        r[1] < r[2] /\ Commit(identity_map(mem, r[1], r[2], r[3])) /\ heap' = heap
  BY DEF IdentityMap
<1> DEFINE start == r[1]
           end == r[2]
           w == r[3]
           x == identity_map(mem, start, end, w)
<1>2. start \in Nat /\ end \in Nat /\ start < end /\ w \in BOOLEAN
  BY <1>1, VirtualAssumption
<1>3. pml4_phys # None /\ Commit(x)
  BY <1>1 DEF Commit
<1> HIDE DEF start, end, w
<1>4. PICK lev : Good(mem, lev) /\ Own(mem, held, HeapSet)
  BY <1>3, MemSound
<1>5. mem.root = pml4_phys /\ mem.ok /\ HeapSet \in SUBSET Nat
  BY <1>3, MemSound
<1>6. x.root = mem.root /\ Own(x, held, HeapSet) /\ \E lev2 : Good(x, lev2)
  BY <1>2, <1>4, <1>5, IdentityMaps
<1> HIDE DEF x
<1>7. PICK lev2 : Good(x, lev2)
  BY <1>6
<1> QED
  BY <1>1, <1>3, <1>5, <1>6, <1>7, CommitVInv

LEMMA HeapVInv ==
    ASSUME VInv, HeapInitialize
    PROVE  VInv'
<1>1. PICK pages \in 1 .. HEAP_SIZE \div PAGE_SIZE :
        LET m == heap_map(mem, pages) IN
          /\ ~heap.initialized /\ Commit(m)
          /\ heap' = [mapped_pages |-> IF m.ok THEN pages ELSE 0, initialized |-> m.ok]
  BY DEF HeapInitialize
<1> DEFINE x == heap_map(mem, pages)
           q == HEAP_SIZE \div PAGE_SIZE
<1>2. q \in Nat
  BY FrameAssumption, VirtualAssumption, DivMod DEF PAGE_SIZE
<1>3. pages \in 1 .. q
  BY <1>1
<1> HIDE DEF q
<1>4. pages \in Nat /\ pages \in 0 .. q /\ 0 \in 0 .. q
  BY <1>2, <1>3
<1>5. /\ ~heap.initialized /\ Commit(x) /\ pml4_phys # None
      /\ heap'.mapped_pages = (IF x.ok THEN pages ELSE 0) /\ heap'.initialized = x.ok
  BY <1>1 DEF Commit
<1>6. HeapSet = {}
  BY <1>5 DEF VInv, HeapOK, HeapSet
<1>7. PICK lev : Good(mem, lev) /\ Own(mem, held, {})
  BY <1>5, <1>6, MemSound
<1>8. mem.root = pml4_phys /\ mem.ok
  BY <1>5, MemSound
<1>9. HeapFine(mem, x, held, pages)
  BY <1>4, <1>7, <1>8, HeapMaps
<1> HIDE DEF x
<1>10. /\ pmm' = x.pmm /\ tables' = x.tables
       /\ phase' = phase /\ pml4_phys' = pml4_phys /\ held' = held
  BY <1>5 DEF Commit
<1>11. PICK lev2 : Good(x, lev2)
  BY <1>9 DEF HeapFine, LeavesNothing
<1>12. PmmOK(pmm') /\ x.root = pml4_phys
  BY <1>8, <1>9, <1>10, <1>11 DEF Good, HeapFine, LeavesNothing
<1>13. CASE x.ok
  <2>1. HeapSet' = 0 .. pages - 1 /\ heap'.mapped_pages = pages /\ heap'.initialized
    BY <1>5, <1>13 DEF HeapSet
  <2>2. Own(x, held, 0 .. pages - 1) /\ HeapDone(mem, x, 0 .. pages - 1)
    BY <1>9, <1>13 DEF HeapFine
  <2>3. Sound(x.pmm, x.tables, x.root, held, 0 .. pages - 1)
    BY <1>11, <2>2, Committed
  <2>4. HeapOK'
    <3>1. \A n \in 0 .. pages - 1 : is_canonical(heap_page(n)) /\ heap_page(n) % PAGE_SIZE = 0
      BY <2>2 DEF HeapDone
    <3> QED
      BY <1>4, <2>1, <3>1 DEF HeapOK, q
  <2> QED
    BY <1>5, <1>10, <1>12, <2>1, <2>3, <2>4 DEF VInv
<1>14. CASE ~x.ok
  <2>1. HeapSet' = {} /\ heap'.mapped_pages = 0 /\ ~heap'.initialized
    BY <1>5, <1>14 DEF HeapSet
  <2>2. Own(x, held, {})
    BY <1>9, <1>14 DEF HeapFine, LeavesNothing
  <2>3. Sound(x.pmm, x.tables, x.root, held, {})
    BY <1>11, <2>2, Committed
  <2>4. HeapOK'
    BY <1>4, <2>1 DEF HeapOK, q
  <2> QED
    BY <1>5, <1>10, <1>12, <2>1, <2>3, <2>4 DEF VInv
<1> QED
  BY <1>13, <1>14

LEMMA NextVInv == VInv /\ [VNext]_all_vars => VInv'
<1> SUFFICES ASSUME VInv, [VNext]_all_vars PROVE VInv'
  OBVIOUS
<1>1. CASE UNCHANGED all_vars
  <2>1. /\ pmm' = pmm /\ tables' = tables /\ pml4_phys' = pml4_phys /\ heap' = heap
        /\ held' = held /\ phase' = phase
    BY <1>1 DEF all_vars, vm_vars, fa_vars
  <2>2. HeapOK' /\ HeapSet' = HeapSet
    BY <2>1, HeapSame DEF VInv
  <2> QED
    BY <2>1, <2>2 DEF VInv
<1> QED
  BY <1>1, BootVInv, AllocateVInv, FreeVInv, NewVInv, MapPageVInv, UnmapPageVInv,
     IdentityMapVInv, HeapVInv DEF VNext

(* Between calls the allocator, the tables and the owners of frames agree,   *)
(* whatever calls were made and wherever they ran out of frames.            *)
THEOREM MemoryInvariance == VSpec => []VInv
  BY InitVInv, NextVInv, PTL DEF VSpec

-----------------------------------------------------------------------------
(* What the invariant says of the tables.                                   *)

(* The tables below those of one level.                                     *)
LEMMA LevelBelow ==
    ASSUME NEW lev, Tree(tables, pml4_phys, lev), NEW l \in 1 .. 3
    PROVE  Children({t \in DOMAIN tables : lev[t] = l}) = {t \in DOMAIN tables : lev[t] = l + 1}
<1> DEFINE A == {t \in DOMAIN tables : lev[t] = l}
           B == {t \in DOMAIN tables : lev[t] = l + 1}
<1>1. \A a : a \in Children(A) <=> \E t \in A, i \in Index : tables[t][i].present /\ tables[t][i].address = a
  <2>1. \A t \in A : DOMAIN tables[t] = Index
    BY DEF Tree, IsTables
  <2> HIDE DEF A
  <2> QED
    BY <2>1 DEF Children
<1>2. ASSUME NEW a \in Children(A) PROVE a \in B
  <2>1. PICK t \in A, i \in Index : tables[t][i].present /\ tables[t][i].address = a
    BY <1>1
  <2>2. lev[t] \in 1 .. 3
    OBVIOUS
  <2> QED
    BY <2>1, <2>2, Child
<1>3. ASSUME NEW a \in B PROVE a \in Children(A)
  <2>1. a # pml4_phys
    BY DEF Tree
  <2>2. PICK t \in DOMAIN tables, i \in Index : Above(tables, lev, t, i, a)
    BY <2>1 DEF Tree
  <2>3. lev[a] = lev[t] + 1 /\ lev[t] \in 1 .. 4 /\ lev[a] = l + 1
    BY <2>2 DEF Tree
  <2>4. t \in A
    BY <2>3
  <2> QED
    BY <1>1, <2>2, <2>4 DEF Above
<1> QED
  BY <1>2, <1>3

LEMMA TreeForm == VInv => TablesFormTree
<1> SUFFICES ASSUME VInv PROVE TablesFormTree
  OBVIOUS
<1>1. CASE pml4_phys = None
  <2>1. DOMAIN tables = {} /\ Level1 = {}
    BY <1>1 DEF VInv, Level1
  <2>2. Children({}) = {}
    BY DEF Children
  <2> QED
    BY <2>1, <2>2 DEF TablesFormTree, Level2, Level3, Level4
<1>2. CASE pml4_phys # None
  <2>1. PICK lev : Tree(tables, pml4_phys, lev)
    BY <1>2, MemSound DEF Good
  <2> DEFINE L(l) == {t \in DOMAIN tables : lev[t] = l}
  <2>2. Level1 = L(1)
    BY <1>2, <2>1 DEF Level1, Tree
  <2>3. Level2 = L(2)
    <3>1. Children(L(1)) = L(1 + 1)
      BY <2>1, LevelBelow
    <3> QED
      BY <2>2, <3>1 DEF Level2
  <2>4. Level3 = L(3)
    <3>1. Children(L(2)) = L(2 + 1)
      BY <2>1, LevelBelow
    <3> QED
      BY <2>3, <3>1 DEF Level3
  <2>5. Level4 = L(4)
    <3>1. Children(L(3)) = L(3 + 1)
      BY <2>1, LevelBelow
    <3> QED
      BY <2>4, <3>1 DEF Level4
  <2>6. \A t \in DOMAIN tables : lev[t] \in {1, 2, 3, 4}
    BY <2>1 DEF Tree
  <2>7. DOMAIN tables = Level1 \cup Level2 \cup Level3 \cup Level4
    BY <2>2, <2>3, <2>4, <2>5, <2>6
  <2>8. ASSUME NEW t \in Level1 \cup Level2 \cup Level3, NEW s \in Level1 \cup Level2 \cup Level3,
               NEW i \in 0 .. ENTRIES - 1, NEW j \in 0 .. ENTRIES - 1,
               tables[t][i].present, tables[s][j].present,
               tables[t][i].address = tables[s][j].address
        PROVE  t = s /\ i = j
    <3>1. /\ t \in DOMAIN tables /\ s \in DOMAIN tables /\ i \in Index /\ j \in Index
          /\ lev[t] \in 1 .. 3 /\ lev[s] \in 1 .. 3
      BY <2>2, <2>3, <2>4 DEF Index
    <3> DEFINE a == tables[t][i].address
    <3>2. Above(tables, lev, t, i, a) /\ a \in DOMAIN tables
      BY <2>1, <2>8, <3>1, Child
    <3>3. Above(tables, lev, s, j, a)
      BY <2>1, <2>8, <3>1, Child
    <3> HIDE DEF a
    <3> QED
      BY <2>1, <3>1, <3>2, <3>3 DEF Tree
  <2> QED
    BY <2>7, <2>8 DEF TablesFormTree
<1> QED
  BY <1>1, <1>2

(* The rights of a leaf are the rights of its walk.                         *)
LEMMA WalkGrants ==
    ASSUME NEW T, NEW lev, Tree(T, pml4_phys, lev), Rights(T, lev), NEW va \in Nat, IsMapped(T, va)
    PROVE  LET e == Leaf(T, pml4_phys, indexes(va))
           IN  Granted(walk(T, va)) = [address |-> e.address, writable |-> e.writable, user |-> e.user]
<1> DEFINE ix == indexes(va)
           c == pml4_phys
           s2 == Second(T, c, ix)
           s3 == Third(T, c, ix)
           s4 == Fourth(T, c, ix)
           i1 == ix[1]
           i2 == ix[2]
           i3 == ix[3]
           i4 == ix[4]
           e1 == T[c][i1]
           e2 == T[s2][i2]
           e3 == T[s3][i3]
           e4 == T[s4][i4]
<1>1. ix \in Indexes /\ i1 \in Index /\ i2 \in Index /\ i3 \in Index /\ i4 \in Index
  BY IndexDigits DEF Indexes
<1>2. Arrives(T, c, ix) /\ Leaf(T, c, ix).present
  BY WalkIs
<1>3. /\ c \in DOMAIN T /\ s2 \in DOMAIN T /\ s3 \in DOMAIN T /\ s4 \in DOMAIN T
      /\ Above(T, lev, c, i1, s2) /\ Above(T, lev, s2, i2, s3) /\ Above(T, lev, s3, i3, s4)
  BY <1>1, <1>2, WalkLevels
<1>4. Leaf(T, c, ix) = e4 /\ e4.present
  BY <1>2 DEF Leaf, NotPresent
<1>5. walk(T, va) = <<e1, e2, e3, e4>>
  <2>1. e1.present /\ e2.present /\ e3.present
    BY <1>2 DEF Arrives
  <2> QED
    BY <2>1 DEF walk, Second, Third, Fourth
<1> HIDE DEF ix, s2, s3, s4, i1, i2, i3, i4
<1>6. IsTables(T)
  BY DEF Tree
<1>7. e1 \in Entry /\ e2 \in Entry /\ e3 \in Entry /\ e4 \in Entry
  BY <1>1, <1>3, <1>6 DEF IsTables
<1>8. (e4.writable => e3.writable) /\ (e4.user => e3.user)
  BY <1>1, <1>3, <1>4 DEF Rights, Permits
<1>9. (e3.writable => e2.writable) /\ (e3.user => e2.user)
  <2>1. e3.present
    BY <1>3 DEF Above
  <2> QED
    BY <1>1, <1>3, <2>1 DEF Rights, Permits
<1>10. (e2.writable => e1.writable) /\ (e2.user => e1.user)
  <2>1. e2.present
    BY <1>3 DEF Above
  <2> QED
    BY <1>1, <1>3, <2>1 DEF Rights, Permits
<1> HIDE DEF e1, e2, e3, e4
<1> DEFINE es == walk(T, va)
<1>11. es[1] = e1 /\ es[2] = e2 /\ es[3] = e3 /\ es[4] = e4
  BY <1>5
<1>12. e4.writable \in BOOLEAN /\ e4.user \in BOOLEAN
  BY <1>7 DEF Entry
<1> HIDE DEF es
<1>13. (\A k \in 1 .. 4 : es[k].writable) <=> e4.writable
  <2>1. \A k \in 1 .. 4 : k = 1 \/ k = 2 \/ k = 3 \/ k = 4
    OBVIOUS
  <2>2. 4 \in 1 .. 4
    OBVIOUS
  <2> QED
    BY <1>8, <1>9, <1>10, <1>11, <2>1, <2>2
<1>14. (\A k \in 1 .. 4 : es[k].user) <=> e4.user
  <2>1. \A k \in 1 .. 4 : k = 1 \/ k = 2 \/ k = 3 \/ k = 4
    OBVIOUS
  <2>2. 4 \in 1 .. 4
    OBVIOUS
  <2> QED
    BY <1>8, <1>9, <1>10, <1>11, <2>1, <2>2
<1>15. Granted(es) = [address |-> e4.address, writable |-> e4.writable, user |-> e4.user]
  BY <1>11, <1>12, <1>13, <1>14 DEF Granted
<1> QED
  BY <1>4, <1>15 DEF es, ix

LEMMA PagesAre ==
    ASSUME NEW p \in Pages
    PROVE  p \in 0 .. VIRTUAL_LIMIT - 1 /\ p \in Nat /\ is_canonical(p) /\ p % PAGE_SIZE = 0
<1> DEFINE F == PAGE_SIZE
           q == VIRTUAL_LIMIT \div F
           s == VIRTUAL_LIMIT % F
<1>1. F \in Nat \ {0} /\ VIRTUAL_LIMIT \in Nat
  BY FrameAssumption, VirtualAssumption DEF PAGE_SIZE
<1>2. q \in Nat /\ s \in 0 .. F - 1 /\ VIRTUAL_LIMIT = q * F + s
  BY <1>1, DivMod
<1>3. PICK k \in 0 .. q - 1 : p = k * F
  BY DEF Pages
<1>4. is_canonical(p)
  BY DEF Pages
<1> HIDE DEF q, s, F
<1>5. k \in Nat /\ k + 1 <= q
  BY <1>2, <1>3
<1>6. k * F \in Nat /\ (k + 1) * F = k * F + F /\ (k + 1) * F <= q * F /\ q * F \in Nat
  <2>1. k + 1 <= q => (k + 1) * F <= q * F
    BY <1>1, <1>2, <1>5
  <2> QED
    BY <1>1, <1>2, <1>5, <2>1
<1>7. p \in Nat /\ p < VIRTUAL_LIMIT
  BY <1>1, <1>2, <1>3, <1>6
<1>8. p % F = 0
  <2>1. 0 \in 0 .. F - 1 /\ k * F = k * F + 0
    BY <1>1, <1>6
  <2>2. (k * F + 0) % F = 0
    BY <1>1, <1>5, <2>1, DivModUnique
  <2> QED
    BY <1>3, <2>1, <2>2
<1> QED
  BY <1>1, <1>4, <1>7, <1>8 DEF F

LEMMA RightsForm == VInv => RightsGranted
<1> SUFFICES ASSUME VInv, pml4_phys # None, NEW p \in Pages, Reaches(walk(tables, p))
             PROVE  Granted(walk(tables, p)) =
                      [address |-> walk(tables, p)[4].address,
                       writable |-> walk(tables, p)[4].writable, user |-> walk(tables, p)[4].user]
  BY DEF RightsGranted
<1>1. PICK lev : Tree(tables, pml4_phys, lev) /\ Rights(tables, lev)
  BY MemSound DEF Good
<1>2. p \in Nat /\ IsMapped(tables, p)
  BY PagesAre DEF IsMapped
<1>3. walk(tables, p)[4] = Leaf(tables, pml4_phys, indexes(p))
  BY <1>1, <1>2, WalkIs
<1> QED
  BY <1>1, <1>2, <1>3, WalkGrants

(* The page tables are a tree: every table hangs on one entry of one table  *)
(* of the level above, so no call that maps or unmaps a page touches        *)
(* another one.                                                             *)
THEOREM TablesAreTree == VSpec => []TablesFormTree
  BY TreeForm, MemoryInvariance, PTL

(* get_or_create_table widens the rights of the tables it finds: what a     *)
(* mapping was asked for is what the processor grants.                      *)
THEOREM RightsAreGranted == VSpec => []RightsGranted
  BY RightsForm, MemoryInvariance, PTL

-----------------------------------------------------------------------------
(* Frames and their uses, counted.                                          *)

(* The address a page of the heap translates to is that of its leaf.        *)
LEMMA HeapTranslate ==
    ASSUME VInv, pml4_phys # None, NEW n \in HeapSet
    PROVE  translate(tables, heap_page(n)) = HeapLeaf(mem, n).address
<1> DEFINE va == heap_page(n)
           a == HeapLeaf(mem, n).address
<1>1. PICK lev : Good(mem, lev) /\ Own(mem, held, HeapSet)
  BY MemSound
<1>2. mem.tables = tables /\ mem.root = pml4_phys
  BY MemSound
<1>3. Tree(tables, pml4_phys, lev)
  BY <1>1, <1>2 DEF Good
<1>4. n \in Nat
  BY MemSound
<1>5. va \in Nat
  BY <1>4, HeapPageNat
<1>6. HeapLeaf(mem, n) = Leaf(tables, pml4_phys, indexes(va)) /\ HeapLeaf(mem, n).present
      /\ a \in Nat
  BY <1>1, <1>2 DEF HeapLeaf, Own, FrameAt
<1>7. IsMapped(tables, va)
  BY <1>3, <1>5, <1>6, WalkIs
<1>8. walk(tables, va)[4] = HeapLeaf(mem, n)
  BY <1>3, <1>5, <1>6, <1>7, WalkIs
<1>9. is_canonical(va) /\ va % PAGE_SIZE = 0
  BY DEF VInv, HeapOK
<1> HIDE DEF va
<1>10. translate(tables, va) = a + 0
  BY <1>7, <1>8, <1>9 DEF translate
<1> QED
  BY <1>6, <1>10 DEF va

(* Sets of frames without a common one add up.                              *)
LEMMA CountApart ==
    ASSUME NEW A, NEW B, IsFiniteSet(A), IsFiniteSet(B), A \cap B = {}
    PROVE  /\ IsFiniteSet(A \cup B)
           /\ Cardinality(A \cup B) = Cardinality(A) + Cardinality(B)
<1>1. /\ IsFiniteSet(A \cup B)
      /\ Cardinality(A \cup B) = Cardinality(A) + Cardinality(B) - Cardinality(A \cap B)
  BY FS_Union
<1>2. Cardinality(A \cap B) = 0 /\ Cardinality(A) \in Nat /\ Cardinality(B) \in Nat
  BY FS_EmptySet, FS_CardinalityType
<1> QED
  BY <1>1, <1>2

LEMMA HeapFramesCounted ==
    ASSUME VInv, pml4_phys # None, heap.initialized
    PROVE  IsFiniteSet(HeapFrames) /\ Cardinality(HeapFrames) = heap.mapped_pages
<1> DEFINE k == heap.mapped_pages
           g == [n \in HeapSet |-> HeapLeaf(mem, n).address \div FRAME_SIZE]
<1>1. k \in Nat /\ HeapSet = 0 .. k - 1
  <2>1. HEAP_SIZE \div PAGE_SIZE \in Nat
    BY FrameAssumption, VirtualAssumption, DivMod DEF PAGE_SIZE
  <2> QED
    BY <2>1 DEF VInv, HeapOK, HeapSet
<1>2. Own(mem, held, HeapSet)
  BY MemSound
<1> HIDE DEF k
<1>3. HeapFrames = {g[n] : n \in HeapSet}
  BY HeapTranslate DEF HeapFrames, HeapSet
<1>4. ASSUME NEW m \in HeapSet, NEW n \in HeapSet, g[m] = g[n] PROVE m = n
  <2> DEFINE a == HeapLeaf(mem, m).address
             b == HeapLeaf(mem, n).address
             A == mem.pmm.allocated \ held
  <2>1. FrameAt(a, A) /\ FrameAt(b, A)
    BY <1>2 DEF Own
  <2>2. a \div FRAME_SIZE = b \div FRAME_SIZE
    BY <1>4
  <2> HIDE DEF a, b, A
  <2>3. a = (a \div FRAME_SIZE) * FRAME_SIZE /\ b = (b \div FRAME_SIZE) * FRAME_SIZE
    BY <2>1, AddressOfFrame
  <2>4. a = b
    BY <2>2, <2>3
  <2> QED
    BY <1>2, <2>4 DEF Own, a, b
<1> HIDE DEF g
<1>5. g \in [HeapSet -> HeapFrames]
  BY <1>3 DEF g
<1>6. g \in Bijection(HeapSet, HeapFrames)
  BY <1>3, <1>4, <1>5 DEF Bijection, Injection, Surjection, IsInjective
<1>7. ExistsBijection(HeapSet, HeapFrames)
  BY <1>6 DEF ExistsBijection
<1>8. IsFiniteSet(HeapSet) /\ Cardinality(HeapSet) = k
  BY <1>1, FS_Interval
<1> QED
  BY <1>7, <1>8, FS_Bijection DEF k

LEMMA UsesForm == VInv => EveryFrameHasOneUse
<1> SUFFICES ASSUME VInv PROVE EveryFrameHasOneUse
  OBVIOUS
<1>1. IsFiniteSet(pmm.allocated)
  <2>1. IsFiniteSet(Frames)
    BY FrameAssumption, FS_Interval DEF Frames
  <2>2. pmm.allocated \in SUBSET Frames
    BY Handed DEF VInv
  <2> QED
    BY <2>1, <2>2, FS_Subset
<1>2. CASE pml4_phys = None
  <2>1. /\ DOMAIN tables = {} /\ ~heap.initialized /\ held = pmm.allocated
        /\ heap.mapped_pages = 0
    BY <1>2 DEF VInv, HeapOK
  <2>2. TableFrames = {} /\ HeapFrames = {}
    BY <2>1 DEF TableFrames, HeapFrames
  <2>3. Cardinality(held) \in Nat /\ Cardinality(TableFrames) = 0
    BY <1>1, <2>1, <2>2, FS_CardinalityType, FS_EmptySet
  <2> QED
    BY <2>1, <2>2, <2>3 DEF EveryFrameHasOneUse
<1>3. CASE pml4_phys # None
  <2>1. mem.pmm = pmm /\ mem.tables = tables
    BY <1>3, MemSound
  <2>2. Own(mem, held, HeapSet)
    BY <1>3, MemSound
  <2> DEFINE A == pmm.allocated
             L(n) == HeapLeaf(mem, n).address
  <2>3. /\ held \subseteq A
        /\ \A t \in DOMAIN tables : FrameAt(t, A \ held)
        /\ \A n \in HeapSet : FrameAt(L(n), A \ held) /\ L(n) \notin DOMAIN tables
        /\ \A f \in A : \/ f \in held
                        \/ f * FRAME_SIZE \in DOMAIN tables
                        \/ \E n \in HeapSet : L(n) = f * FRAME_SIZE
    BY <2>1, <2>2 DEF Own
  <2>4. HeapFrames = {L(n) \div FRAME_SIZE : n \in HeapSet}
    <3>1. CASE heap.initialized
      BY <1>3, <3>1, HeapTranslate DEF HeapFrames, HeapSet
    <3>2. CASE ~heap.initialized
      BY <3>2 DEF VInv, HeapOK, HeapFrames, HeapSet
    <3> QED
      BY <3>1, <3>2
  <2> HIDE DEF A, L
  <2>5. TableFrames \subseteq A \ held /\ HeapFrames \subseteq A \ held
    BY <2>3, <2>4 DEF TableFrames, FrameAt
  <2>6. A \subseteq Nat
    BY Handed DEF VInv, A
  <2>7. A \subseteq held \cup TableFrames \cup HeapFrames
    <3> SUFFICES ASSUME NEW f \in A, f \notin held PROVE f \in TableFrames \cup HeapFrames
      OBVIOUS
    <3> DEFINE a == f * FRAME_SIZE
    <3>1. a \div FRAME_SIZE = f
      BY <2>6, FrameAddress
    <3>2. a \in DOMAIN tables \/ \E n \in HeapSet : L(n) = a
      BY <2>3
    <3> HIDE DEF a
    <3> QED
      BY <2>4, <3>1, <3>2 DEF TableFrames
  <2>8. TableFrames \cap HeapFrames = {}
    <3> SUFFICES ASSUME NEW t \in DOMAIN tables, NEW n \in HeapSet,
                        t \div FRAME_SIZE = L(n) \div FRAME_SIZE
                 PROVE  FALSE
      BY <2>4 DEF TableFrames
    <3> DEFINE b == L(n)
    <3>1. FrameAt(t, A \ held) /\ FrameAt(b, A \ held) /\ b \notin DOMAIN tables
      BY <2>3
    <3>2. t \div FRAME_SIZE = b \div FRAME_SIZE
      OBVIOUS
    <3> HIDE DEF b
    <3>3. t = (t \div FRAME_SIZE) * FRAME_SIZE /\ b = (b \div FRAME_SIZE) * FRAME_SIZE
      BY <3>1, AddressOfFrame
    <3> QED
      BY <3>1, <3>2, <3>3
  <2>9. A = held \cup TableFrames \cup HeapFrames
    BY <2>3, <2>5, <2>7
  <2>10. IsFiniteSet(held) /\ IsFiniteSet(TableFrames) /\ IsFiniteSet(HeapFrames)
    <3>1. IsFiniteSet(A) /\ held \in SUBSET A /\ TableFrames \in SUBSET A /\ HeapFrames \in SUBSET A
      BY <1>1, <2>9 DEF A
    <3> QED
      BY <3>1, FS_Subset
  <2>11. Cardinality(HeapFrames) = heap.mapped_pages
    <3>1. CASE heap.initialized
      BY <1>3, <3>1, HeapFramesCounted
    <3>2. CASE ~heap.initialized
      BY <3>2, FS_EmptySet DEF VInv, HeapOK, HeapFrames
    <3> QED
      BY <3>1, <3>2
  <2> DEFINE B == TableFrames \cup HeapFrames
  <2>12. IsFiniteSet(B) /\ Cardinality(B) = Cardinality(TableFrames) + Cardinality(HeapFrames)
    BY <2>8, <2>10, CountApart
  <2>13. A = held \cup B /\ held \cap B = {}
    BY <2>5, <2>9
  <2> HIDE DEF B
  <2>14. Cardinality(A) = Cardinality(held) + Cardinality(B)
    BY <2>10, <2>12, <2>13, CountApart
  <2>15. Cardinality(held) \in Nat /\ Cardinality(TableFrames) \in Nat /\ Cardinality(HeapFrames) \in Nat
    BY <2>10, FS_CardinalityType
  <2>16. Cardinality(A) = Cardinality(held) + Cardinality(TableFrames) + heap.mapped_pages
    BY <2>11, <2>12, <2>14, <2>15
  <2> QED
    BY <2>9, <2>16 DEF EveryFrameHasOneUse, A
<1> QED
  BY <1>2, <1>3

(* Every frame handed out is with a caller, a table, or under one page of   *)
(* the heap, and counted once: a call that fails half way loses none.       *)
THEOREM FramesHaveOneUse == VSpec => []EveryFrameHasOneUse
  BY UsesForm, MemoryInvariance, PTL

-----------------------------------------------------------------------------
(* The address space as a map from pages to mappings.                       *)

Mapping(e) == [address |-> e.address, writable |-> e.writable, user |-> e.user]

LeafMap(T, root) ==
    [va \in {p \in Pages : Leaf(T, root, indexes(p)).present} |-> Mapping(Leaf(T, root, indexes(va)))]

LEMMA MappingsAre == VInv /\ pml4_phys # None => Mappings = LeafMap(tables, pml4_phys)
<1> SUFFICES ASSUME VInv, pml4_phys # None PROVE Mappings = LeafMap(tables, pml4_phys)
  OBVIOUS
<1> DEFINE A == {p \in Pages : Reaches(walk(tables, p))}
           B == {p \in Pages : Leaf(tables, pml4_phys, indexes(p)).present}
<1>1. PICK lev : Tree(tables, pml4_phys, lev) /\ Rights(tables, lev)
  BY MemSound DEF Good
<1>2. ASSUME NEW p \in Pages
      PROVE  /\ Reaches(walk(tables, p)) <=> Leaf(tables, pml4_phys, indexes(p)).present
             /\ Reaches(walk(tables, p)) =>
                  Granted(walk(tables, p)) = Mapping(Leaf(tables, pml4_phys, indexes(p)))
  <2>1. p \in Nat
    BY PagesAre
  <2>2. IsMapped(tables, p) <=> Leaf(tables, pml4_phys, indexes(p)).present
    BY <1>1, <2>1, WalkIs
  <2>3. IsMapped(tables, p) =>
          Granted(walk(tables, p)) = Mapping(Leaf(tables, pml4_phys, indexes(p)))
    BY <1>1, <2>1, WalkGrants DEF Mapping
  <2> QED
    BY <2>2, <2>3 DEF IsMapped
<1>3. A = B
  BY <1>2
<1>4. Mappings = [va \in A |-> Granted(walk(tables, va))]
  BY DEF Mappings
<1>5. [va \in A |-> Granted(walk(tables, va))] = [va \in A |-> Mapping(Leaf(tables, pml4_phys, indexes(va)))]
  BY <1>2
<1> QED
  BY <1>3, <1>4, <1>5 DEF LeafMap

LEMMA LeafMapIs ==
    ASSUME NEW T, NEW root
    PROVE  /\ DOMAIN LeafMap(T, root) = {p \in Pages : Leaf(T, root, indexes(p)).present}
           /\ \A p \in DOMAIN LeafMap(T, root) :
                LeafMap(T, root)[p] = Mapping(Leaf(T, root, indexes(p)))
  BY DEF LeafMap

(* The pages P, and no others, are mapped in T2 that are not in T.          *)
Adds(T, T2, root, P) ==
    /\ P \subseteq Pages
    /\ \A p \in P : ~Leaf(T, root, indexes(p)).present /\ Leaf(T2, root, indexes(p)).present
    /\ \A p \in Pages \ P : Leaf(T2, root, indexes(p)) = Leaf(T, root, indexes(p))

LEMMA AddedPages ==
    ASSUME NEW T, NEW T2, NEW root, NEW P, Adds(T, T2, root, P)
    PROVE  LET old == LeafMap(T, root)
               new == LeafMap(T2, root)
           IN  /\ DOMAIN old \subseteq DOMAIN new
               /\ DOMAIN new \ DOMAIN old = P
               /\ \A p \in DOMAIN old \cap DOMAIN new : new[p] = old[p]
               /\ P = {} => new = old
<1> DEFINE old == LeafMap(T, root)
           new == LeafMap(T2, root)
<1>1. DOMAIN old = {p \in Pages : Leaf(T, root, indexes(p)).present}
  BY LeafMapIs
<1>2. DOMAIN new = {p \in Pages : Leaf(T2, root, indexes(p)).present}
  BY LeafMapIs
<1>3. DOMAIN old \subseteq DOMAIN new /\ DOMAIN new \ DOMAIN old = P
  BY <1>1, <1>2 DEF Adds
<1>4. ASSUME NEW p \in DOMAIN old PROVE new[p] = old[p]
  <2>1. p \in Pages \ P /\ p \in DOMAIN new
    BY <1>1, <1>3
  <2>2. new[p] = Mapping(Leaf(T2, root, indexes(p)))
    BY <2>1, LeafMapIs
  <2>3. old[p] = Mapping(Leaf(T, root, indexes(p)))
    BY LeafMapIs
  <2> QED
    BY <2>1, <2>2, <2>3 DEF Adds
<1>5. ASSUME P = {} PROVE new = old
  <2>1. DOMAIN new = DOMAIN old
    BY <1>3, <1>5
  <2>2. new = [p \in DOMAIN new |-> new[p]] /\ old = [p \in DOMAIN old |-> old[p]]
    BY DEF LeafMap
  <2> HIDE DEF new, old
  <2> QED
    BY <1>4, <2>1, <2>2
<1> QED
  BY <1>3, <1>4, <1>5

LEMMA NewMapping ==
    ASSUME NEW T, NEW T2, NEW root, NEW P, Adds(T, T2, root, P), NEW p \in P
    PROVE  LeafMap(T2, root)[p] = Mapping(Leaf(T2, root, indexes(p)))
<1>1. p \in DOMAIN LeafMap(T2, root)
  BY LeafMapIs DEF Adds
<1> QED
  BY <1>1, LeafMapIs

(* An aligned canonical address is a page.                                  *)
LEMMA IsPage ==
    ASSUME NEW va \in 0 .. VIRTUAL_LIMIT - 1, is_canonical(va), va % PAGE_SIZE = 0
    PROVE  va \in Pages
<1> DEFINE F == PAGE_SIZE
           V == VIRTUAL_LIMIT
           q == V \div F
           k == va \div F
           E == ENTRIES * ENTRIES * ENTRIES * ENTRIES
           c == V \div (E * F)
<1>1. F \in Nat \ {0} /\ V \in Nat /\ va \in Nat /\ va < V /\ E \in Nat \ {0}
  BY FrameAssumption, VirtualAssumption DEF PAGE_SIZE
<1>2. V % (E * F) = 0
  BY VirtualAssumption DEF PAGE_SIZE
<1>3. k \in Nat /\ va = k * F + 0
  BY <1>1, DivMod
<1> HIDE DEF F, E, k
<1>4. E * F \in Nat \ {0}
  BY <1>1
<1>5. c \in Nat /\ V = c * (E * F) + 0
  BY <1>1, <1>2, <1>4, DivMod
<1> HIDE DEF c
<1>6. c * E \in Nat /\ V = (c * E) * F + 0
  BY <1>1, <1>5
<1>7. q = c * E
  <2> DEFINE d == c * E
  <2>1. d \in Nat /\ V = d * F + 0 /\ 0 \in 0 .. F - 1
    BY <1>1, <1>6
  <2> HIDE DEF d
  <2>2. (d * F + 0) \div F = d
    BY <1>1, <2>1, DivModUnique
  <2> QED
    BY <2>1, <2>2 DEF d
<1>8. k < q
  <2>1. q \in Nat /\ V = q * F
    BY <1>1, <1>6, <1>7
  <2> HIDE DEF q
  <2>2. k * F < q * F
    BY <1>1, <1>3, <2>1
  <2>3. q <= k => q * F <= k * F
    BY <1>1, <1>3, <2>1
  <2>4. k * F \in Nat /\ q * F \in Nat
    BY <1>1, <1>3, <2>1
  <2> QED
    BY <1>3, <2>1, <2>2, <2>3, <2>4
<1>9. k \in 0 .. q - 1 /\ va = k * F
  BY <1>1, <1>3, <1>6, <1>7, <1>8
<1> HIDE DEF q
<1> QED
  BY <1>9 DEF Pages, F, q

(* Different pages have different walks.                                    *)
LEMMA WalksOfPages ==
    ASSUME NEW p \in Pages, NEW q \in Pages, p # q
    PROVE  indexes(p) \in Indexes \ {indexes(q)}
<1>1. /\ p \in 0 .. VIRTUAL_LIMIT - 1 /\ p \in Nat /\ is_canonical(p) /\ p % PAGE_SIZE = 0
      /\ q \in 0 .. VIRTUAL_LIMIT - 1 /\ q \in Nat /\ is_canonical(q) /\ q % PAGE_SIZE = 0
  BY PagesAre
<1>2. indexes(p) # indexes(q)
  BY <1>1, PagesApart
<1>3. indexes(p) \in Indexes
  BY <1>1, IndexDigits
<1> QED
  BY <1>2, <1>3

-----------------------------------------------------------------------------
(* What the calls add.                                                      *)

LEMMA SameAdds ==
    ASSUME NEW T, NEW T2, NEW root, SameLeaves(T, T2, root)
    PROVE  Adds(T, T2, root, {})
<1>1. \A p \in Pages : indexes(p) \in Indexes
  BY PagesAre, IndexDigits
<1> QED
  BY <1>1 DEF Adds, SameLeaves

LEMMA MapAdds ==
    ASSUME NEW m, NEW r, NEW va \in 0 .. VIRTUAL_LIMIT - 1, NEW pa, NEW w, NEW u,
           MapsOne(m, r, va, pa, w, u)
    PROVE  Adds(m.tables, r.tables, m.root, {va})
<1>1. va \in Pages
  BY IsPage DEF MapsOne, MapAllowed
<1>2. \A p \in Pages \ {va} : indexes(p) \in Indexes \ {indexes(va)}
  BY <1>1, WalksOfPages
<1>3. Leaf(r.tables, m.root, indexes(va)).present
  BY DEF MapsOne, make_entry
<1> QED
  BY <1>1, <1>2, <1>3 DEF Adds, MapsOne

LEMMA IdentityAdds ==
    ASSUME NEW m, NEW x, NEW start \in Nat, NEW w, NEW k \in Nat, IdentityDone(m, x, start, w, k),
           \A i \in 0 .. k - 1 : Page(start, i) \in 0 .. VIRTUAL_LIMIT - 1
    PROVE  Adds(m.tables, x.tables, m.root, {Page(start, i) : i \in 0 .. k - 1})
<1> DEFINE P == {Page(start, i) : i \in 0 .. k - 1}
<1>1. P \subseteq Pages
  <2> SUFFICES ASSUME NEW i \in 0 .. k - 1 PROVE Page(start, i) \in Pages
    OBVIOUS
  <2>1. MapAllowed(Page(start, i), Page(start, i))
    BY DEF IdentityDone
  <2> QED
    BY <2>1, IsPage DEF MapAllowed
<1>2. ASSUME NEW p \in P
      PROVE  ~Leaf(m.tables, m.root, indexes(p)).present /\ Leaf(x.tables, m.root, indexes(p)).present
  <2>1. PICK i \in 0 .. k - 1 : p = Page(start, i)
    BY <1>2
  <2>2. /\ ~Leaf(m.tables, m.root, indexes(p)).present
        /\ Leaf(x.tables, m.root, indexes(p)) = make_entry(Page(start, i), w, FALSE)
    BY <2>1 DEF IdentityDone
  <2> QED
    BY <2>2 DEF make_entry
<1>3. ASSUME NEW p \in Pages \ P
      PROVE  Leaf(x.tables, m.root, indexes(p)) = Leaf(m.tables, m.root, indexes(p))
  <2>1. indexes(p) \in Indexes
    BY PagesAre, IndexDigits
  <2>2. \A i \in 0 .. k - 1 : indexes(Page(start, i)) # indexes(p)
    BY <1>1, WalksOfPages
  <2> QED
    BY <2>1, <2>2 DEF IdentityDone
<1> QED
  BY <1>1, <1>2, <1>3 DEF Adds

LEMMA HeapPagesAdd ==
    ASSUME NEW m, NEW x, NEW I, HeapDone(m, x, I),
           \A i \in I : heap_page(i) \in 0 .. VIRTUAL_LIMIT - 1
    PROVE  Adds(m.tables, x.tables, m.root, {heap_page(i) : i \in I})
<1> DEFINE P == {heap_page(i) : i \in I}
<1>1. P \subseteq Pages
  <2> SUFFICES ASSUME NEW i \in I PROVE heap_page(i) \in Pages
    OBVIOUS
  <2> QED
    BY IsPage DEF HeapDone
<1>2. ASSUME NEW p \in P
      PROVE  ~Leaf(m.tables, m.root, indexes(p)).present /\ Leaf(x.tables, m.root, indexes(p)).present
  BY <1>2 DEF HeapDone
<1>3. ASSUME NEW p \in Pages \ P
      PROVE  Leaf(x.tables, m.root, indexes(p)) = Leaf(m.tables, m.root, indexes(p))
  <2>1. indexes(p) \in Indexes
    BY PagesAre, IndexDigits
  <2>2. \A i \in I : indexes(heap_page(i)) # indexes(p)
    BY <1>1, WalksOfPages
  <2> QED
    BY <2>1, <2>2 DEF HeapDone
<1> QED
  BY <1>1, <1>2, <1>3 DEF Adds

-----------------------------------------------------------------------------
(* The steps of the abstract specification.                                 *)

AddressMapIs == IF pml4_phys = None THEN << >> ELSE Mappings

(* The map with the pages P added, each as its leaf says.                   *)
LEMMA AddedIsPlus ==
    ASSUME NEW T, NEW T2, NEW root, NEW P, Adds(T, T2, root, P)
    PROVE  /\ Abstract!Plus(LeafMap(T, root), P, LeafMap(T2, root))
           /\ \A p \in P : LeafMap(T2, root)[p] = Mapping(Leaf(T2, root, indexes(p)))
<1> DEFINE old == LeafMap(T, root)
           new == LeafMap(T2, root)
<1>1. /\ DOMAIN old \subseteq DOMAIN new /\ DOMAIN new \ DOMAIN old = P
      /\ \A p \in DOMAIN old \cap DOMAIN new : new[p] = old[p]
  BY AddedPages
<1>2. \A p \in P : new[p] = Mapping(Leaf(T2, root, indexes(p)))
  BY NewMapping
<1> HIDE DEF old, new
<1>3. Abstract!Plus(old, P, new)
  BY <1>1 DEF Abstract!Plus
<1> QED
  BY <1>2, <1>3 DEF old, new

(* A call leaves the map and its answer alone, or is what the answer says.  *)
Follows ==
    \/ AddressMapIs' = AddressMapIs /\ reply' = reply
    \/ Abstract!Answers(reply', AddressMapIs, AddressMapIs')

LEMMA MapsThen == (VInv /\ pml4_phys # None)' => Mappings' = LeafMap(tables', pml4_phys')
<1>1. (VInv /\ pml4_phys # None => Mappings = LeafMap(tables, pml4_phys))'
  BY MappingsAre, PTL
<1>2. LeafMap(tables, pml4_phys)' = LeafMap(tables', pml4_phys')
  BY DEF LeafMap, Leaf, Arrives, Second, Third, Fourth
<1> QED
  BY <1>1, <1>2

LEMMA CommitMaps ==
    ASSUME VInv, VInv', NEW x, Commit(x)
    PROVE  /\ AddressMapIs = LeafMap(mem.tables, mem.root)
           /\ AddressMapIs' = LeafMap(x.tables, mem.root)
<1>1. pml4_phys # None /\ pml4_phys' = pml4_phys /\ tables' = x.tables
  BY DEF Commit
<1>2. mem.tables = tables /\ mem.root = pml4_phys
  BY <1>1, MemSound
<1>3. Mappings = LeafMap(tables, pml4_phys)
  BY <1>1, MappingsAre
<1>4. Mappings' = LeafMap(tables', pml4_phys')
  BY <1>1, MapsThen
<1> QED
  BY <1>1, <1>2, <1>3, <1>4 DEF AddressMapIs

LEMMA SameMaps ==
    ASSUME VInv, VInv', NEW x, Commit(x), SameLeaves(mem.tables, x.tables, mem.root)
    PROVE  AddressMapIs' = AddressMapIs
<1>1. Adds(mem.tables, x.tables, mem.root, {})
  BY SameAdds
<1>2. LeafMap(x.tables, mem.root) = LeafMap(mem.tables, mem.root)
  BY <1>1, AddedPages
<1> QED
  BY <1>2, CommitMaps

LEMMA MapPageFollows ==
    ASSUME VInv, VInv', MapPage
    PROVE  Follows
<1>1. PICK r \in MapRequests :
        LET m == map(mem, r[1], r[2], r[3], r[4]) IN Commit(m) /\ reply' = Answer("map", r, m.ok)
  BY DEF MapPage
<1> DEFINE va == r[1]
           pa == r[2]
           w == r[3]
           u == r[4]
           x == map(mem, va, pa, w, u)
<1>2. va \in 0 .. VIRTUAL_LIMIT - 1 /\ va \in Nat /\ pa \in Nat /\ w \in BOOLEAN /\ u \in BOOLEAN
  BY VirtualAssumption
<1>3. /\ pml4_phys # None /\ Commit(x)
      /\ reply'.call = "map" /\ reply'.request = r /\ reply'.ok = x.ok
  BY <1>1 DEF Commit, Answer
<1> DEFINE old == AddressMapIs
           new == AddressMapIs'
<1> SUFFICES Abstract!Map(r, x.ok, old, new)
  BY <1>3 DEF Follows, Abstract!Answers
<1> HIDE DEF va, pa, w, u
<1>4. Mapped(mem, x, held, HeapSet, va, pa, w, u)
  <2>1. PICK lev : Good(mem, lev) /\ Own(mem, held, HeapSet)
    BY <1>3, MemSound
  <2>2. mem.ok /\ HeapSet \in SUBSET Nat
    BY <1>3, MemSound
  <2> QED
    BY <1>2, <2>1, <2>2, Map
<1> HIDE DEF x
<1>5. CASE x.ok
  <2>1. Adds(mem.tables, x.tables, mem.root, {va})
    BY <1>2, <1>4, <1>5, MapAdds DEF Mapped
  <2>2. Leaf(x.tables, mem.root, indexes(va)) = make_entry(pa, w, u)
    BY <1>4, <1>5 DEF Mapped, MapsOne
  <2>3. old = LeafMap(mem.tables, mem.root) /\ new = LeafMap(x.tables, mem.root)
    BY <1>3, CommitMaps
  <2> HIDE DEF old, new
  <2>4. Abstract!Plus(old, {va}, new) /\ new[va] = Mapping(make_entry(pa, w, u))
    BY <2>1, <2>2, <2>3, AddedIsPlus
  <2>5. Mapping(make_entry(pa, w, u)) = [address |-> pa, writable |-> w, user |-> u]
    BY DEF Mapping, make_entry
  <2> QED
    BY <1>5, <2>4, <2>5 DEF Abstract!Map, va, pa, w, u
<1>6. CASE ~x.ok
  <2>1. new = old
    BY <1>3, <1>4, <1>6, SameMaps DEF Mapped
  <2> QED
    BY <1>6, <2>1 DEF Abstract!Map
<1> QED
  BY <1>5, <1>6

LEMMA UnmapPageFollows ==
    ASSUME VInv, VInv', UnmapPage
    PROVE  Follows
<1>1. PICK va \in {r[1] : r \in MapRequests} :
        /\ pml4_phys # None /\ unmaps(tables, va) /\ Commit(unmap(mem, va))
        /\ reply' = Answer("unmap", va, TRUE)
  BY DEF UnmapPage
<1> DEFINE ix == indexes(va)
           x == unmap(mem, va)
<1>2. va \in 0 .. VIRTUAL_LIMIT - 1 /\ va \in Nat
  BY VirtualAssumption
<1>3. PICK lev : Good(mem, lev)
  BY <1>1, MemSound
<1>4. mem.tables = tables /\ mem.root = pml4_phys
  BY <1>1, MemSound
<1>5. is_canonical(va) /\ va % PAGE_SIZE = 0 /\ IsMapped(tables, va)
  BY <1>1 DEF unmaps
<1>6. va \in Pages
  BY <1>2, <1>5, IsPage
<1>7. Leaf(mem.tables, mem.root, ix).present
  <2>1. Tree(tables, pml4_phys, lev)
    BY <1>3, <1>4 DEF Good
  <2> QED
    BY <1>2, <1>4, <1>5, <2>1, WalkIs
<1>8. /\ Leaf(x.tables, mem.root, ix) = NotPresent
      /\ \A jx \in Indexes \ {ix} : Leaf(x.tables, mem.root, jx) = Leaf(mem.tables, mem.root, jx)
  BY <1>2, <1>3, <1>4, <1>7, Unmap
<1> HIDE DEF x
<1>9. Adds(x.tables, mem.tables, mem.root, {va})
  <2>1. \A p \in Pages \ {va} : indexes(p) \in Indexes \ {ix}
    BY <1>6, WalksOfPages
  <2>2. ~Leaf(x.tables, mem.root, ix).present
    BY <1>8 DEF NotPresent
  <2> QED
    BY <1>6, <1>7, <1>8, <2>1, <2>2 DEF Adds
<1>10. Abstract!Plus(AddressMapIs', {va}, AddressMapIs)
  BY <1>1, <1>9, CommitMaps, AddedIsPlus DEF x
<1>11. reply'.call = "unmap" /\ reply'.request = va
  BY <1>1 DEF Answer
<1> QED
  BY <1>10, <1>11 DEF Follows, Abstract!Answers, Abstract!Unmap

(* The pages of a range that ends below the limit are below it.             *)
LEMMA RangePages ==
    ASSUME NEW start \in Nat, NEW end \in 0 .. VIRTUAL_LIMIT - 1, start < end,
           NEW k \in 0 .. (end - start) \div PAGE_SIZE, NEW i \in 0 .. k - 1
    PROVE  Page(start, i) \in 0 .. VIRTUAL_LIMIT - 1
<1> DEFINE F == PAGE_SIZE
           d == end - start
           q == d \div F
<1>1. F \in Nat \ {0} /\ VIRTUAL_LIMIT \in Nat /\ d \in Nat
  BY FrameAssumption, VirtualAssumption DEF PAGE_SIZE
<1>2. q \in Nat /\ d % F \in 0 .. F - 1 /\ d = q * F + (d % F)
  BY <1>1, DivMod
<1>3. k \in 0 .. q
  OBVIOUS
<1> DEFINE s == d % F
<1> HIDE DEF q, F, s
<1>4. i \in Nat /\ i < q
  BY <1>2, <1>3
<1>5. i * F \in Nat /\ q * F \in Nat /\ i * F < q * F
  <2>1. i + 1 <= q => (i + 1) * F <= q * F
    BY <1>1, <1>2, <1>4
  <2>2. (i + 1) * F = i * F + F
    BY <1>1, <1>4
  <2>3. i * F \in Nat /\ q * F \in Nat
    BY <1>1, <1>2, <1>4
  <2> QED
    BY <1>1, <1>2, <1>4, <2>1, <2>2, <2>3
<1>6. s \in Nat /\ end - start = q * F + s
  BY <1>1, <1>2 DEF s
<1>7. start + i * F \in 0 .. VIRTUAL_LIMIT - 1
  BY <1>1, <1>5, <1>6
<1> QED
  BY <1>7 DEF Page, F

LEMMA IdentityFollows ==
    ASSUME VInv, VInv', IdentityMap
    PROVE  Follows
<1>1. PICK r \in IdentityRequests :
        LET m == identity_map(mem, r[1], r[2], r[3]) IN
          r[1] < r[2] /\ Commit(m) /\ reply' = Answer("identity_map", r, m.ok)
  BY DEF IdentityMap
<1> DEFINE start == r[1]
           end == r[2]
           w == r[3]
           last == (end - start) \div PAGE_SIZE
           x == identity_map(mem, start, end, w)
           P(k) == {Page(start, i) : i \in 0 .. k - 1}
           old == AddressMapIs
           new == AddressMapIs'
<1>2. /\ start \in Nat /\ end \in Nat /\ end \in 0 .. VIRTUAL_LIMIT - 1 /\ start < end
      /\ w \in BOOLEAN
  BY <1>1, VirtualAssumption
<1>3. /\ pml4_phys # None /\ Commit(x)
      /\ reply'.call = "identity_map" /\ reply'.request = r /\ reply'.ok = x.ok
  BY <1>1 DEF Commit, Answer
<1> SUFFICES Abstract!IdentityMap(r, x.ok, old, new)
  BY <1>3 DEF Follows, Abstract!Answers
<1>4. \A k : P(k) = Abstract!First(r[1], k)
  BY DEF Abstract!First, Page
<1> HIDE DEF start, end, w
<1>5. PICK lev : Good(mem, lev) /\ Own(mem, held, HeapSet)
  BY <1>3, MemSound
<1>6. mem.ok /\ HeapSet \in SUBSET Nat
  BY <1>3, MemSound
<1>7. PICK k \in 0 .. last : IdentityDone(mem, x, start, w, k) /\ (x.ok <=> k = last)
  BY <1>2, <1>5, <1>6, IdentityMaps
<1> HIDE DEF x
<1>8. last \in Nat
  BY <1>2, FrameAssumption, DivMod DEF PAGE_SIZE
<1>9. \A i \in 0 .. k - 1 : Page(start, i) \in 0 .. VIRTUAL_LIMIT - 1
  BY <1>2, <1>7, RangePages
<1> HIDE DEF last
<1>10. k \in Nat
  BY <1>7, <1>8
<1>11. Adds(mem.tables, x.tables, mem.root, P(k))
  BY <1>2, <1>7, <1>9, <1>10, IdentityAdds
<1>12. old = LeafMap(mem.tables, mem.root) /\ new = LeafMap(x.tables, mem.root)
  BY <1>3, CommitMaps
<1>13. ASSUME NEW p \in P(k)
       PROVE  Mapping(Leaf(x.tables, mem.root, indexes(p))) =
                [address |-> p, writable |-> w, user |-> FALSE]
  <2>1. PICK i \in 0 .. k - 1 : p = Page(start, i)
    BY <1>13
  <2>2. Leaf(x.tables, mem.root, indexes(p)) = make_entry(p, w, FALSE)
    BY <1>7, <2>1 DEF IdentityDone
  <2> QED
    BY <2>2 DEF make_entry, Mapping
<1> HIDE DEF P, old, new
<1>14. /\ Abstract!Plus(old, P(k), new)
       /\ \A p \in P(k) : new[p] = [address |-> p, writable |-> w, user |-> FALSE]
  BY <1>11, <1>12, <1>13, AddedIsPlus
<1>15. P(k) = Abstract!First(r[1], k)
  BY <1>4
<1> QED
  BY <1>7, <1>14, <1>15 DEF Abstract!IdentityMap, last, start, end, w

LEMMA HeapFollows ==
    ASSUME VInv, VInv', HeapInitialize
    PROVE  Follows
<1>1. PICK pages \in 1 .. HEAP_SIZE \div PAGE_SIZE :
        LET m == heap_map(mem, pages) IN
          ~heap.initialized /\ Commit(m) /\ reply' = Answer("heap", pages, m.ok)
  BY DEF HeapInitialize
<1> DEFINE x == heap_map(mem, pages)
           q == HEAP_SIZE \div PAGE_SIZE
           I == 0 .. pages - 1
           P == {heap_page(i) : i \in I}
           old == AddressMapIs
           new == AddressMapIs'
<1>2. q \in Nat
  BY FrameAssumption, VirtualAssumption, DivMod DEF PAGE_SIZE
<1>3. pages \in 1 .. q
  BY <1>1
<1>4. P = Abstract!First(HEAP_START, pages)
  BY DEF Abstract!First, heap_page
<1> HIDE DEF q
<1>5. pages \in Nat /\ 0 \in I /\ \A i \in I : i \in Nat /\ i < q
  BY <1>2, <1>3
<1>6. /\ ~heap.initialized /\ Commit(x) /\ pml4_phys # None
      /\ reply'.call = "heap" /\ reply'.request = pages /\ reply'.ok = x.ok
  BY <1>1 DEF Commit, Answer
<1> SUFFICES Abstract!MapHeap(pages, x.ok, old, new)
  BY <1>6 DEF Follows, Abstract!Answers
<1>7. HeapSet = {}
  BY <1>6 DEF VInv, HeapOK, HeapSet
<1>8. PICK lev : Good(mem, lev) /\ Own(mem, held, {})
  BY <1>6, <1>7, MemSound
<1>9. mem.root = pml4_phys /\ mem.ok
  BY <1>6, MemSound
<1>10. HeapFine(mem, x, held, pages)
  BY <1>5, <1>8, <1>9, HeapMaps
<1> HIDE DEF x
<1>11. CASE ~x.ok
  <2>1. new = old
    BY <1>6, <1>10, <1>11, SameMaps DEF HeapFine, LeavesNothing
  <2> QED
    BY <1>11, <2>1 DEF Abstract!MapHeap
<1>12. CASE x.ok
  <2>1. x.root = mem.root /\ Own(x, held, I) /\ HeapDone(mem, x, I)
    BY <1>10, <1>12 DEF HeapFine
  <2> HIDE DEF I
  <2>2. \A i \in I : heap_page(i) \in 0 .. VIRTUAL_LIMIT - 1
    BY <1>5, HeapPageInRange DEF q
  <2>3. Adds(mem.tables, x.tables, mem.root, P)
    BY <2>1, <2>2, HeapPagesAdd
  <2>4. old = LeafMap(mem.tables, mem.root) /\ new = LeafMap(x.tables, mem.root)
    BY <1>6, CommitMaps
  <2> HIDE DEF old, new
  <2>5. Abstract!Plus(old, P, new)
    BY <2>3, <2>4, AddedIsPlus
  <2>6. \A p \in P : new[p] = Mapping(Leaf(x.tables, mem.root, indexes(p)))
    BY <2>3, <2>4, AddedIsPlus
  <2>7. ASSUME NEW i \in I
        PROVE  /\ new[heap_page(i)].writable /\ ~new[heap_page(i)].user
               /\ new[heap_page(i)].address = HeapLeaf(x, i).address
    <3>1. Leaf(x.tables, mem.root, indexes(heap_page(i))) = HeapLeaf(x, i)
      BY <2>1 DEF HeapLeaf
    <3>2. HeapLeaf(x, i).writable /\ ~HeapLeaf(x, i).user
      BY <2>1, <3>1 DEF HeapDone
    <3>3. new[heap_page(i)] = Mapping(HeapLeaf(x, i))
      BY <2>6, <3>1
    <3> QED
      BY <3>2, <3>3 DEF Mapping
  <2>8. \A i, j \in I : HeapLeaf(x, i).address = HeapLeaf(x, j).address => i = j
    BY <2>1 DEF Own
  <2>9. \A p \in P : new[p].writable /\ ~new[p].user
    BY <2>7
  <2>10. \A a, b \in P : new[a].address = new[b].address => a = b
    BY <2>7, <2>8
  <2> HIDE DEF P
  <2> QED
    BY <1>4, <1>12, <2>5, <2>9, <2>10 DEF Abstract!MapHeap
<1> QED
  BY <1>11, <1>12

(* A new address space maps nothing.                                        *)
LEMMA NewFollows ==
    ASSUME VInv, VInv', AddressSpace_new
    PROVE  Follows
<1> DEFINE a == pml4_phys'
           T == [t \in {a} |-> zeroed]
<1>1. /\ pml4_phys = None /\ tables' = T /\ a = first_free(pmm) * FRAME_SIZE /\ HasFree(pmm)
      /\ reply' = reply
  BY DEF AddressSpace_new
<1>2. a # None
  <2>1. first_free(pmm) \in Nat
    BY <1>1, TakeOne DEF VInv
  <2>2. first_free(pmm) * FRAME_SIZE \in Nat
    BY <2>1, FrameAddress
  <2> QED
    BY <1>1, <2>2 DEF None
<1>3. AddressMapIs' = LeafMap(T, a)
  BY <1>1, <1>2, MapsThen DEF AddressMapIs
<1> HIDE DEF a
<1>4. \A ix \in Indexes : ~Leaf(T, a, ix).present
  <2> TAKE ix \in Indexes
  <2>1. T[a] = zeroed /\ ix[1] \in 0 .. ENTRIES - 1
    BY DEF Indexes, Index
  <2>2. ~T[a][ix[1]].present
    BY <2>1 DEF zeroed, NotPresent
  <2> HIDE DEF T
  <2>3. Leaf(T, a, ix) = NotPresent
    BY <2>2 DEF Leaf, Arrives
  <2> QED
    BY <2>3 DEF NotPresent
<1> HIDE DEF T
<1>5. {p \in Pages : Leaf(T, a, indexes(p)).present} = {}
  BY <1>4, PagesAre, IndexDigits
<1>6. LeafMap(T, a) = << >>
  BY <1>5 DEF LeafMap
<1> QED
  BY <1>1, <1>3, <1>6 DEF Follows, AddressMapIs

(* The other calls leave the tables alone.                                  *)
LEMMA SameTablesFollow ==
    ASSUME tables' = tables, pml4_phys' = pml4_phys, reply' = reply
    PROVE  Follows
<1>1. Mappings' = Mappings
  BY DEF Mappings, walk
<1> QED
  BY <1>1 DEF Follows, AddressMapIs

LEMMA StepFollows ==
    ASSUME VInv, VInv', [VNext]_all_vars
    PROVE  Follows
<1>1. CASE Boot \/ Allocate \/ Free \/ UNCHANGED all_vars
  <2>1. tables' = tables /\ pml4_phys' = pml4_phys /\ reply' = reply
    BY <1>1 DEF Boot, Allocate, Free, all_vars, vm_vars
  <2> QED
    BY <2>1, SameTablesFollow
<1> QED
  BY <1>1, NewFollows, MapPageFollows, UnmapPageFollows, IdentityFollows, HeapFollows DEF VNext

(* The address space does what a map from pages to mappings promises: a     *)
(* call that succeeds has changed the pages it was asked for, as it was     *)
(* asked, and no other; one that fails half way has changed none, or, for   *)
(* identity_map, has mapped the pages before the one that failed.           *)
THEOREM AddressMapImplemented == VSpec => ImplementsAddressMap
<1>1. VInit => Abstract!AInit
  BY DEF VInit, Answer, Abstract!AInit
<1>2. VInv /\ VInv' /\ [VNext]_all_vars => Follows
  BY StepFollows
<1>3. Follows => [Abstract!ANext]_<<IF pml4_phys = None THEN << >> ELSE Mappings, reply>>
  BY DEF Follows, AddressMapIs, Abstract!ANext
<1> QED
  BY <1>1, <1>2, <1>3, MemoryInvariance, PTL DEF VSpec, ImplementsAddressMap, Abstract!ASpec
=============================================================================

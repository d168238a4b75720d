-------------------------- MODULE ObjectTableProofs --------------------------
(***************************************************************************)
(* Proofs about the object table for every number of slots, width of the   *)
(* generation and reference limit.  The properties are inductive together  *)
(* with GenerationIsBirth (before the wrap, generations count the objects  *)
(* retired) and FutureUnborn (no trace of objects not created yet).        *)
(***************************************************************************)
EXTENDS ObjectTable, TLAPS

(* Until it wraps, a slot's generation is one more than the number of       *)
(* objects retired from it, and the handle of object <<i, r>> has r + 1.    *)
GenerationIsBirth ==
    \A i \in Index :
      /\ NotWrapped(i) => slots[i].generation = retired[i] + 1
      /\ \A r \in Births :
           Issued(i, r) /\ NotWrapped(i)
             => issued[i][r].generation = r + 1

(* Objects that slot i has not had yet have no holders and no handle; the   *)
(* one it has is known by its type.                                         *)
FutureUnborn ==
    \A i \in Index :
      /\ \A r \in Births : r > retired[i] => outstanding[i][r] = 0 /\ issued[i][r] = INVALID
      /\ ~slots[i].occupied => outstanding[i][retired[i]] = 0 /\ issued[i][retired[i]] = INVALID
      /\ slots[i].occupied =>
           /\ kind[i][retired[i]] = slots[i].object_type
           /\ issued[i][retired[i]] = [index |-> i, generation |-> slots[i].generation]

(* A handle that was issued names its slot.                                 *)
IssuedHere == \A i \in Index, r \in Births : Issued(i, r) => issued[i][r].index = i

IInv ==
    /\ TypeOK
    /\ GenerationIsBirth
    /\ FutureUnborn
    /\ IssuedHere
    /\ CountsMatchHolders
    /\ OccupiedIffReferenced

(* The initial table satisfies the inductive invariant.                     *)
LEMMA InitIInv == Init => IInv
<1> SUFFICES ASSUME Init PROVE IInv
  OBVIOUS
<1> USE TableAssumption DEF Init, ObjectSlot_empty
<1>1. TypeOK
  BY DEF TypeOK, ObjectSlot, Generations, Births, ObjectHandle, INVALID
<1>2. GenerationIsBirth
  BY DEF GenerationIsBirth, Issued
<1>3. FutureUnborn
  BY DEF FutureUnborn, Births
<1>4. IssuedHere /\ CountsMatchHolders /\ OccupiedIffReferenced
  BY DEF IssuedHere, Issued, CountsMatchHolders, OccupiedIffReferenced
<1> QED
  BY <1>1, <1>2, <1>3, <1>4 DEF IInv

(* A handle that is valid reaches the object its slot holds now, if the     *)
(* slot has not wrapped.                                                    *)
LEMMA ValidIsCurrent ==
    ASSUME IInv, NEW i \in Index, NEW r \in Births, is_valid(issued[i][r])
    PROVE  /\ slots[i].occupied
           /\ issued[i][r].index = i
           /\ NotWrapped(i) => r = retired[i]
<1>1. Issued(i, r) /\ issued[i][r].index = i
  BY DEF IInv, IssuedHere, is_valid, Issued
<1>2. slots[i].generation = issued[i][r].generation
  BY <1>1 DEF is_valid
<1>4. slots[i].occupied
  BY <1>1 DEF is_valid
<1>3. ASSUME NotWrapped(i) PROVE r = retired[i]
  <2>1. slots[i].generation = retired[i] + 1
    BY <1>3 DEF IInv, GenerationIsBirth
  <2>2. issued[i][r].generation = r + 1
    BY <1>1, <1>3 DEF IInv, GenerationIsBirth
  <2>3. r \in Nat /\ retired[i] \in Nat
    BY TableAssumption DEF IInv, TypeOK, Births
  <2>4. r + 1 = retired[i] + 1
    BY <1>2, <2>1, <2>2, Zenon
  <2> QED
    BY <2>3, <2>4
<1> QED
  BY <1>1, <1>3, <1>4

(* create: a new object at the front of its slot's history.                 *)
LEMMA CreateIInv ==
    ASSUME IInv, NEW type \in ObjectType, create(type)
    PROVE  IInv'
<1>1. PICK i \in Index :
        /\ ~slots[i].occupied
        /\ slots' = [slots EXCEPT ![i] = [occupied |-> TRUE, references |-> 1,
                                          generation |-> slots[i].generation,
                                          object_type |-> type]]
        /\ outstanding' = [outstanding EXCEPT ![i][retired[i]] = 1]
        /\ kind' = [kind EXCEPT ![i][retired[i]] = type]
        /\ issued' = [issued EXCEPT ![i][retired[i]] =
                         [index |-> i, generation |-> slots[i].generation]]
        /\ retired' = retired
  BY DEF create
<1>t. TypeOK
  BY DEF IInv
<1> DEFINE h == [index |-> i, generation |-> slots[i].generation]
<1>2. retired[i] \in Births /\ slots[i] \in ObjectSlot /\ retired[i] \in Nat
  BY <1>t, TableAssumption DEF TypeOK, Births
<1>3. h \in ObjectHandle /\ h # INVALID
  <2>1. slots[i].generation \in Nat /\ slots[i].generation # 0 /\ i \in Nat
    BY <1>2, TableAssumption DEF ObjectSlot, Generations, Index
  <2> QED
    BY <2>1 DEF ObjectHandle, INVALID
<1>4. TypeOK'
  <2>1. slots' \in [Index -> ObjectSlot]
    BY <1>t, <1>1, <1>2, TableAssumption DEF TypeOK, ObjectSlot
  <2> QED
    BY <2>1, <1>t, <1>1, <1>2, <1>3 DEF TypeOK
<1>5. ASSUME NEW j \in Index
      PROVE  /\ j # i => slots'[j] = slots[j]
             /\ \A r \in Births : ~(j = i /\ r = retired[i]) =>
                  /\ outstanding'[j][r] = outstanding[j][r]
                  /\ kind'[j][r] = kind[j][r]
                  /\ issued'[j][r] = issued[j][r]
  BY <1>t, <1>1, <1>2 DEF TypeOK
<1>6. /\ slots'[i].occupied
      /\ slots'[i].references = 1
      /\ slots'[i].generation = slots[i].generation
      /\ slots'[i].object_type = type
      /\ outstanding'[i][retired[i]] = 1
      /\ kind'[i][retired[i]] = type
      /\ issued'[i][retired[i]] = h
  BY <1>t, <1>1, <1>2 DEF TypeOK
<1> HIDE DEF h
<1>7. GenerationIsBirth'
  BY <1>1, <1>2, <1>5, <1>6 DEF IInv, GenerationIsBirth, NotWrapped, Issued, h
<1>8. FutureUnborn'
  BY <1>1, <1>2, <1>5, <1>6 DEF IInv, FutureUnborn, TypeOK, Births, h
<1>9. IssuedHere'
  BY <1>1, <1>2, <1>5, <1>6 DEF IInv, IssuedHere, Issued, h
<1>10. CountsMatchHolders'
  BY <1>t, <1>1, <1>2, <1>5, <1>6 DEF IInv, CountsMatchHolders, NotWrapped, TypeOK
<1>11. OccupiedIffReferenced'
  BY <1>5, <1>6 DEF IInv, OccupiedIffReferenced
<1> QED
  BY <1>4, <1>7, <1>8, <1>9, <1>10, <1>11 DEF IInv

(* retain, and release of a reference that is not the last.                 *)
LEMMA CountChangeIInv ==
    ASSUME IInv, NEW i \in Index, NEW r \in Births, NEW n \in 1 .. ReferenceMax,
           NEW m \in Nat, is_valid(issued[i][r]),
           slots' = [slots EXCEPT ![i].references = n],
           outstanding' = [outstanding EXCEPT ![i][r] = m],
           UNCHANGED <<retired, kind, issued>>,
           NotWrapped(i) => n = m
    PROVE  IInv'
<1>t. TypeOK
  BY DEF IInv
<1>v. slots[i].occupied /\ (NotWrapped(i) => r = retired[i])
  BY ValidIsCurrent
<1>2. retired[i] \in Births /\ slots[i] \in ObjectSlot
  BY <1>t DEF TypeOK
<1>4. TypeOK'
  <2>1. [slots[i] EXCEPT !.references = n] \in ObjectSlot
    BY <1>2, TableAssumption DEF ObjectSlot
  <2>2. slots' = [slots EXCEPT ![i] = [slots[i] EXCEPT !.references = n]]
    BY <1>t DEF TypeOK
  <2>3. slots' \in [Index -> ObjectSlot]
    BY <2>1, <2>2, <1>t DEF TypeOK
  <2> QED
    BY <2>3, <1>t DEF TypeOK
<1>5. ASSUME NEW j \in Index
      PROVE  /\ j # i => slots'[j] = slots[j]
             /\ \A q \in Births : ~(j = i /\ q = r) =>
                  outstanding'[j][q] = outstanding[j][q]
  BY <1>t, <1>2 DEF TypeOK
<1>6. /\ slots'[i].occupied
      /\ slots'[i].references = n
      /\ slots'[i].generation = slots[i].generation
      /\ slots'[i].object_type = slots[i].object_type
      /\ outstanding'[i][r] = m
  BY <1>t, <1>v, <1>2 DEF TypeOK, ObjectSlot
<1>7. GenerationIsBirth'
  BY <1>5, <1>6 DEF IInv, GenerationIsBirth, NotWrapped, Issued
<1>8. FutureUnborn'
  <2>1. ~(r > retired[i])
    BY DEF IInv, FutureUnborn, is_valid
  <2> QED
    BY <2>1, <1>v, <1>5, <1>6 DEF IInv, FutureUnborn
<1>9. IssuedHere'
  BY DEF IInv, IssuedHere, Issued
<1>10. CountsMatchHolders'
  BY <1>v, <1>2, <1>5, <1>6 DEF IInv, CountsMatchHolders, NotWrapped, TypeOK
<1>11. OccupiedIffReferenced'
  <2>1. n > 0
    OBVIOUS
  <2> QED
    BY <2>1, <1>5, <1>6 DEF IInv, OccupiedIffReferenced
<1> QED
  BY <1>4, <1>7, <1>8, <1>9, <1>10, <1>11 DEF IInv

(* clear: the slot moves on to its next object.                             *)
LEMMA ClearIInv ==
    ASSUME IInv, NEW i \in Index, retired[i] < MaxRetired, slots[i].occupied,
           slots' = [slots EXCEPT ![i] = clear(slots[i])],
           retired' = [retired EXCEPT ![i] = @ + 1],
           UNCHANGED <<kind, issued>>,
           outstanding' \in [Index -> [Births -> Nat]],
           \A j \in Index, q \in Births :
             ~(j = i /\ q <= retired[i]) => outstanding'[j][q] = outstanding[j][q]
    PROVE  IInv'
<1>t. TypeOK
  BY DEF IInv
<1>2. /\ retired[i] \in Nat /\ retired[i] + 1 \in Births
      /\ slots[i].generation \in Generations
  BY <1>t, TableAssumption, SMTT(30) DEF TypeOK, Births, ObjectSlot
<1>3. clear(slots[i]) \in ObjectSlot
  <2> DEFINE g == IF slots[i].generation + 1 = GenerationLimit THEN 1
                  ELSE slots[i].generation + 1
  <2>1. g \in Generations
    <3>1. ASSUME NEW k \in Generations
          PROVE  (IF k + 1 = GenerationLimit THEN 1 ELSE k + 1) \in Generations
      BY TableAssumption DEF Generations
    <3> QED
      BY <1>2, <3>1
  <2> HIDE DEF g
  <2>2. [occupied |-> FALSE, references |-> 0, object_type |-> NoType, generation |-> g]
          \in ObjectSlot
    BY <2>1, TableAssumption DEF ObjectSlot
  <2> QED
    BY <2>2 DEF clear, g
<1>4. TypeOK'
  BY <1>t, <1>2, <1>3 DEF TypeOK
<1>5. /\ slots'[i] = clear(slots[i])
      /\ retired'[i] = retired[i] + 1
      /\ \A j \in Index : j # i => slots'[j] = slots[j] /\ retired'[j] = retired[j]
  BY <1>t DEF TypeOK
<1>6. /\ ~slots'[i].occupied
      /\ slots'[i].references = 0
      /\ slots'[i].generation = IF slots[i].generation + 1 = GenerationLimit THEN 1
                                ELSE slots[i].generation + 1
  BY <1>5 DEF clear
<1>7. GenerationIsBirth'
  <2> SUFFICES ASSUME NEW j \in Index, NotWrapped(j)'
               PROVE  /\ slots'[j].generation = retired'[j] + 1
                      /\ \A q \in Births : Issued(j, q)' => issued'[j][q].generation = q + 1
    BY DEF GenerationIsBirth
  <2>1. NotWrapped(j)
    <3>1. retired'[j] < GenerationLimit - 1
      BY DEF NotWrapped
    <3>2. retired'[j] = IF j = i THEN retired[i] + 1 ELSE retired[j]
      BY <1>5
    <3> QED
      BY <3>1, <3>2, <1>2, TableAssumption DEF NotWrapped
  <2>2. slots[j].generation = retired[j] + 1
    BY <2>1 DEF IInv, GenerationIsBirth
  <2>3. slots'[j].generation = retired'[j] + 1
    BY <1>2, <1>5, <1>6, <2>2, TableAssumption DEF NotWrapped
  <2> QED
    BY <2>1, <2>3 DEF IInv, GenerationIsBirth, Issued
<1>8. FutureUnborn'
  <2>1. \A q \in Births : q \in Nat
    BY DEF Births
  <2>2. \A q \in Births : q > retired[i] =>
           outstanding'[i][q] = 0 /\ issued'[i][q] = INVALID
    <3> SUFFICES ASSUME NEW q \in Births, q > retired[i]
                 PROVE  outstanding'[i][q] = 0 /\ issued'[i][q] = INVALID
      OBVIOUS
    <3>1. outstanding[i][q] = 0 /\ issued[i][q] = INVALID
      BY DEF IInv, FutureUnborn
    <3>2. ~(q <= retired[i])
      BY <1>2, <2>1
    <3> QED
      BY <3>1, <3>2
  <2>3. ASSUME NEW j \in Index, j # i
        PROVE  /\ \A q \in Births : q > retired'[j] =>
                     outstanding'[j][q] = 0 /\ issued'[j][q] = INVALID
               /\ ~slots'[j].occupied =>
                     outstanding'[j][retired'[j]] = 0 /\ issued'[j][retired'[j]] = INVALID
               /\ slots'[j].occupied =>
                     /\ kind'[j][retired'[j]] = slots'[j].object_type
                     /\ issued'[j][retired'[j]] =
                          [index |-> j, generation |-> slots'[j].generation]
    <3>1. retired[j] \in Births
      BY <1>t DEF TypeOK
    <3> QED
      BY <1>5, <2>3, <3>1 DEF IInv, FutureUnborn
  <2>4. /\ \A q \in Births : q > retired'[i] =>
              outstanding'[i][q] = 0 /\ issued'[i][q] = INVALID
        /\ outstanding'[i][retired'[i]] = 0 /\ issued'[i][retired'[i]] = INVALID
    BY <1>2, <1>5, <2>1, <2>2
  <2> QED
    BY <1>6, <2>3, <2>4 DEF FutureUnborn
<1>9. IssuedHere'
  BY DEF IInv, IssuedHere, Issued
<1>10. CountsMatchHolders'
  BY <1>t, <1>5, <1>6 DEF IInv, CountsMatchHolders, NotWrapped, TypeOK
<1>11. OccupiedIffReferenced'
  BY <1>5, <1>6 DEF IInv, OccupiedIffReferenced
<1> QED
  BY <1>4, <1>7, <1>8, <1>9, <1>10, <1>11 DEF IInv

(* The handle of the object a slot holds is valid.                          *)
LEMMA CurrentIsValid ==
    ASSUME IInv, NEW i \in Index, slots[i].occupied
    PROVE  is_valid(issued[i][retired[i]])
<1>1. issued[i][retired[i]] = [index |-> i, generation |-> slots[i].generation]
  BY DEF IInv, FutureUnborn
<1>2. slots[i].generation \in Nat /\ slots[i].generation # 0
  BY TableAssumption DEF IInv, TypeOK, ObjectSlot, Generations
<1>3. i < MAX_KERNEL_OBJECTS
  BY TableAssumption DEF Index
<1> QED
  BY <1>1, <1>2, <1>3 DEF is_valid, INVALID

(* release through a handle whose object is gone.                           *)
LEMMA StaleReleaseIInv ==
    ASSUME IInv, NEW i \in Index, NEW r \in Births, outstanding[i][r] > 0,
           ~is_valid(issued[i][r]),
           outstanding' = [outstanding EXCEPT ![i][r] = @ - 1],
           UNCHANGED <<slots, retired, kind, issued>>
    PROVE  IInv'
<1>t. TypeOK
  BY DEF IInv
<1>1. outstanding[i][r] \in Nat /\ r \in Nat /\ retired[i] \in Births
  BY <1>t, TableAssumption DEF TypeOK, Births
<1>2. TypeOK'
  BY <1>t, <1>1 DEF TypeOK
<1>3. \A j \in Index, q \in Births :
        ~(j = i /\ q = r) => outstanding'[j][q] = outstanding[j][q]
  BY <1>t DEF TypeOK
<1>4. r # retired[i] /\ ~(r > retired[i])
  <2>1. outstanding[i][r] # 0
    BY <1>1
  <2>2. slots[i].occupied => r # retired[i]
    BY CurrentIsValid
  <2> QED
    BY <2>1, <2>2 DEF IInv, FutureUnborn
<1>5. FutureUnborn'
  BY <1>3, <1>4 DEF IInv, FutureUnborn
<1>6. CountsMatchHolders'
  BY <1>t, <1>3, <1>4 DEF IInv, CountsMatchHolders, NotWrapped, TypeOK
<1>7. GenerationIsBirth' /\ IssuedHere' /\ OccupiedIffReferenced'
  BY DEF IInv, GenerationIsBirth, IssuedHere, OccupiedIffReferenced, NotWrapped, Issued
<1> QED
  BY <1>2, <1>5, <1>6, <1>7 DEF IInv

(* Each operation preserves the inductive invariant.                        *)
LEMMA NextIInv == IInv /\ [Next]_vars => IInv'
<1> SUFFICES ASSUME IInv, [Next]_vars PROVE IInv'
  OBVIOUS
<1>t. TypeOK
  BY DEF IInv
<1>1. ASSUME NEW type \in ObjectType, create(type) PROVE IInv'
  BY <1>1, CreateIInv
<1>2. ASSUME NEW i \in Index, NEW r \in Births
      PROVE  /\ slots[i].references \in 0 .. ReferenceMax
             /\ outstanding[i][r] \in Nat
             /\ is_valid(issued[i][r]) => slots[i].references > 0
  <2>1. slots[i].references \in 0 .. ReferenceMax
    BY <1>t DEF TypeOK, ObjectSlot
  <2>2. outstanding[i][r] \in Nat
    BY <1>t DEF TypeOK
  <2>3. is_valid(issued[i][r]) => slots[i].references > 0
    BY ValidIsCurrent DEF IInv, OccupiedIffReferenced
  <2> QED
    BY <2>1, <2>2, <2>3
<1>3. ASSUME NEW i \in Index, NEW r \in Births, is_valid(issued[i][r]), NotWrapped(i)
      PROVE  slots[i].references = outstanding[i][r]
  BY <1>3, ValidIsCurrent DEF IInv, CountsMatchHolders
<1>4. ASSUME NEW i \in Index, NEW r \in Births, retain(i, r) PROVE IInv'
  <2> DEFINE n == slots[i].references + 1
             m == outstanding[i][r] + 1
  <2>1. n \in 1 .. ReferenceMax /\ m \in Nat
    BY <1>2, <1>4, TableAssumption DEF retain
  <2>2. /\ slots' = [slots EXCEPT ![i].references = n]
        /\ outstanding' = [outstanding EXCEPT ![i][r] = m]
        /\ UNCHANGED <<retired, kind, issued>>
        /\ is_valid(issued[i][r])
    BY <1>4 DEF retain
  <2>3. NotWrapped(i) => n = m
    BY <1>3, <2>2
  <2> HIDE DEF n, m
  <2> QED
    BY <2>1, <2>2, <2>3, CountChangeIInv
<1>5. ASSUME NEW i \in Index, NEW r \in Births, release(i, r) PROVE IInv'
  <2>1. /\ outstanding[i][r] > 0
        /\ outstanding' = [outstanding EXCEPT ![i][r] = @ - 1]
        /\ UNCHANGED <<kind, issued>>
    BY <1>5 DEF release
  <2>2. CASE ~is_valid(issued[i][r]) /\ UNCHANGED <<slots, retired>>
    BY <2>1, <2>2, StaleReleaseIInv
  <2>3. CASE /\ is_valid(issued[i][r]) /\ ~releases_last(slots[i])
             /\ slots' = [slots EXCEPT ![i].references = @ - 1]
             /\ UNCHANGED retired
    <3> DEFINE n == slots[i].references - 1
               m == outstanding[i][r] - 1
    <3>1. n \in 1 .. ReferenceMax /\ m \in Nat
      BY <1>2, <2>1, <2>3, TableAssumption DEF releases_last
    <3>2. /\ slots' = [slots EXCEPT ![i].references = n]
          /\ outstanding' = [outstanding EXCEPT ![i][r] = m]
      BY <2>1, <2>3
    <3>3. NotWrapped(i) => n = m
      BY <1>3, <2>3
    <3> HIDE DEF n, m
    <3> QED
      BY <2>1, <2>3, <3>1, <3>2, <3>3, CountChangeIInv
  <2>4. CASE /\ is_valid(issued[i][r]) /\ releases_last(slots[i])
             /\ retired[i] < MaxRetired
             /\ slots' = [slots EXCEPT ![i] = clear(@)]
             /\ retired' = [retired EXCEPT ![i] = @ + 1]
    <3>1. slots[i].occupied /\ ~(r > retired[i])
      BY <2>4, ValidIsCurrent DEF IInv, FutureUnborn, is_valid
    <3>2. r <= retired[i]
      <4>1. r \in Int /\ retired[i] \in Int
        BY <1>t DEF TypeOK, Births
      <4> QED
        BY <3>1, <4>1
    <3>3. outstanding' \in [Index -> [Births -> Nat]]
      BY <1>t, <1>2, <2>1 DEF TypeOK
    <3>4. \A j \in Index, q \in Births :
            ~(j = i /\ q <= retired[i]) => outstanding'[j][q] = outstanding[j][q]
      BY <1>t, <2>1, <3>2 DEF TypeOK
    <3> QED
      BY <2>1, <2>4, <3>1, <3>3, <3>4, ClearIInv
  <2> QED
    BY <1>5, <2>2, <2>3, <2>4 DEF release
<1>6. ASSUME NEW i \in Index, NEW r \in Births, destroy(i, r) PROVE IInv'
  <2>1. slots[i].occupied
    BY <1>6, ValidIsCurrent DEF destroy
  <2> QED
    BY <1>t, <1>6, <2>1, ClearIInv DEF destroy, TypeOK
<1>7. CASE UNCHANGED vars
  BY <1>7 DEF vars, ghosts, IInv, TypeOK, GenerationIsBirth, FutureUnborn, IssuedHere,
     CountsMatchHolders, OccupiedIffReferenced, NotWrapped, Issued
<1> QED
  BY <1>1, <1>4, <1>5, <1>6, <1>7 DEF Next

(* The table keeps its inductive invariant in every behaviour.              *)
THEOREM Invariance == Spec => []IInv
BY InitIInv, NextIInv, PTL DEF Spec

(* Slots, counts and ghosts keep their types; in particular the wrapped     *)
(* generation 0, the one INVALID has, is never stored by clear.             *)
THEOREM TypeCorrect == Spec => []TypeOK
<1>1. IInv => TypeOK
  BY DEF IInv
<1> QED
  BY <1>1, Invariance, PTL

(* A handle never reaches an object other than its own before its slot's    *)
(* generation has wrapped, for every width of the generation.               *)
THEOREM HandlesAreSound == Spec => []StaleHandlesRefused
<1>1. IInv => StaleHandlesRefused
  BY ValidIsCurrent DEF StaleHandlesRefused
<1> QED
  BY <1>1, Invariance, PTL

(* get_type tells the holder of a handle the type of its own object.        *)
THEOREM GetTypeIsSound == Spec => []TypesTruthful
<1>1. IInv => TypesTruthful
  <2> SUFFICES ASSUME IInv, NEW i \in Index, NEW r \in Births, NotWrapped(i)
               PROVE  get_type(issued[i][r]) \in {kind[i][r], NoType}
    BY DEF TypesTruthful
  <2>1. CASE ~is_valid(issued[i][r])
    BY <2>1 DEF get_type
  <2>2. CASE is_valid(issued[i][r])
    <3>1. slots[i].occupied /\ issued[i][r].index = i /\ r = retired[i]
      BY <2>2, ValidIsCurrent
    <3>2. kind[i][r] = slots[i].object_type
      BY <3>1 DEF IInv, FutureUnborn
    <3> QED
      BY <2>2, <3>1, <3>2 DEF get_type
  <2> QED
    BY <2>1, <2>2
<1> QED
  BY <1>1, Invariance, PTL

(* The reference count of a live object is the number of references held,   *)
(* and a slot is occupied exactly while it is positive.                     *)
THEOREM CountsAreExact == Spec => [](CountsMatchHolders /\ OccupiedIffReferenced)
<1>1. IInv => CountsMatchHolders /\ OccupiedIffReferenced
  BY DEF IInv
<1> QED
  BY <1>1, Invariance, PTL

(* The slot of a live object is freed by the last of its holders or by a    *)
(* destroy with its own handle, never by the release or destroy of another  *)
(* object's handle.                                                         *)
THEOREM LiveObjectsStay == Spec => OnlyDestroyTakesAway
<1>1. ASSUME IInv, [Next]_vars
      PROVE  [\A i \in Index :
                NotWrapped(i) /\ slots[i].occupied /\ retired'[i] # retired[i]
                  => \/ outstanding'[i][retired[i]] = 0
                     \/ destroy(i, retired[i])]_vars
  <2> SUFFICES ASSUME Next, NEW i \in Index,
                      NotWrapped(i), slots[i].occupied, retired'[i] # retired[i]
               PROVE  outstanding'[i][retired[i]] = 0 \/ destroy(i, retired[i])
    BY <1>1
  <2>1. TypeOK
    BY <1>1 DEF IInv
  <2>2. ASSUME NEW r \in Births, is_valid(issued[i][r])
        PROVE  r = retired[i] /\ slots[i].references = outstanding[i][r]
    BY <1>1, <2>2, ValidIsCurrent DEF IInv, CountsMatchHolders
  <2>3. ASSUME NEW type \in ObjectType, create(type) PROVE FALSE
    BY <2>3 DEF create
  <2>4. ASSUME NEW j \in Index, NEW r \in Births, retain(j, r) PROVE FALSE
    BY <2>4 DEF retain
  <2>5. ASSUME NEW j \in Index, NEW r \in Births, release(j, r)
        PROVE  outstanding'[i][retired[i]] = 0
    <3>1. /\ j = i /\ is_valid(issued[j][r]) /\ releases_last(slots[j])
          /\ outstanding' = [outstanding EXCEPT ![j][r] = @ - 1]
      BY <2>1, <2>5 DEF release, TypeOK
    <3>2. r = retired[i] /\ outstanding[i][r] = 1
      BY <2>2, <3>1 DEF releases_last
    <3> QED
      BY <2>1, <3>1, <3>2 DEF TypeOK
  <2>6. ASSUME NEW j \in Index, NEW r \in Births, destroy(j, r)
        PROVE  destroy(i, retired[i])
    <3>1. j = i /\ is_valid(issued[j][r])
      BY <2>1, <2>6 DEF destroy, TypeOK
    <3>2. r = retired[i]
      BY <2>2, <3>1
    <3> QED
      BY <2>6, <3>1, <3>2
  <2> QED
    BY <2>3, <2>4, <2>5, <2>6 DEF Next
<1> QED
  BY <1>1, Invariance, PTL DEF Spec, OnlyDestroyTakesAway
=============================================================================

----------------------------- MODULE ObjectTable -----------------------------
(***************************************************************************)
(* The kernel object table (kernel/src/objects/{object,table}.rs): a fixed *)
(* array of slots, handles made of an index and the slot's generation, and *)
(* a reference count per object.  Every method holds the table's spinlock  *)
(* from its first look at a slot to its return, so each is one step.       *)
(*                                                                         *)
(* Ghost state names objects apart although slots and generations are      *)
(* reused: the object created in slot i after r earlier ones were retired  *)
(* there is <<i, r>>.  issued is the handle create returned for it, kind   *)
(* its type, outstanding the number of references its clients hold.        *)
(* Clients release only references they hold, but they may hold them past  *)
(* a destroy they do not know of.                                          *)
(***************************************************************************)
EXTENDS Integers

CONSTANTS
    MAX_KERNEL_OBJECTS,     \* slots of the table (64)
    GenerationLimit,        \* 2^32: generation is a u32
    ReferenceMax,           \* u32::MAX
    ObjectType,
    NoType,                 \* Option::None of a type
    MaxRetired              \* bound: objects retired from one slot

ASSUME TableAssumption ==
    /\ MAX_KERNEL_OBJECTS \in Nat \ {0}
    /\ GenerationLimit \in Nat /\ GenerationLimit > 1
    /\ ReferenceMax \in Nat \ {0}
    /\ MaxRetired \in Nat
    /\ NoType \notin ObjectType

VARIABLES
    slots,          \* [ObjectSlot; MAX_KERNEL_OBJECTS]
    retired,        \* ghost: number of objects that slot has lost
    outstanding,    \* ghost: references held on object <<i, r>>
    kind,           \* ghost: the type object <<i, r>> was created with
    issued          \* ghost: the handle of object <<i, r>>

ghosts == <<retired, outstanding, kind, issued>>
vars == <<slots, ghosts>>

Index == 0 .. MAX_KERNEL_OBJECTS - 1
Generations == 1 .. GenerationLimit - 1
Births == 0 .. MaxRetired

(* record is None exactly when references is 0 and object_type is NoType.   *)
ObjectSlot == [occupied : BOOLEAN, generation : Generations,
               references : 0 .. ReferenceMax, object_type : ObjectType \cup {NoType}]

ObjectSlot_empty ==
    [occupied |-> FALSE, generation |-> 1, references |-> 0, object_type |-> NoType]

(* A handle's raw value is (generation << 32) | index.                      *)
ObjectHandle == [index : Nat, generation : Nat]
INVALID == [index |-> 0, generation |-> 0]

(* Mutant: the generation does not move when a slot is freed.               *)
clear_KeepsGeneration(slot) ==
    [occupied |-> FALSE, references |-> 0, object_type |-> NoType,
     generation |-> slot.generation]

(* Mutant: the wrapped generation 0 is used.                                *)
clear_AllowsZero(slot) ==
    [occupied |-> FALSE, references |-> 0, object_type |-> NoType,
     generation |-> (slot.generation + 1) % GenerationLimit]

clear(slot) ==
    [occupied |-> FALSE, references |-> 0, object_type |-> NoType,
     generation |-> IF slot.generation + 1 = GenerationLimit THEN 1
                    ELSE slot.generation + 1]

(* The early returns that every method taking a handle starts with.         *)
is_valid(h) ==
    /\ h # INVALID
    /\ h.index < MAX_KERNEL_OBJECTS
    /\ slots[h.index].occupied
    /\ slots[h.index].generation = h.generation

get_type(h) == IF is_valid(h) THEN slots[h.index].object_type ELSE NoType

-----------------------------------------------------------------------------
Init ==
    /\ slots = [i \in Index |-> ObjectSlot_empty]
    /\ retired = [i \in Index |-> 0]
    /\ outstanding = [i \in Index |-> [r \in Births |-> 0]]
    /\ kind = [i \in Index |-> [r \in Births |-> NoType]]
    /\ issued = [i \in Index |-> [r \in Births |-> INVALID]]

(* The first free slot gets the object; with none free, None is returned.   *)
create(type) ==
    \E i \in Index :
      /\ ~slots[i].occupied
      /\ \A j \in Index : j < i => slots[j].occupied
      /\ slots' = [slots EXCEPT ![i] = [occupied |-> TRUE, references |-> 1,
                                        generation |-> slots[i].generation,
                                        object_type |-> type]]
      /\ outstanding' = [outstanding EXCEPT ![i][retired[i]] = 1]
      /\ kind' = [kind EXCEPT ![i][retired[i]] = type]
      /\ issued' = [issued EXCEPT ![i][retired[i]] =
                       [index |-> i, generation |-> slots[i].generation]]
      /\ UNCHANGED retired

(* Mutant: at u32::MAX the caller is told true although nothing is counted. *)
retain_Saturates(i, r) ==
    /\ outstanding[i][r] > 0
    /\ is_valid(issued[i][r])
    /\ slots' = [slots EXCEPT ![i].references = IF @ < ReferenceMax THEN @ + 1 ELSE @]
    /\ outstanding' = [outstanding EXCEPT ![i][r] = @ + 1]
    /\ UNCHANGED <<retired, kind, issued>>

(* A holder of object <<i, r>> retains it: refused when the object is gone  *)
(* or its count is at u32::MAX.                                             *)
retain(i, r) ==
    /\ outstanding[i][r] > 0
    /\ is_valid(issued[i][r])
    /\ slots[i].references < ReferenceMax
    /\ slots' = [slots EXCEPT ![i].references = @ + 1]
    /\ outstanding' = [outstanding EXCEPT ![i][r] = @ + 1]
    /\ UNCHANGED <<retired, kind, issued>>

(* Mutant: the slot is freed one release early.                             *)
releases_last_OffByOne(slot) == slot.references <= 2

releases_last(slot) == slot.references = 1

(* A holder gives up a reference.  The slot is cleared with the last one;   *)
(* a handle of an object that is gone is refused and changes no slot.       *)
release(i, r) ==
    /\ outstanding[i][r] > 0
    /\ outstanding' = [outstanding EXCEPT ![i][r] = @ - 1]
    /\ UNCHANGED <<kind, issued>>
    /\ \/ ~is_valid(issued[i][r]) /\ UNCHANGED <<slots, retired>>
       \/ /\ is_valid(issued[i][r]) /\ ~releases_last(slots[i])
          /\ slots' = [slots EXCEPT ![i].references = @ - 1]
          /\ UNCHANGED retired
       \/ /\ is_valid(issued[i][r]) /\ releases_last(slots[i])
          /\ retired[i] < MaxRetired
          /\ slots' = [slots EXCEPT ![i] = clear(@)]
          /\ retired' = [retired EXCEPT ![i] = @ + 1]

(* Anyone who was ever given the handle destroys the object, whatever the   *)
(* reference count.                                                         *)
destroy(i, r) ==
    /\ is_valid(issued[i][r])
    /\ retired[i] < MaxRetired
    /\ slots' = [slots EXCEPT ![i] = clear(@)]
    /\ retired' = [retired EXCEPT ![i] = @ + 1]
    /\ UNCHANGED <<outstanding, kind, issued>>

Next ==
    \/ \E type \in ObjectType : create(type)
    \/ \E i \in Index, r \in Births : retain(i, r) \/ release(i, r) \/ destroy(i, r)

Spec == Init /\ [][Next]_vars

-----------------------------------------------------------------------------
(* Properties.                                                              *)

(* Slots of the table: generation is never 0, the value of an invalid handle, *)
(* also after clear has wrapped it, and references stay within u32.         *)
TypeOK ==
    /\ slots \in [Index -> ObjectSlot]
    /\ retired \in [Index -> Births]
    /\ outstanding \in [Index -> [Births -> Nat]]
    /\ kind \in [Index -> [Births -> ObjectType \cup {NoType}]]
    /\ issued \in [Index -> [Births -> ObjectHandle]]

(* The slot has not yet reused a generation: fewer than 2^32 - 1 objects    *)
(* have been retired from it.                                               *)
NotWrapped(i) == retired[i] < GenerationLimit - 1

(* Some object was created as <<i, r>>.                                     *)
Issued(i, r) == issued[i][r] # INVALID

(* A handle reaches the object it was issued for or nothing: after that     *)
(* object is gone its handle stays refused however often the slot is        *)
(* reused, until the slot's generation has gone all the way round.          *)
StaleHandlesRefused ==
    \A i \in Index, r \in Births :
        Issued(i, r) /\ NotWrapped(i) /\ is_valid(issued[i][r]) => r = retired[i]

(* get_type answers with the type the caller's own object was created with, *)
(* or None.                                                                 *)
TypesTruthful ==
    \A i \in Index, r \in Births :
        Issued(i, r) /\ NotWrapped(i) => get_type(issued[i][r]) \in {kind[i][r], NoType}

(* The count of a live object is the number of references its clients hold: *)
(* saturation, stale releases and destroys included, none is lost or        *)
(* counted twice.                                                           *)
CountsMatchHolders ==
    \A i \in Index :
        NotWrapped(i) /\ slots[i].occupied
          => slots[i].references = outstanding[i][retired[i]]

(* An occupied slot has a reference left and a free one has none: no slot   *)
(* leaks with a count of zero.                                              *)
OccupiedIffReferenced ==
    \A i \in Index : slots[i].occupied <=> slots[i].references > 0

(* An object whose references are held goes away only by a destroy.         *)
OnlyDestroyTakesAway ==
    [][\A i \in Index :
         NotWrapped(i) /\ slots[i].occupied /\ retired'[i] # retired[i]
           => \/ outstanding'[i][retired[i]] = 0
              \/ destroy(i, retired[i])]_vars
=============================================================================

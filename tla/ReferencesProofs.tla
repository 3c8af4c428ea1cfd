-------------------------- MODULE ReferencesProofs --------------------------
(***************************************************************************)
(* Theorems about References for any number of references, lua_States and   *)
(* universes, with registries that have more slots than there are           *)
(* references: each slot taken has one owner, a call leaves what other      *)
(* references refer to alone, no value comes to another universe than its   *)
(* own, and accesses to tables leave the stacks and the other tables as     *)
(* they were.                                                               *)
(***************************************************************************)
EXTENDS References, FiniteSetTheorems, SequenceTheorems, TLAPS

Records == [lua : State \cup {NULL}, ref : Slot \cup {NOREF}]
Registries == [Universes -> [Slot -> Value \cup {Free}]]

(* r owns slot i of u, by the references rf                                *)
Owns(rf, r, u, i) ==
  rf[r].lua # NULL /\ rf[r].ref = i /\ Universe[rf[r].lua] = u

(* The slots taken in the registries rg are those the references rf own,   *)
(* each once.                                                              *)
Owned(rf, rg) ==
  /\ rf \in [Ref -> Records]
  /\ rg \in Registries
  /\ \A u \in Universes, i \in Slot :
       rg[u][i] # Free <=> \E r \in Ref : Owns(rf, r, u, i)
  /\ \A u \in Universes, i \in Slot, r, q \in Ref :
       Owns(rf, r, u, i) /\ Owns(rf, q, u, i) => r = q

(* What r refers to                                                        *)
Refers(rf, rg, r) ==
  IF rf[r].lua # NULL /\ rf[r].ref # NOREF
  THEN rg[Universe[rf[r].lua]][rf[r].ref] ELSE Nil

(* A record that owns nothing, or a slot that is free in rg                *)
Fresh(x, rg) ==
  /\ x \in Records
  /\ x.ref # NOREF => x.lua # NULL /\ rg[Universe[x.lua]][x.ref] = Free

(* set_ref: v is stored in the slot of x, which r owns then, and what r     *)
(* owned before is given back.                                             *)
Given(rf, rg, r, x, v, rf2, rg2) ==
  /\ Owned(rf, rg) /\ r \in Ref /\ Fresh(x, rg) /\ v \in Value
  /\ rf2 = [rf EXCEPT ![r] = x]
  /\ rg2 = Unref(Stored(rg, x, v), rf[r])

OwnInv == Owned(ref, registry)

----------------------------------------------------------------------------
(* Registries                                                              *)

\* There are more slots than references (RefAssumption), so luaL_ref finds a
\* free one in every registry.
LEMMA SlotLeft ==
  ASSUME NEW rf, NEW rg, Owned(rf, rg), NEW u \in Universes
  PROVE  \E i \in Slot : rg[u][i] = Free
<1> DEFINE Slots == {rf[r].ref : r \in Ref}
           f == [r \in Ref |-> rf[r].ref]
<1>1. IsFiniteSet(Slots) /\ Cardinality(Slots) <= Cardinality(Ref)
  <2>1. f \in Surjection(Ref, Slots)
    BY DEF Surjection
  <2> QED
    BY <2>1, FS_Surjection, RefAssumption DEF ExistsSurjection
<1>2. SUFFICES ASSUME \A i \in Slot : rg[u][i] # Free PROVE FALSE
  OBVIOUS
<1>3. Slot \subseteq Slots
  BY <1>2 DEF Owned, Owns
<1>4. Cardinality(Slot) <= Cardinality(Slots)
  BY <1>1, <1>3, FS_Subset
<1>5. Cardinality(Slot) \in Nat /\ Cardinality(Slots) \in Nat /\ Cardinality(Ref) \in Nat
  BY <1>1, FS_CardinalityType, RefAssumption
<1> QED
  BY <1>1, <1>4, <1>5, RefAssumption

\* The record luaL_ref gives is fresh.
LEMMA RefOfFresh ==
  ASSUME NEW rf, NEW rg, Owned(rf, rg), NEW s \in State, NEW v
  PROVE  Fresh(RefOf(rg, s, v), rg)
<1>1. Universe[s] \in Universes
  BY DEF Universes
<1>2. FreeSlot(rg, Universe[s]) \in Slot /\ rg[Universe[s]][FreeSlot(rg, Universe[s])] = Free
  BY <1>1, SlotLeft DEF FreeSlot
<1> QED
  BY <1>2, SlotAssumption DEF Fresh, RefOf, Invalid, Records

\* So does Invalid, the record of a reference to nothing.
LEMMA InvalidFresh ==
  ASSUME NEW rg, NEW s \in State \cup {NULL}
  PROVE  Fresh(Invalid(s), rg)
BY DEF Fresh, Invalid, Records

\* After set_ref every slot taken has one owner again, and every other
\* reference refers to what it did.
LEMMA SetOwned ==
  ASSUME NEW rf, NEW rg, NEW r, NEW x, NEW v, NEW rf2, NEW rg2,
         Given(rf, rg, r, x, v, rf2, rg2)
  PROVE  /\ Owned(rf2, rg2)
         /\ \A q \in Ref \ {r} : Refers(rf2, rg2, q) = Refers(rf, rg, q)
<1> Owned(rf, rg) /\ r \in Ref /\ Fresh(x, rg) /\ v \in Value
  BY DEF Given
<1> DEFINE rg1 == Stored(rg, x, v)
           Old(u, i) == Owns(rf, r, u, i)
           New(u, i) == Owns(rf2, r, u, i)
<1>0. rf[r] \in Records /\ v # Free /\ x \in Records
  BY SlotAssumption DEF Owned, Fresh
<1>a. \A y \in Records : y.lua # NULL => Universe[y.lua] \in Universes
  BY DEF Records, Universes
<1>1. rf2 \in [Ref -> Records] /\ rf2[r] = x /\ \A q \in Ref \ {r} : rf2[q] = rf[q]
  BY <1>0 DEF Owned, Given
<1>2. /\ rg1 \in Registries
      /\ \A u \in Universes, i \in Slot : rg1[u][i] = IF New(u, i) THEN v ELSE rg[u][i]
  <2>1. CASE x.ref = NOREF
    BY <2>1, <1>1, SlotAssumption DEF Stored, Owned, Owns
  <2>2. CASE x.ref # NOREF
    <3>1. x.ref \in Slot /\ Universe[x.lua] \in Universes /\ x.lua # NULL
      BY <2>2, <1>0, <1>a DEF Fresh, Records
    <3>2. rg1 = [rg EXCEPT ![Universe[x.lua]][x.ref] = v]
      BY <2>2 DEF Stored
    <3> QED
      BY <3>1, <3>2, <1>1 DEF Owned, Owns, Registries
  <2> QED
    BY <2>1, <2>2
<1>3. /\ rg2 \in Registries
      /\ \A u \in Universes, i \in Slot : rg2[u][i] = IF Old(u, i) THEN Free ELSE rg1[u][i]
  <2>0. rg2 = Unref(rg1, rf[r])
    BY DEF Given
  <2> HIDE DEF rg1
  <2>1. CASE ~(rf[r].lua # NULL /\ rf[r].ref # NOREF)
    BY <2>0, <2>1, <1>2, SlotAssumption DEF Unref, Owns
  <2>2. CASE rf[r].lua # NULL /\ rf[r].ref # NOREF
    <3>1. rf[r].ref \in Slot /\ Universe[rf[r].lua] \in Universes
      BY <2>2, <1>0, <1>a DEF Records
    <3>2. rg2 = [rg1 EXCEPT ![Universe[rf[r].lua]][rf[r].ref] = Free]
      BY <2>0, <2>2 DEF Unref
    <3> QED
      BY <3>1, <3>2, <2>2, <1>2 DEF Owns, Registries
  <2> QED
    BY <2>1, <2>2
<1>4. \A u \in Universes, i \in Slot : New(u, i) => rg[u][i] = Free
  BY <1>1, SlotAssumption DEF Fresh, Owns
<1>5. \A u \in Universes, i \in Slot, q \in Ref \ {r} : Owns(rf2, q, u, i) <=> Owns(rf, q, u, i)
  BY <1>1 DEF Owns
<1> HIDE DEF rg1
<1>6. \A u \in Universes, i \in Slot : rg2[u][i] # Free <=> \E q \in Ref : Owns(rf2, q, u, i)
  <2> TAKE u \in Universes, i \in Slot
  <2>1. CASE New(u, i)
    <3>1. ~Old(u, i)
      BY <2>1, <1>4 DEF Owned
    <3> QED
      BY <2>1, <3>1, <1>0, <1>2, <1>3
  <2>2. CASE ~New(u, i) /\ Old(u, i)
    <3>1. \A q \in Ref \ {r} : ~Owns(rf, q, u, i)
      BY <2>2 DEF Owned
    <3> QED
      BY <2>2, <3>1, <1>3, <1>5
  <2>3. CASE ~New(u, i) /\ ~Old(u, i)
    <3>1. rg2[u][i] = rg[u][i]
      BY <2>3, <1>2, <1>3
    <3>2. rg[u][i] # Free <=> \E q \in Ref \ {r} : Owns(rf, q, u, i)
      BY <2>3 DEF Owned
    <3> QED
      BY <2>3, <3>1, <3>2, <1>5
  <2> QED
    BY <2>1, <2>2, <2>3
<1>7. \A u \in Universes, i \in Slot, p, q \in Ref :
        Owns(rf2, p, u, i) /\ Owns(rf2, q, u, i) => p = q
  <2> SUFFICES ASSUME NEW u \in Universes, NEW i \in Slot, NEW p \in Ref, NEW q \in Ref,
                      Owns(rf2, p, u, i), Owns(rf2, q, u, i), p # q, q # r
               PROVE  FALSE
    OBVIOUS
  <2>1. Owns(rf, q, u, i) /\ rg[u][i] # Free
    BY <1>5 DEF Owned
  <2>2. p # r
    BY <2>1, <1>4
  <2> QED
    BY <2>1, <2>2, <1>5 DEF Owned
<1>8. Owned(rf2, rg2)
  BY <1>1, <1>3, <1>6, <1>7 DEF Owned
<1>9. \A q \in Ref \ {r} : Refers(rf2, rg2, q) = Refers(rf, rg, q)
  <2> SUFFICES ASSUME NEW q \in Ref \ {r}, rf[q].lua # NULL, rf[q].ref # NOREF
               PROVE  rg2[Universe[rf[q].lua]][rf[q].ref] = rg[Universe[rf[q].lua]][rf[q].ref]
    BY <1>1 DEF Refers
  <2> DEFINE u == Universe[rf[q].lua]
             i == rf[q].ref
  <2>1. u \in Universes /\ i \in Slot
    BY <1>a DEF Owned, Records
  <2>2. Owns(rf, q, u, i)
    BY DEF Owns
  <2>3. rg[u][i] # Free /\ ~Old(u, i)
    BY <2>1, <2>2 DEF Owned
  <2> QED
    BY <2>1, <2>3, <1>2, <1>3, <1>4
<1> QED
  BY <1>8, <1>9

----------------------------------------------------------------------------
(* Calls                                                                   *)

\* What Held and Refers have in common: a state's references.
LEMMA HeldRefers ==
  \A r : Held(r) = Refers(ref, registry, r) /\ Held(r)' = Refers(ref', registry', r)
BY DEF Held, Refers, Valid, In

\* What a reference refers to is a value.
LEMMA HeldValue ==
  ASSUME OwnInv, NEW r \in Ref
  PROVE  Held(r) \in Value
<1>1. CASE Valid(r)
  <2>1. In(r) \in Universes /\ ref[r].ref \in Slot /\ Owns(ref, r, In(r), ref[r].ref)
    BY <1>1 DEF OwnInv, Owned, Owns, Valid, In, Records, Universes
  <2> QED
    BY <1>1, <2>1 DEF Held, OwnInv, Owned, Registries
<1>2. CASE ~Valid(r)
  BY <1>2, ValueAssumption DEF Held
<1> QED
  BY <1>1, <1>2

\* What a call on the references R does to them.
Kept(R) == OwnInv' /\ \A q \in Ref \ R : Held(q)' = Held(q)

\* A call that only moves values between stacks and tables.
LEMMA UnchangedKept ==
  ASSUME OwnInv, UNCHANGED <<ref, registry>>
  PROVE  Kept({})
BY HeldRefers DEF OwnInv, Kept

\* A call that ends in set_ref, with the slot it has just taken.
LEMMA SetRefKept ==
  ASSUME OwnInv, NEW r \in Ref, NEW x, Fresh(x, registry), NEW v \in Value,
         SetRef(r, x, Stored(registry, x, v))
  PROVE  Kept({r})
<1>1. Owned(ref', registry') /\ \A q \in Ref \ {r} : Refers(ref', registry', q) = Refers(ref, registry, q)
  <2>1. Given(ref, registry, r, x, v, ref', registry')
    BY DEF OwnInv, SetRef, Given
  <2> QED
    BY <2>1, SetOwned
<1> QED
  BY <1>1, HeldRefers DEF OwnInv, Kept

\* The same for a slot of the value v that luaL_ref gives.
LEMMA SetRefOfKept ==
  ASSUME OwnInv, NEW r \in Ref, NEW s \in State, NEW v \in Value,
         SetRef(r, RefOf(registry, s, v), Stored(registry, RefOf(registry, s, v), v))
  PROVE  Kept({r})
<1>1. Fresh(RefOf(registry, s, v), registry)
  BY RefOfFresh DEF OwnInv
<1> QED
  BY <1>1, SetRefKept

\* A call that leaves r referring to nothing.
LEMMA SetInvalidKept ==
  ASSUME OwnInv, NEW r \in Ref, NEW s \in State \cup {NULL},
         SetRef(r, Invalid(s), registry)
  PROVE  Kept({r})
<1>1. Stored(registry, Invalid(s), Nil) = registry
  BY DEF Stored, Invalid
<1> QED
  BY <1>1, InvalidFresh, SetRefKept, ValueAssumption

\* The record a copy gets is fresh in the registry it is taken from.
LEMMA CopiedFresh ==
  ASSUME OwnInv, NEW q \in Ref, NEW rf, NEW rg, Owned(rf, rg)
  PROVE  Fresh(Copied(rg, q), rg)
<1>1. CASE Valid(q)
  <2>1. ref[q].lua \in State
    BY <1>1 DEF OwnInv, Owned, Records, Valid
  <2> QED
    BY <1>1, <2>1, RefOfFresh DEF Copied
<1>2. CASE ~Valid(q)
  BY <1>2, InvalidFresh DEF Copied
<1> QED
  BY <1>1, <1>2

\* A reference destroyed gives its slot back.
LEMMA ReleasedOwned ==
  ASSUME OwnInv, NEW r \in Ref
  PROVE  /\ Owned([ref EXCEPT ![r] = Invalid(NULL)], Unref(registry, ref[r]))
         /\ \A p \in Ref \ {r} :
              Refers([ref EXCEPT ![r] = Invalid(NULL)], Unref(registry, ref[r]), p)
                = Refers(ref, registry, p)
<1> DEFINE none == [ref EXCEPT ![r] = Invalid(NULL)]
           reg == Unref(registry, ref[r])
<1>1. Stored(registry, Invalid(NULL), Nil) = registry
  BY DEF Stored, Invalid
<1>2. Fresh(Invalid(NULL), registry) /\ Nil \in Value
  BY InvalidFresh, ValueAssumption
<1>3. reg = Unref(Stored(registry, Invalid(NULL), Nil), ref[r])
  BY <1>1
<1>4. Given(ref, registry, r, Invalid(NULL), Nil, none, reg)
  BY <1>2, <1>3 DEF OwnInv, Given
<1> HIDE DEF none, reg
<1>5. /\ Owned(none, reg)
      /\ \A p \in Ref \ {r} : Refers(none, reg, p) = Refers(ref, registry, p)
  BY <1>4, SetOwned
<1> QED
  BY <1>5 DEF none, reg

\* The copy constructor: the object at its place is destroyed first.
LEMMA CopyKept ==
  ASSUME OwnInv, NEW r \in Ref, NEW q \in Ref, Copy(r, q)
  PROVE  Kept({r})
<1> DEFINE none == [ref EXCEPT ![r] = Invalid(NULL)]
           reg == Unref(registry, ref[r])
           x == Copied(reg, q)
<1>2. /\ Owned(none, reg)
      /\ \A p \in Ref \ {r} : Refers(none, reg, p) = Refers(ref, registry, p)
  BY ReleasedOwned
<1>3. Fresh(x, reg)
  BY <1>2, CopiedFresh
<1>4. none[r] = Invalid(NULL) /\ [none EXCEPT ![r] = x] = [ref EXCEPT ![r] = x]
  BY DEF OwnInv, Owned
<1>5. Unref(Stored(reg, x, Held(q)), none[r]) = Stored(reg, x, Held(q))
  <2>1. \A g : Unref(g, Invalid(NULL)) = g
    BY DEF Unref, Invalid
  <2> QED
    BY <2>1, <1>4
<1>6. /\ ref' = [none EXCEPT ![r] = x]
      /\ registry' = Unref(Stored(reg, x, Held(q)), none[r])
  BY <1>4, <1>5 DEF Copy
<1> HIDE DEF none, reg, x
<1>7. /\ Owned(ref', registry')
      /\ \A p \in Ref \ {r} : Refers(ref', registry', p) = Refers(none, reg, p)
  <2>1. Held(q) \in Value
    BY HeldValue
  <2>2. Given(none, reg, r, x, Held(q), ref', registry')
    BY <2>1, <1>2, <1>3, <1>6 DEF Given
  <2> QED
    BY <2>2, SetOwned
<1> QED
  BY <1>2, <1>7, HeldRefers DEF Kept, OwnInv

\* operator= takes the copy before it gives back what r had.
LEMMA AssignKept ==
  ASSUME OwnInv, NEW r \in Ref, NEW q \in Ref, Assign(r, q)
  PROVE  Kept({r})
<1>1. Fresh(Copied(registry, q), registry)
  BY CopiedFresh DEF OwnInv
<1> QED
  BY <1>1, SetRefKept, HeldValue DEF Assign

\* swap exchanges the slots and leaves the registry as it is.
LEMMA SwapKept ==
  ASSUME OwnInv, NEW r \in Ref, NEW q \in Ref, Swap(r, q)
  PROVE  Kept({r, q})
<1> DEFINE other == [p \in Ref |-> IF p = r THEN q ELSE IF p = q THEN r ELSE p]
<1>1. registry' = registry /\ ref' \in [Ref -> Records]
  BY DEF Swap, OwnInv, Owned
<1>2. \A p \in Ref : ref'[p] = ref[other[p]] /\ other[p] \in Ref /\ other[other[p]] = p
  BY DEF Swap, OwnInv, Owned
<1>3. \A u \in Universes, i \in Slot, p \in Ref :
        Owns(ref', p, u, i) <=> Owns(ref, other[p], u, i)
  BY <1>2 DEF Owns
<1> HIDE DEF other
<1>4. \A u \in Universes, i \in Slot :
        (\E p \in Ref : Owns(ref', p, u, i)) <=> \E p \in Ref : Owns(ref, p, u, i)
  BY <1>2, <1>3
<1>5. \A u \in Universes, i \in Slot, p1, p2 \in Ref :
        Owns(ref', p1, u, i) /\ Owns(ref', p2, u, i) => p1 = p2
  <2> SUFFICES ASSUME NEW u \in Universes, NEW i \in Slot, NEW p1 \in Ref, NEW p2 \in Ref,
                      Owns(ref', p1, u, i), Owns(ref', p2, u, i)
               PROVE  p1 = p2
    OBVIOUS
  <2>1. other[p1] = other[p2]
    BY <1>2, <1>3 DEF OwnInv, Owned
  <2> QED
    BY <2>1, <1>2
<1>6. OwnInv'
  BY <1>1, <1>4, <1>5 DEF OwnInv, Owned
<1>7. \A p \in Ref \ {r, q} : Held(p)' = Held(p)
  BY <1>1, <1>2, HeldRefers DEF other, Refers
<1> QED
  BY <1>6, <1>7 DEF Kept

----------------------------------------------------------------------------
(* The program                                                             *)

\* The first state: nothing is referred to.
LEMMA InitOwned == Init => OwnInv
BY SlotAssumption DEF Init, OwnInv, Owned, Owns, Invalid, Records, Registries

\* Calls that make, change or drop a reference are on that reference.
LEMMA RefStepKept ==
  ASSUME OwnInv, NEW r \in Ref,
         \/ \E s \in State \cup {NULL} : Construct(r, s)
         \/ \E q \in Ref : Copy(r, q) \/ Assign(r, q)
         \/ \E s \in State :
              \/ TakeRef(r, s) \/ BindScript(r, s) \/ NewTable(r, s) \/ Pull(r, s)
              \/ \E i \in 1..MaxStack : LuaGet(r, s, i)
         \/ SetTable(r)
  PROVE  (Kept({r}) /\ last'.on = {r}) \/ Kept({})
<1>1. CASE \E s \in State \cup {NULL} : Construct(r, s)
  BY <1>1, SetInvalidKept DEF Construct, Did
<1>2. ASSUME NEW q \in Ref, Copy(r, q) PROVE Kept({r}) /\ last'.on = {r}
  <2>1. last'.on = {r}
    BY <1>2 DEF Copy, Did
  <2> QED
    BY <1>2, <2>1, CopyKept
<1>3. CASE \E q \in Ref : Assign(r, q)
  BY <1>3, AssignKept DEF Assign, Did
<1>4. ASSUME NEW s \in State, TakeRef(r, s) PROVE Kept({r}) /\ last'.on = {r}
  <2>1. Top(stack[s]) \in Value
    BY <1>4, RefAssumption DEF TakeRef
  <2> QED
    BY <1>4, <2>1, SetRefOfKept DEF TakeRef, Did
<1>5. ASSUME NEW s \in State, BindScript(r, s) PROVE Kept({r}) /\ last'.on = {r}
  BY <1>5, SetInvalidKept DEF BindScript, Did
<1>6. ASSUME NEW s \in State, NewTable(r, s) PROVE Kept({r}) /\ last'.on = {r}
  <2>1. PICK t \in Unreached(Universe[s]) :
          /\ SetRef(r, RefOf(registry, s, t), Stored(registry, RefOf(registry, s, t), t))
          /\ Did("new_table", {r}, TRUE)
    BY <1>6 DEF NewTable
  <2>2. t \in Value
    BY <2>1, RefAssumption DEF Unreached, Tables, Universes
  <2> QED
    BY <2>1, <2>2, SetRefOfKept DEF Did
<1>7. ASSUME NEW s \in State, Pull(r, s) PROVE (Kept({r}) /\ last'.on = {r}) \/ Kept({})
  <2> DEFINE v == Top(stack[s])
  <2>1. CASE /\ v \in Tables
             /\ SetRef(r, RefOf(registry, s, v), Stored(registry, RefOf(registry, s, v), v))
             /\ Did("pull", {r}, TRUE)
    BY <2>1, SetRefOfKept, RefAssumption DEF Did
  <2>2. CASE SetRef(r, Invalid(ref[r].lua), registry) /\ Did("pull", {r}, TRUE)
    <3>1. ref[r].lua \in State \cup {NULL}
      BY DEF OwnInv, Owned, Records
    <3> QED
      BY <2>2, <3>1, SetInvalidKept DEF Did
  <2>3. CASE UNCHANGED <<ref, registry>>
    BY <2>3, UnchangedKept
  <2> QED
    BY <1>7, <2>1, <2>2, <2>3 DEF Pull
<1>8. ASSUME NEW s \in State, NEW i \in 1..MaxStack, LuaGet(r, s, i)
      PROVE  (Kept({r}) /\ last'.on = {r}) \/ Kept({})
  <2> DEFINE v == stack[s][i]
  <2>1. CASE /\ v \in Tables \cup {Nil}
             /\ SetRef(r, RefOf(registry, s, v), Stored(registry, RefOf(registry, s, v), v))
             /\ Did("lua_get", {r}, TRUE)
    BY <2>1, SetRefOfKept, RefAssumption, ValueAssumption DEF Did
  <2>2. CASE UNCHANGED <<ref, registry>>
    BY <2>2, UnchangedKept
  <2> QED
    BY <1>8, <2>1, <2>2 DEF LuaGet
<1>9. CASE SetTable(r)
  <2> DEFINE s == ref[r].lua
             found == named[In(r)]
  <2>1. CASE found \in Tables
    <3>1. s \in State /\ found \in Value
      BY <1>9, <2>1, RefAssumption DEF SetTable, OwnInv, Owned, Records
    <3> QED
      BY <1>9, <2>1, <3>1, SetRefOfKept DEF SetTable, Did
  <2>2. CASE found \notin Tables
    <3>1. SetRef(r, Invalid(NULL), registry)
      BY <1>9, <2>2 DEF SetTable, Stored, Invalid
    <3> QED
      BY <1>9, <3>1, SetInvalidKept DEF SetTable, Did
  <2> QED
    BY <2>1, <2>2
<1> QED
  BY <1>1, <1>2, <1>3, <1>4, <1>5, <1>6, <1>7, <1>8, <1>9

\* Every other call leaves references and registries as they are.
LEMMA OtherStepKept ==
  ASSUME OwnInv,
         \/ \E r \in Ref :
              \/ \E s \in State : Push(r, s) \/ LuaPush(r, s)
              \/ \E k \in Arg :
                   \/ \E v \in Arg : Set(r, k, v)
                   \/ Remove(r, k)
                   \/ \E ty \in Pulls : SafeAt(r, k, ty) \/ At(r, k, ty)
         \/ \E s \in State :
              \/ \E ty \in Pulls : PullValue(ty, s)
              \/ \E v \in Plain : PushValue(v, s)
              \/ PopOne(s) \/ Define(s) \/ CollectCoroutine(s)
         \/ UNCHANGED vars
  PROVE  Kept({})
<1>1. ASSUME NEW r \in Ref, NEW s \in State, Push(r, s) \/ LuaPush(r, s)
      PROVE  UNCHANGED <<ref, registry>>
  BY <1>1 DEF Push, LuaPush, OnlyStacks
<1>2. ASSUME NEW r \in Ref, NEW k \in Arg,
             (\E v \in Arg : Set(r, k, v)) \/ Remove(r, k)
      PROVE  UNCHANGED <<ref, registry>>
  BY <1>2 DEF Set, Remove
<1>3. ASSUME NEW r \in Ref, NEW k \in Arg, NEW ty \in Pulls, SafeAt(r, k, ty) \/ At(r, k, ty)
      PROVE  UNCHANGED <<ref, registry>>
  BY <1>3 DEF SafeAt, At, OnlyStacks
<1>4. ASSUME NEW s \in State,
             \/ \E ty \in Pulls : PullValue(ty, s)
             \/ \E v \in Plain : PushValue(v, s)
             \/ PopOne(s) \/ Define(s) \/ CollectCoroutine(s)
      PROVE  UNCHANGED <<ref, registry>>
  BY <1>4 DEF PullValue, PushValue, PopOne, Define, CollectCoroutine, OnlyStacks
<1>5. CASE UNCHANGED vars
  BY <1>5, UnchangedKept DEF vars
<1> QED
  BY <1>1, <1>2, <1>3, <1>4, <1>5, UnchangedKept

\* Every step keeps each slot with its owner and changes what a reference
\* refers to only by a call on it.
LEMMA NextOwned == OwnInv /\ [Next]_vars => OwnInv' /\ OthersKeepTheirs
<1> SUFFICES ASSUME OwnInv, [Next]_vars PROVE OwnInv' /\ OthersKeepTheirs
  OBVIOUS
<1>1. ASSUME NEW R, Kept(R), R \subseteq last'.on PROVE OwnInv' /\ OthersKeepTheirs
  BY <1>1 DEF Kept, OthersKeepTheirs
<1>2. CASE \E r, q \in Ref : Swap(r, q)
  <2>1. PICK r \in Ref, q \in Ref : Swap(r, q)
    BY <1>2
  <2>2. Kept({r, q}) /\ last'.on = {r, q}
    BY <2>1, SwapKept DEF Swap, Did
  <2> QED
    BY <2>2, <1>1
<1>3. ASSUME NEW r \in Ref, (Kept({r}) /\ last'.on = {r}) \/ Kept({})
      PROVE  OwnInv' /\ OthersKeepTheirs
  BY <1>1, <1>3
<1>4. CASE ~\E r, q \in Ref : Swap(r, q)
  BY <1>1, <1>3, <1>4, RefStepKept, OtherStepKept DEF Next
<1> QED
  BY <1>2, <1>4

\* In every state the slots taken are those the references own, each once.
THEOREM OwnInvCorrect == Spec => []OwnInv
<1>1. OwnInv /\ [Next]_vars => OwnInv'
  BY NextOwned
<1> QED
  BY <1>1, InitOwned, PTL DEF Spec

\* What SlotsOwned counts are the owners of a slot.
LEMMA OwnedSlots == OwnInv => SlotsOwned
<1> SUFFICES ASSUME OwnInv, NEW u \in Universes, NEW i \in Slot
             PROVE  Cardinality({r \in Ref : Valid(r) /\ In(r) = u /\ ref[r].ref = i})
                      = IF registry[u][i] = Free THEN 0 ELSE 1
  BY DEF SlotsOwned
<1> DEFINE owners == {r \in Ref : Valid(r) /\ In(r) = u /\ ref[r].ref = i}
<1>1. owners = {r \in Ref : Owns(ref, r, u, i)}
  BY SlotAssumption DEF Owns, Valid, In
<1>2. CASE registry[u][i] = Free
  <2>1. owners = {}
    BY <1>1, <1>2 DEF OwnInv, Owned
  <2> QED
    BY <2>1, <1>2, FS_EmptySet
<1>3. CASE registry[u][i] # Free
  <2>1. PICK r \in Ref : Owns(ref, r, u, i)
    BY <1>3 DEF OwnInv, Owned
  <2>2. owners = {r}
    BY <1>1, <2>1 DEF OwnInv, Owned
  <2> QED
    BY <2>2, <1>3, FS_Singleton
<1> QED
  BY <1>2, <1>3

\* SlotsOwned of every reachable state: no order of copies, assignments, swaps,
\* pulls and failures frees a slot twice, uses it after it was freed or leaves
\* it behind.
THEOREM SlotsCorrect == Spec => []SlotsOwned
<1> QED
  BY OwnInvCorrect, OwnedSlots, PTL

\* A call changes what its own objects refer to and nothing else, although
\* slots are given back and taken again under the other references.
THEOREM OthersKeepCorrect == Spec => NoOtherFollows
<1>1. OwnInv /\ [Next]_vars => [OthersKeepTheirs]_vars
  BY NextOwned
<1> QED
  BY <1>1, OwnInvCorrect, PTL DEF Spec, NoOtherFollows

-----------------------------------------------------------------------------
(* Stacks                                                                  *)

\* A part of a sequence from its beginning.
LEMMA Prefix ==
  ASSUME NEW S, NEW st \in Seq(S), NEW n \in Int, n <= Len(st)
  PROVE  /\ SubSeq(st, 1, n) \in Seq(S)
         /\ Len(SubSeq(st, 1, n)) = IF 1 <= n THEN n ELSE 0
         /\ \A i \in 1 .. n : SubSeq(st, 1, n)[i] = st[i]
<1>1. \A i \in 1 .. n : st[i] \in S
  OBVIOUS
<1>2. /\ SubSeq(st, 1, n) \in Seq(S)
      /\ Len(SubSeq(st, 1, n)) = IF 1 <= n THEN n - 1 + 1 ELSE 0
      /\ \A i \in 1 .. n - 1 + 1 : SubSeq(st, 1, n)[i] = st[1 + i - 1]
  BY <1>1, SubSeqProperties
<1> QED
  BY <1>2

\* The top of a stack and what is below it.
LEMMA TopPop ==
  ASSUME NEW S, NEW st \in Seq(S), st # <<>>
  PROVE  Top(st) \in S /\ Pop(st) \in Seq(S) /\ Len(Pop(st)) = Len(st) - 1
<1>1. Len(st) \in Nat \ {0}
  OBVIOUS
<1>2. Top(st) \in S
  BY <1>1 DEF Top, Seqs!Last
<1> DEFINE n == Len(st) - 1
<1>3. n \in Nat /\ n <= Len(st)
  BY <1>1
<1> HIDE DEF n
<1>4. Pop(st) = SubSeq(st, 1, n)
  BY DEF Pop, Seqs!Front, n
<1>5. SubSeq(st, 1, n) \in Seq(S) /\ Len(SubSeq(st, 1, n)) = n
  BY <1>3, Prefix
<1> QED
  BY <1>2, <1>4, <1>5 DEF n

\* A value pushed and popped again.
LEMMA PushPop ==
  ASSUME NEW S, NEW st \in Seq(S), NEW v \in S
  PROVE  /\ Append(st, v) \in Seq(S) /\ Append(st, v) # <<>> /\ Len(Append(st, v)) = Len(st) + 1
         /\ Top(Append(st, v)) = v /\ Pop(Append(st, v)) = st
<1>1. /\ Append(st, v) \in Seq(S) /\ Append(st, v) # <<>> /\ Len(Append(st, v)) = Len(st) + 1
      /\ \A i \in 1 .. Len(st) : Append(st, v)[i] = st[i]
      /\ Append(st, v)[Len(st) + 1] = v
  BY AppendProperties
<1>2. Top(Append(st, v)) = v
  BY <1>1 DEF Top, Seqs!Last
<1>3. Pop(Append(st, v)) = SubSeq(Append(st, v), 1, Len(st))
  BY <1>1 DEF Pop, Seqs!Front
<1>4. /\ SubSeq(Append(st, v), 1, Len(st)) \in Seq(S)
      /\ Len(SubSeq(Append(st, v), 1, Len(st))) = Len(st)
      /\ \A i \in 1 .. Len(st) : SubSeq(Append(st, v), 1, Len(st))[i] = Append(st, v)[i]
  BY <1>1, Prefix
<1>5. SubSeq(Append(st, v), 1, Len(st)) = st
  BY <1>1, <1>4, SeqEqual
<1> QED
  BY <1>1, <1>2, <1>3, <1>5

\* restore_stack leaves the first elements of the stack it is given, and nothing
\* of one that is an element too short.
LEMMA Restored ==
  ASSUME NEW S, NEW st \in Seq(S), NEW size \in Nat, Len(st) >= size - 1
  PROVE  /\ RestoredStack(st, size) \in Seq(S)
         /\ Len(st) >= size => /\ Len(RestoredStack(st, size)) = size
                               /\ \A i \in 1 .. size : RestoredStack(st, size)[i] = st[i]
<1>1. CASE Len(st) >= size
  BY <1>1, Prefix DEF RestoredStack
<1>2. CASE ~(Len(st) >= size)
  <2>1. RestoredStack(st, size) = SubSeq(st, 1, 0)
    BY <1>2 DEF RestoredStack
  <2> QED
    BY <1>2, <2>1, Prefix
<1> QED
  BY <1>1, <1>2

\* A pull takes at most the top.
LEMMA PulledStack ==
  ASSUME NEW S, NEW st \in Seq(S), NEW ty
  PROVE  /\ Pulled(ty, st) \in Seq(S)
         /\ Pulled(ty, st) = st \/ (st # <<>> /\ Pulled(ty, st) = Pop(st))
BY TopPop DEF Pulled, PullOk, CheckOfTop

----------------------------------------------------------------------------
(* Values at home                                                          *)

\* The values that may be in the universe u.
HomeOf(u) == Value \ (Tables \ TableOf[u])

RegistryHome(rg) == \A u \in Universes, i \in Slot : rg[u][i] \in HomeOf(u) \cup {Free}

StackHome(st) ==
  /\ st \in [State -> Seq(Value)]
  /\ \A s \in State : st[s] \in Seq(HomeOf(Universe[s]))

HeapHome(h) ==
  /\ h \in [Tables -> [Value -> Value]]
  /\ \A u \in Universes : \A t \in TableOf[u], k \in Value :
       h[t][k] \in HomeOf(u) /\ (k \notin HomeOf(u) => h[t][k] = Nil)

NamedHome(n) ==
  n \in [Universes -> Value] /\ \A u \in Universes : n[u] \in HomeOf(u)

(* The inductive invariant of all that references and programs keep.       *)
HomeInv ==
  /\ OwnInv
  /\ RegistryHome(registry)
  /\ StackHome(stack)
  /\ HeapHome(heap)
  /\ NamedHome(named)
  /\ open \subseteq State

\* A lua_State has its universe, Nil belongs to all of them, a table to the one
\* that may have it.
LEMMA Homes ==
  /\ \A s \in State : Universe[s] \in Universes
  /\ \A u \in Universes : Nil \in HomeOf(u) /\ HomeOf(u) \subseteq Value
  /\ \A u \in Universes : TableOf[u] \subseteq HomeOf(u) /\ TableOf[u] \subseteq Tables
  /\ \A u \in Universes : \A v \in HomeOf(u) \cap Tables : v \in TableOf[u]
  /\ Plain \cap Tables = {} /\ Plain \subseteq Value /\ Nil \notin Tables
<1>1. Nil \notin Tables /\ Nil \in Value
  BY ValueAssumption, RefAssumption
<1> QED
  BY <1>1, RefAssumption DEF Universes, HomeOf, Tables

\* What a valid reference refers to is of the universe of its lua_State.
LEMMA HeldHome ==
  ASSUME HomeInv, NEW r \in Ref, Valid(r)
  PROVE  /\ ref[r].lua \in State /\ In(r) \in Universes
         /\ Held(r) \in HomeOf(In(r))
<1>1. ref[r].lua \in State /\ ref[r].ref \in Slot
  BY DEF HomeInv, OwnInv, Owned, Records, Valid
<1>2. In(r) \in Universes
  BY <1>1, Homes DEF In
<1>3. Owns(ref, r, In(r), ref[r].ref)
  BY DEF Owns, In, Valid
<1>4. registry[In(r)][ref[r].ref] \in HomeOf(In(r)) /\ Held(r) = registry[In(r)][ref[r].ref]
  BY <1>1, <1>2, <1>3 DEF HomeInv, OwnInv, Owned, RegistryHome, Held
<1> QED
  BY <1>1, <1>2, <1>4

\* What a reference refers to can be pushed wherever CanPush lets it.
LEMMA HeldFits ==
  ASSUME HomeInv, NEW r \in Ref, NEW s \in State, CanPush(r, s)
  PROVE  Held(r) \in HomeOf(Universe[s])
<1>1. CASE Valid(r)
  BY <1>1, HeldHome DEF CanPush, Related, In
<1>2. CASE ~Valid(r)
  BY <1>2, Homes DEF Held
<1> QED
  BY <1>1, <1>2

\* A slot given back, and a value stored in the slot of a record.
LEMMA UnrefHome ==
  ASSUME NEW rg \in Registries, RegistryHome(rg), NEW x \in Records
  PROVE  Unref(rg, x) \in Registries /\ RegistryHome(Unref(rg, x))
BY Homes DEF Unref, Registries, RegistryHome, Records

LEMMA StoredHome ==
  ASSUME NEW rg \in Registries, RegistryHome(rg), NEW x \in Records, NEW v,
         x.ref # NOREF => x.lua # NULL /\ v \in HomeOf(Universe[x.lua])
  PROVE  Stored(rg, x, v) \in Registries /\ RegistryHome(Stored(rg, x, v))
<1>1. CASE x.ref = NOREF
  BY <1>1 DEF Stored
<1>2. CASE x.ref # NOREF
  <2>1. x.ref \in Slot /\ Universe[x.lua] \in Universes /\ v \in Value
    BY <1>2, Homes DEF Records, HomeOf
  <2> QED
    BY <1>2, <2>1 DEF Stored, Registries, RegistryHome
<1> QED
  BY <1>1, <1>2

\* set_ref of a value of the universe of the record.
LEMMA SetRefHome ==
  ASSUME HomeInv, NEW r \in Ref, NEW x \in Records, NEW v,
         x.ref # NOREF => x.lua # NULL /\ v \in HomeOf(Universe[x.lua]),
         SetRef(r, x, Stored(registry, x, v))
  PROVE  RegistryHome(registry')
<1>1. registry \in Registries /\ ref[r] \in Records /\ RegistryHome(registry)
  BY DEF HomeInv, OwnInv, Owned
<1> QED
  BY <1>1, StoredHome, UnrefHome DEF SetRef

LEMMA SetRefOfHome ==
  ASSUME HomeInv, NEW r \in Ref, NEW s \in State, NEW v, v \in HomeOf(Universe[s]),
         SetRef(r, RefOf(registry, s, v), Stored(registry, RefOf(registry, s, v), v))
  PROVE  RegistryHome(registry')
<1> DEFINE x == RefOf(registry, s, v)
<1>1. x \in Records /\ x.lua = s
  BY RefOfFresh DEF HomeInv, OwnInv, Fresh, RefOf, Invalid
<1>2. s # NULL
  BY SlotAssumption
<1> HIDE DEF x
<1> QED
  BY <1>1, <1>2, SetRefHome DEF x

LEMMA SetInvalidHome ==
  ASSUME HomeInv, NEW r \in Ref, NEW s \in State \cup {NULL},
         SetRef(r, Invalid(s), registry)
  PROVE  RegistryHome(registry')
<1>1. Stored(registry, Invalid(s), Nil) = registry /\ Invalid(s).ref = NOREF /\ Invalid(s) \in Records
  BY DEF Stored, Invalid, Records
<1> QED
  BY <1>1, SetRefHome

\* A copy is of the universe of what it is a copy of.
LEMMA CopiedHome ==
  ASSUME HomeInv, NEW q \in Ref, NEW rf, NEW rg, Owned(rf, rg), RegistryHome(rg)
  PROVE  RegistryHome(Stored(rg, Copied(rg, q), Held(q)))
<1>1. Copied(rg, q) \in Records /\ rg \in Registries
  BY CopiedFresh DEF Fresh, Owned, HomeInv
<1>2. Copied(rg, q).ref # NOREF => Valid(q) /\ Copied(rg, q).lua = ref[q].lua
  BY DEF Copied, RefOf, Invalid
<1>3. Copied(rg, q).ref # NOREF =>
        Copied(rg, q).lua # NULL /\ Held(q) \in HomeOf(Universe[Copied(rg, q).lua])
  BY <1>2, HeldHome DEF In, Valid
<1> QED
  BY <1>1, <1>3, StoredHome

\* A stack that changes holds values of its universe again.
LEMMA StackSet ==
  ASSUME NEW st, StackHome(st), NEW s \in State, NEW q \in Seq(HomeOf(Universe[s]))
  PROVE  StackHome([st EXCEPT ![s] = q])
<1>1. q \in Seq(Value)
  BY Homes, SeqMonotonic
<1> QED
  BY <1>1 DEF StackHome

----------------------------------------------------------------------------
(* Accesses to tables                                                      *)

\* What a program passes is of the universe of the stack, if it can be pushed.
LEMMA ArgHome ==
  ASSUME HomeInv, NEW a \in Arg, NEW s \in State, Pushes(a, s)
  PROVE  Of(a) \in HomeOf(Universe[s])
<1>1. CASE a \in Ref
  BY <1>1, HeldFits DEF Of, Pushes
<1>2. CASE a \notin Ref
  <2>1. a \in Plain
    BY <1>2, RefAssumption
  <2> QED
    BY <1>2, <2>1, Homes DEF Of, HomeOf
<1> QED
  BY <1>1, <1>2

LEMMA WithArgHome ==
  ASSUME HomeInv, NEW a \in Arg, NEW s \in State, NEW st \in Seq(HomeOf(Universe[s]))
  PROVE  /\ WithArg(st, a, s) \in Seq(HomeOf(Universe[s]))
         /\ Len(WithArg(st, a, s)) >= Len(st)
<1>1. CASE Pushes(a, s)
  BY <1>1, ArgHome, PushPop DEF WithArg
<1>2. CASE ~Pushes(a, s)
  BY <1>2 DEF WithArg
<1> QED
  BY <1>1, <1>2

\* The table is pushed on the stack of the lua_State it was got from.
LEMMA GotHome ==
  ASSUME HomeInv, NEW r \in Ref, Valid(r)
  PROVE  /\ ref[r].lua \in State /\ In(r) = Universe[ref[r].lua]
         /\ stack[ref[r].lua] \in Seq(HomeOf(In(r)))
         /\ Got(r) = Append(stack[ref[r].lua], Held(r))
         /\ Got(r) \in Seq(HomeOf(In(r)))
         /\ Len(Got(r)) = Len(stack[ref[r].lua]) + 1
<1>1. ref[r].lua \in State /\ Held(r) \in HomeOf(In(r))
  BY HeldHome
<1>2. stack[ref[r].lua] \in Seq(HomeOf(In(r)))
  BY <1>1 DEF HomeInv, StackHome, In
<1>3. Got(r) = Append(stack[ref[r].lua], Held(r))
  BY DEF Got
<1> QED
  BY <1>1, <1>2, <1>3, PushPop DEF In

\* A value stored in a table of its own universe.
LEMMA WriteHome ==
  ASSUME NEW h, HeapHome(h), NEW u \in Universes, NEW t \in TableOf[u],
         NEW k \in HomeOf(u), NEW v \in HomeOf(u)
  PROVE  HeapHome([h EXCEPT ![t][k] = v])
<1> DEFINE h2 == [h EXCEPT ![t][k] = v]
<1>1. t \in Tables /\ k \in Value /\ v \in Value
  BY Homes
<1>2. /\ h2 \in [Tables -> [Value -> Value]]
      /\ \A p \in Tables, j \in Value : h2[p][j] = IF p = t /\ j = k THEN v ELSE h[p][j]
  BY <1>1 DEF HeapHome
<1> HIDE DEF h2
<1>3. ASSUME NEW w \in Universes, NEW p \in TableOf[w], NEW j \in Value
      PROVE  h2[p][j] \in HomeOf(w) /\ (j \notin HomeOf(w) => h2[p][j] = Nil)
  <2>1. p \in Tables
    BY Homes
  <2>2. CASE p = t /\ j = k
    <3>1. w = u
      BY <2>2, RefAssumption
    <3> QED
      BY <1>2, <2>1, <2>2, <3>1
  <2>3. CASE ~(p = t /\ j = k)
    BY <1>2, <2>1, <2>3 DEF HeapHome
  <2> QED
    BY <2>2, <2>3
<1> QED
  BY <1>2, <1>3 DEF HeapHome, h2

\* lua_settable and restore_stack, or the error lua_settable raises.
LEMMA SetAndRestoreHome ==
  ASSUME HomeInv, NEW op, NEW r, NEW s \in State, NEW st \in Seq(HomeOf(Universe[s])),
         Len(st) >= Len(stack[s]) + 1,
         SetAndRestore(op, r, s, st)
  PROVE  StackHome(stack') /\ HeapHome(heap')
<1> DEFINE n == Len(st)
           t == IndexOfTable(st)
           S == HomeOf(Universe[s])
           cut == SubSeq(st, 1, n - 2)
<1>0. /\ StackHome(stack) /\ HeapHome(heap) /\ stack[s] \in Seq(S) /\ Len(stack[s]) \in Nat
      /\ Universe[s] \in Universes /\ n \in Nat
  BY Homes DEF HomeInv, StackHome
<1>1. CASE t > 0 /\ st[t] \in Tables /\ st[n - 1] # Nil
  <2>1. t = n - 2 /\ t \in 1 .. n /\ n - 1 \in 1 .. n /\ n \in 1 .. n
    BY <1>0, <1>1 DEF IndexOfTable
  <2>2. st[t] \in S /\ st[n - 1] \in S /\ st[n] \in S
    BY <2>1
  <2>3. st[t] \in TableOf[Universe[s]]
    BY <1>0, <1>1, <2>2, Homes
  <2>4. HeapHome(heap')
    BY <1>0, <1>1, <2>2, <2>3, WriteHome DEF SetAndRestore
  <2>5. cut \in Seq(S) /\ Len(cut) = n - 2
    BY <1>0, <2>1, Prefix
  <2> HIDE DEF cut
  <2>6. RestoredStack(cut, Len(stack[s])) \in Seq(S)
    BY <1>0, <2>5, Restored
  <2>7. stack' = [stack EXCEPT ![s] = RestoredStack(cut, Len(stack[s]))]
    BY <1>1 DEF SetAndRestore, cut
  <2>8. StackHome(stack')
    BY <1>0, <2>6, <2>7, StackSet
  <2> QED
    BY <2>4, <2>8
<1>2. CASE ~(t > 0 /\ st[t] \in Tables /\ st[n - 1] # Nil)
  <2>1. stack' = [stack EXCEPT ![s] = <<>>] /\ heap' = heap
    BY <1>2 DEF SetAndRestore, Raise
  <2>2. <<>> \in Seq(S)
    OBVIOUS
  <2> QED
    BY <1>0, <2>1, <2>2, StackSet
<1> QED
  BY <1>1, <1>2

LEMMA NoTableHome ==
  ASSUME HomeInv, NEW op, NEW r \in Ref, NoTable(op, r)
  PROVE  StackHome(stack') /\ heap' = heap
<1>1. CASE Valid(r)
  BY <1>1, GotHome, StackSet DEF NoTable, HomeInv, In
<1>2. CASE ~Valid(r)
  BY <1>2 DEF NoTable, HomeInv
<1> QED
  BY <1>1, <1>2 DEF NoTable

LEMMA SetHome ==
  ASSUME HomeInv, NEW r \in Ref, NEW k \in Arg, NEW v \in Arg, Set(r, k, v)
  PROVE  StackHome(stack') /\ HeapHome(heap')
<1>1. CASE GetTable(r)
  <2> DEFINE s == ref[r].lua
             st1 == WithArg(Got(r), k, s)
             st2 == WithArg(st1, v, s)
  <2>1. /\ s \in State /\ Got(r) \in Seq(HomeOf(Universe[s]))
        /\ Len(Got(r)) = Len(stack[s]) + 1 /\ Len(stack[s]) \in Nat
    BY <1>1, GotHome DEF GetTable
  <2>2. st1 \in Seq(HomeOf(Universe[s])) /\ Len(st1) >= Len(stack[s]) + 1
    BY <2>1, WithArgHome
  <2> HIDE DEF st1
  <2>3. st2 \in Seq(HomeOf(Universe[s])) /\ Len(st2) >= Len(st1)
    BY <2>1, <2>2, WithArgHome
  <2>4. SetAndRestore("set", r, s, st2)
    BY <1>1 DEF Set, st1
  <2> HIDE DEF st2, s
  <2>5. Len(st2) >= Len(stack[s]) + 1
    BY <2>1, <2>2, <2>3
  <2> QED
    BY <2>1, <2>3, <2>4, <2>5, SetAndRestoreHome
<1>2. CASE ~GetTable(r)
  BY <1>2, NoTableHome DEF Set, HomeInv
<1> QED
  BY <1>1, <1>2

LEMMA RemoveHome ==
  ASSUME HomeInv, NEW r \in Ref, NEW k \in Arg, Remove(r, k)
  PROVE  StackHome(stack') /\ HeapHome(heap')
<1>1. CASE GetTable(r)
  <2> DEFINE s == ref[r].lua
             st1 == WithArg(Got(r), k, s)
             st2 == Append(st1, Nil)
  <2>1. /\ s \in State /\ Got(r) \in Seq(HomeOf(Universe[s]))
        /\ Len(Got(r)) = Len(stack[s]) + 1 /\ Len(stack[s]) \in Nat
    BY <1>1, GotHome DEF GetTable
  <2>2. st1 \in Seq(HomeOf(Universe[s])) /\ Len(st1) >= Len(stack[s]) + 1
    BY <2>1, WithArgHome
  <2> HIDE DEF st1
  <2>3. st2 \in Seq(HomeOf(Universe[s])) /\ Len(st2) >= Len(st1)
    BY <2>1, <2>2, PushPop, Homes
  <2>4. SetAndRestore("remove", r, s, st2)
    BY <1>1 DEF Remove, st1
  <2> HIDE DEF st2, s
  <2>5. Len(st2) >= Len(stack[s]) + 1
    BY <2>1, <2>2, <2>3
  <2> QED
    BY <2>1, <2>3, <2>4, <2>5, SetAndRestoreHome
<1>2. CASE ~GetTable(r)
  BY <1>2, NoTableHome DEF Remove, HomeInv
<1> QED
  BY <1>1, <1>2

\* What is read from a table is of its universe.
LEMMA ReadHome ==
  ASSUME HomeInv, NEW r \in Ref, GetTable(r), NEW k, k \in Value
  PROVE  heap[Held(r)][k] \in HomeOf(Universe[ref[r].lua])
<1>1. In(r) \in Universes /\ Held(r) \in TableOf[In(r)]
  BY HeldHome, Homes DEF GetTable
<1> QED
  BY <1>1 DEF HomeInv, HeapHome, In

LEMMA SafeAtHome ==
  ASSUME HomeInv, NEW r \in Ref, NEW k \in Arg, NEW ty, SafeAt(r, k, ty)
  PROVE  StackHome(stack')
<1> DEFINE s == ref[r].lua
           v == heap[Held(r)][Of(k)]
           st == Append(Got(r), v)
           S == HomeOf(Universe[s])
<1>1. CASE ~GetTable(r) /\ NoTable("safe_at", r)
  BY <1>1, NoTableHome
<1>2. CASE UNCHANGED stack
  BY <1>2 DEF HomeInv
<1>3. CASE GetTable(r) /\ Pushes(k, s) /\ v # Nil /\
           IF RaisesOnPull(ty, st) THEN Raise("safe_at", {r}, s)
           ELSE stack' = [stack EXCEPT ![s] = RestoredStack(Pulled(ty, st), Len(@))]
  <2>1. /\ s \in State /\ Got(r) \in Seq(S) /\ Len(Got(r)) = Len(stack[s]) + 1
        /\ Len(stack[s]) \in Nat /\ StackHome(stack)
    BY <1>3, GotHome DEF GetTable, HomeInv
  <2>2. Of(k) \in Value
    BY <1>3, <2>1, ArgHome, Homes
  <2>3. v \in S
    BY <1>3, <2>2, ReadHome
  <2> HIDE DEF v
  <2>4. st \in Seq(S) /\ Len(st) = Len(stack[s]) + 2 /\ st # <<>>
    BY <2>1, <2>3, PushPop
  <2> HIDE DEF st
  <2>5. Pulled(ty, st) \in Seq(S) /\ Len(Pulled(ty, st)) >= Len(stack[s]) + 1
    <3>1. Pop(st) \in Seq(S) /\ Len(Pop(st)) = Len(st) - 1
      BY <2>4, TopPop
    <3>2. Pulled(ty, st) = st \/ Pulled(ty, st) = Pop(st)
      BY <2>4, PulledStack
    <3> HIDE DEF S, s
    <3> QED
      BY <2>1, <2>4, <3>1, <3>2
  <2>6. RestoredStack(Pulled(ty, st), Len(stack[s])) \in Seq(S)
    BY <2>1, <2>5, Restored
  <2>7. CASE RaisesOnPull(ty, st)
    <3>1. stack' = [stack EXCEPT ![s] = <<>>] /\ <<>> \in Seq(S)
      BY <1>3, <2>7 DEF Raise
    <3> QED
      BY <2>1, <3>1, StackSet
  <2>8. CASE ~RaisesOnPull(ty, st)
    <3>1. stack' = [stack EXCEPT ![s] = RestoredStack(Pulled(ty, st), Len(stack[s]))]
      BY <1>3, <2>8
    <3> QED
      BY <2>1, <2>6, <3>1, StackSet
  <2> QED
    BY <2>7, <2>8
<1> QED
  BY <1>1, <1>2, <1>3 DEF SafeAt

LEMMA AtHome ==
  ASSUME HomeInv, NEW r \in Ref, NEW k \in Arg, NEW ty, At(r, k, ty)
  PROVE  StackHome(stack')
<1> DEFINE s == ref[r].lua
           v == heap[Held(r)][Of(k)]
           st == Append(Got(r), v)
           S == HomeOf(Universe[s])
<1>1. /\ s \in State /\ Got(r) \in Seq(S) /\ Len(Got(r)) = Len(stack[s]) + 1
      /\ Len(stack[s]) \in Nat /\ StackHome(stack) /\ GetTable(r) /\ Pushes(k, s)
  BY GotHome DEF GetTable, HomeInv, At
<1>2. Of(k) \in Value
  BY <1>1, ArgHome, Homes
<1>3. v \in S
  BY <1>1, <1>2, ReadHome
<1>4. stack' = [stack EXCEPT ![s] = Pop(Pulled(ty, st))]
  BY DEF At
<1> HIDE DEF v
<1>5. st \in Seq(S) /\ Len(st) = Len(stack[s]) + 2 /\ st # <<>>
  BY <1>1, <1>3, PushPop
<1> HIDE DEF st
<1>6. Pulled(ty, st) \in Seq(S) /\ Pulled(ty, st) # <<>>
  <2>1. Pop(st) \in Seq(S) /\ Len(Pop(st)) = Len(st) - 1
    BY <1>5, TopPop
  <2>2. Pulled(ty, st) = st \/ Pulled(ty, st) = Pop(st)
    BY <1>5, PulledStack
  <2>3. Len(Pop(st)) # 0
    BY <1>1, <1>5, <2>1
  <2> HIDE DEF S, s
  <2> QED
    BY <1>5, <2>1, <2>2, <2>3
<1>7. Pop(Pulled(ty, st)) \in Seq(S)
  BY <1>6, TopPop
<1> QED
  BY <1>1, <1>4, <1>7, StackSet

----------------------------------------------------------------------------
(* What the program does keeps values at home                              *)

LEMMA InitHome == Init => HomeInv
<1> SUFFICES ASSUME Init PROVE HomeInv
  OBVIOUS
<1>1. RegistryHome(registry)
  BY DEF Init, RegistryHome
<1>2. StackHome(stack)
  BY DEF Init, StackHome
<1>3. HeapHome(heap)
  <2>1. \A u \in Universes : \A t \in TableOf[u] : t \in Tables
    BY Homes
  <2> QED
    BY <2>1, Homes, ValueAssumption DEF Init, HeapHome
<1>4. NamedHome(named)
  BY Homes, ValueAssumption DEF Init, NamedHome
<1> QED
  BY <1>1, <1>2, <1>3, <1>4, InitOwned DEF HomeInv, Init

\* The registries after a call on a reference.
LEMMA RegistryStep ==
  ASSUME HomeInv, NEW r \in Ref,
         \/ \E s \in State \cup {NULL} : Construct(r, s)
         \/ \E q \in Ref : Copy(r, q) \/ Assign(r, q) \/ Swap(r, q)
         \/ \E s \in State :
              \/ TakeRef(r, s) \/ BindScript(r, s) \/ NewTable(r, s) \/ Pull(r, s)
              \/ \E i \in 1..MaxStack : LuaGet(r, s, i)
         \/ SetTable(r)
  PROVE  RegistryHome(registry')
<1>0. RegistryHome(registry) /\ StackHome(stack) /\ ref[r] \in Records /\ registry \in Registries
  BY DEF HomeInv, OwnInv, Owned
<1>1. ASSUME NEW s \in State \cup {NULL}, Construct(r, s) PROVE RegistryHome(registry')
  BY <1>1, SetInvalidHome DEF Construct
<1>2. ASSUME NEW q \in Ref, Copy(r, q) PROVE RegistryHome(registry')
  <2> DEFINE none == [ref EXCEPT ![r] = Invalid(NULL)]
             reg == Unref(registry, ref[r])
  <2>1. Owned(none, reg) /\ RegistryHome(reg)
    BY <1>0, ReleasedOwned, UnrefHome DEF HomeInv
  <2>2. registry' = Stored(reg, Copied(reg, q), Held(q))
    BY <1>2 DEF Copy
  <2> HIDE DEF none, reg
  <2> QED
    BY <2>1, <2>2, CopiedHome
<1>3. ASSUME NEW q \in Ref, Assign(r, q) PROVE RegistryHome(registry')
  <2> DEFINE rg == Stored(registry, Copied(registry, q), Held(q))
  <2>1. RegistryHome(rg)
    BY <1>0, CopiedHome DEF HomeInv, OwnInv
  <2>2. rg \in Registries
    <3>1. Copied(registry, q) \in Records /\ Held(q) \in Value
      BY CopiedFresh, HeldValue DEF HomeInv, OwnInv, Fresh
    <3> QED
      BY <1>0, <3>1 DEF Stored, Registries
  <2>3. registry' = Unref(rg, ref[r])
    BY <1>3 DEF Assign, SetRef
  <2> HIDE DEF rg
  <2> QED
    BY <1>0, <2>1, <2>2, <2>3, UnrefHome
<1>4. ASSUME NEW q \in Ref, Swap(r, q) PROVE RegistryHome(registry')
  BY <1>0, <1>4 DEF Swap
<1>5. ASSUME NEW s \in State, TakeRef(r, s) PROVE RegistryHome(registry')
  <2>1. Top(stack[s]) \in HomeOf(Universe[s])
    BY <1>0, <1>5, TopPop DEF TakeRef, StackHome
  <2> QED
    BY <1>5, <2>1, SetRefOfHome DEF TakeRef
<1>6. ASSUME NEW s \in State, BindScript(r, s) PROVE RegistryHome(registry')
  BY <1>6, SetInvalidHome DEF BindScript
<1>7. ASSUME NEW s \in State, NewTable(r, s) PROVE RegistryHome(registry')
  <2>1. PICK t \in TableOf[Universe[s]] :
          SetRef(r, RefOf(registry, s, t), Stored(registry, RefOf(registry, s, t), t))
    BY <1>7 DEF NewTable, Unreached
  <2>2. t \in HomeOf(Universe[s])
    BY Homes
  <2> QED
    BY <2>1, <2>2, SetRefOfHome
<1>8. ASSUME NEW s \in State, Pull(r, s) PROVE RegistryHome(registry')
  <2> DEFINE v == Top(stack[s])
  <2>1. CASE /\ stack[s] # <<>>
             /\ SetRef(r, RefOf(registry, s, v), Stored(registry, RefOf(registry, s, v), v))
    <3>1. v \in HomeOf(Universe[s])
      BY <1>0, <2>1, TopPop DEF StackHome
    <3> QED
      BY <2>1, <3>1, SetRefOfHome
  <2>2. CASE SetRef(r, Invalid(ref[r].lua), registry)
    BY <1>0, <2>2, SetInvalidHome DEF Records
  <2>3. CASE UNCHANGED registry
    BY <1>0, <2>3
  <2> QED
    BY <1>8, <2>1, <2>2, <2>3 DEF Pull
<1>9. ASSUME NEW s \in State, NEW i \in 1..MaxStack, LuaGet(r, s, i) PROVE RegistryHome(registry')
  <2> DEFINE v == stack[s][i]
  <2>1. CASE SetRef(r, RefOf(registry, s, v), Stored(registry, RefOf(registry, s, v), v))
    <3>1. v \in HomeOf(Universe[s])
      BY <1>0, <1>9 DEF LuaGet, StackHome
    <3> QED
      BY <2>1, <3>1, SetRefOfHome
  <2>2. CASE UNCHANGED registry
    BY <1>0, <2>2
  <2> QED
    BY <1>9, <2>1, <2>2 DEF LuaGet
<1>10. CASE SetTable(r)
  <2> DEFINE s == ref[r].lua
             found == named[In(r)]
  <2>1. CASE found \in Tables
    <3>1. s \in State /\ found \in HomeOf(Universe[s])
      BY <1>0, <1>10, Homes DEF SetTable, Records, HomeInv, NamedHome, In
    <3> QED
      BY <1>10, <2>1, <3>1, SetRefOfHome DEF SetTable
  <2>2. CASE found \notin Tables
    <3>1. SetRef(r, Invalid(NULL), registry)
      BY <1>10, <2>2 DEF SetTable, Stored, Invalid
    <3> QED
      BY <3>1, SetInvalidHome
  <2> QED
    BY <2>1, <2>2
<1> QED
  BY <1>1, <1>2, <1>3, <1>4, <1>5, <1>6, <1>7, <1>8, <1>9, <1>10

\* What is left of a stack after a call on a reference, and the tables there are.
LEMMA StackStep ==
  ASSUME HomeInv, NEW r \in Ref,
         \/ \E s \in State \cup {NULL} : Construct(r, s)
         \/ \E q \in Ref : Copy(r, q) \/ Assign(r, q) \/ Swap(r, q)
         \/ \E s \in State :
              \/ TakeRef(r, s) \/ BindScript(r, s) \/ NewTable(r, s)
              \/ Push(r, s) \/ LuaPush(r, s) \/ Pull(r, s)
              \/ \E i \in 1..MaxStack : LuaGet(r, s, i)
         \/ SetTable(r)
  PROVE  StackHome(stack') /\ HeapHome(heap') /\ UNCHANGED <<named, open>>
<1>0. /\ StackHome(stack) /\ HeapHome(heap)
      /\ \A s \in State : stack[s] \in Seq(HomeOf(Universe[s])) /\ Universe[s] \in Universes
  BY Homes DEF HomeInv, StackHome
<1>e. \A s \in State : StackHome([stack EXCEPT ![s] = <<>>])
  <2> TAKE s \in State
  <2>1. <<>> \in Seq(HomeOf(Universe[s]))
    OBVIOUS
  <2> QED
    BY <1>0, <2>1, StackSet
<1>p. \A s \in State : stack[s] # <<>> => StackHome([stack EXCEPT ![s] = Pop(@)])
  <2> TAKE s \in State
  <2> HAVE stack[s] # <<>>
  <2>1. Pop(stack[s]) \in Seq(HomeOf(Universe[s]))
    BY <1>0, TopPop
  <2> QED
    BY <1>0, <2>1, StackSet
<1>1. CASE \/ \E s \in State \cup {NULL} : Construct(r, s)
           \/ \E q \in Ref : Copy(r, q) \/ Assign(r, q) \/ Swap(r, q)
           \/ \E s \in State : BindScript(r, s)
           \/ SetTable(r)
  <2>1. UNCHANGED <<stack, heap, named, open>>
    BY <1>1 DEF Construct, Copy, Assign, Swap, BindScript, SetTable, OnlyRefs
  <2> QED
    BY <1>0, <2>1
<1>2. ASSUME NEW s \in State, TakeRef(r, s)
      PROVE  StackHome(stack') /\ HeapHome(heap') /\ UNCHANGED <<named, open>>
  BY <1>0, <1>p, <1>2 DEF TakeRef
<1>3. ASSUME NEW s \in State, NewTable(r, s)
      PROVE  StackHome(stack') /\ HeapHome(heap') /\ UNCHANGED <<named, open>>
  <2>1. PICK t \in Unreached(Universe[s]) :
          heap' = [heap EXCEPT ![t] = [k \in Value |-> Nil]] /\ UNCHANGED <<stack, named, open>>
    BY <1>3 DEF NewTable
  <2>2. HeapHome(heap')
    <3>1. /\ heap' \in [Tables -> [Value -> Value]]
          /\ \A p \in Tables : heap'[p] = IF p = t THEN [k \in Value |-> Nil] ELSE heap[p]
      BY <1>0, <2>1, ValueAssumption DEF HeapHome
    <3>2. ASSUME NEW u \in Universes, NEW p \in TableOf[u], NEW k \in Value
          PROVE  heap'[p][k] \in HomeOf(u) /\ (k \notin HomeOf(u) => heap'[p][k] = Nil)
      <4>1. p \in Tables /\ Nil \in HomeOf(u)
        BY Homes
      <4> QED
        BY <1>0, <3>1, <4>1 DEF HeapHome
    <3> QED
      BY <3>1, <3>2 DEF HeapHome
  <2> QED
    BY <1>0, <2>1, <2>2
<1>4. ASSUME NEW s \in State, Push(r, s)
      PROVE  StackHome(stack') /\ HeapHome(heap') /\ UNCHANGED <<named, open>>
  <2>1. CASE CanPush(r, s)
    <3>1. Append(stack[s], Held(r)) \in Seq(HomeOf(Universe[s]))
      BY <1>0, <2>1, HeldFits, PushPop
    <3>2. StackHome([stack EXCEPT ![s] = Append(stack[s], Held(r))])
      BY <1>0, <3>1, StackSet
    <3> QED
      BY <1>0, <1>4, <2>1, <3>2 DEF Push, OnlyStacks
  <2>2. CASE ~CanPush(r, s)
    <3>1. stack' = [stack EXCEPT ![s] = stack[s]]
      BY <1>4, <2>2 DEF Push
    <3>2. StackHome([stack EXCEPT ![s] = stack[s]])
      BY <1>0, StackSet
    <3> QED
      BY <1>0, <1>4, <3>1, <3>2 DEF Push, OnlyStacks
  <2> QED
    BY <2>1, <2>2
<1>5. ASSUME NEW s \in State, LuaPush(r, s)
      PROVE  StackHome(stack') /\ HeapHome(heap') /\ UNCHANGED <<named, open>>
  <2>1. CASE Valid(r) /\ s # ref[r].lua
    BY <1>0, <1>e, <1>5, <2>1 DEF LuaPush, Raise, OnlyStacks
  <2>2. CASE ~(Valid(r) /\ s # ref[r].lua)
    <3>1. CanPush(r, s)
      BY <2>2 DEF CanPush, Related
    <3>2. Append(stack[s], Held(r)) \in Seq(HomeOf(Universe[s]))
      BY <1>0, <3>1, HeldFits, PushPop
    <3>3. StackHome([stack EXCEPT ![s] = Append(stack[s], Held(r))])
      BY <1>0, <3>2, StackSet
    <3> QED
      BY <1>0, <1>5, <2>2, <3>3 DEF LuaPush, OnlyStacks
  <2> QED
    BY <2>1, <2>2
<1>6. ASSUME NEW s \in State, Pull(r, s)
      PROVE  StackHome(stack') /\ HeapHome(heap') /\ UNCHANGED <<named, open>>
  BY <1>0, <1>p, <1>6 DEF Pull
<1>7. ASSUME NEW s \in State, NEW i \in 1..MaxStack, LuaGet(r, s, i)
      PROVE  StackHome(stack') /\ HeapHome(heap') /\ UNCHANGED <<named, open>>
  BY <1>0, <1>e, <1>7 DEF LuaGet, Raise
<1> QED
  BY <1>1, <1>2, <1>3, <1>4, <1>5, <1>6, <1>7

\* Calls on tables, on stacks, and what Lua does.
LEMMA OtherStepHome ==
  ASSUME HomeInv,
         \/ \E r \in Ref, k \in Arg :
              \/ \E v \in Arg : Set(r, k, v)
              \/ Remove(r, k)
              \/ \E ty \in Pulls : SafeAt(r, k, ty) \/ At(r, k, ty)
         \/ \E s \in State :
              \/ \E ty \in Pulls : PullValue(ty, s)
              \/ \E v \in Plain : PushValue(v, s)
              \/ PopOne(s) \/ Define(s) \/ CollectCoroutine(s)
         \/ UNCHANGED vars
  PROVE  /\ StackHome(stack') /\ HeapHome(heap') /\ NamedHome(named') /\ open' \subseteq State
         /\ UNCHANGED registry
<1>0. /\ StackHome(stack) /\ HeapHome(heap) /\ NamedHome(named) /\ open \subseteq State
      /\ \A s \in State : stack[s] \in Seq(HomeOf(Universe[s])) /\ Universe[s] \in Universes
  BY Homes DEF HomeInv, StackHome
<1> DEFINE Goal == /\ StackHome(stack') /\ HeapHome(heap') /\ NamedHome(named')
                   /\ open' \subseteq State /\ UNCHANGED registry
<1>1. ASSUME NEW r \in Ref, NEW k \in Arg, NEW v \in Arg, Set(r, k, v) PROVE Goal
  BY <1>0, <1>1, SetHome DEF Set
<1>2. ASSUME NEW r \in Ref, NEW k \in Arg, Remove(r, k) PROVE Goal
  BY <1>0, <1>2, RemoveHome DEF Remove
<1>3. ASSUME NEW r \in Ref, NEW k \in Arg, NEW ty, SafeAt(r, k, ty) PROVE Goal
  BY <1>0, <1>3, SafeAtHome DEF SafeAt
<1>4. ASSUME NEW r \in Ref, NEW k \in Arg, NEW ty, At(r, k, ty) PROVE Goal
  BY <1>0, <1>4, AtHome DEF At, OnlyStacks
<1>5. ASSUME NEW s \in State, NEW ty, PullValue(ty, s) PROVE Goal
  <2>1. <<>> \in Seq(HomeOf(Universe[s])) /\ Pulled(ty, stack[s]) \in Seq(HomeOf(Universe[s]))
    BY <1>0, PulledStack
  <2>2. StackHome([stack EXCEPT ![s] = <<>>]) /\ StackHome([stack EXCEPT ![s] = Pulled(ty, stack[s])])
    BY <1>0, <2>1, StackSet
  <2> QED
    BY <1>0, <1>5, <2>2 DEF PullValue, Raise, OnlyStacks
<1>6. ASSUME NEW s \in State, NEW v \in Plain, PushValue(v, s) PROVE Goal
  <2>1. v \in HomeOf(Universe[s])
    BY Homes DEF HomeOf
  <2>2. StackHome([stack EXCEPT ![s] = Append(stack[s], v)])
    BY <1>0, <2>1, PushPop, StackSet
  <2> QED
    BY <1>0, <1>6, <2>2 DEF PushValue, OnlyStacks
<1>7. ASSUME NEW s \in State, stack[s] # <<>>
      PROVE  Top(stack[s]) \in HomeOf(Universe[s]) /\ StackHome([stack EXCEPT ![s] = Pop(stack[s])])
  <2>1. Top(stack[s]) \in HomeOf(Universe[s]) /\ Pop(stack[s]) \in Seq(HomeOf(Universe[s]))
    BY <1>0, <1>7, TopPop
  <2> QED
    BY <1>0, <2>1, StackSet
<1>8. ASSUME NEW s \in State, PopOne(s) PROVE Goal
  BY <1>0, <1>7, <1>8 DEF PopOne, OnlyStacks
<1>9. ASSUME NEW s \in State, Define(s) PROVE Goal
  <2>1. named' = [named EXCEPT ![Universe[s]] = Top(stack[s])] /\ Top(stack[s]) \in HomeOf(Universe[s])
    BY <1>7, <1>9 DEF Define
  <2>2. NamedHome(named')
    BY <1>0, <2>1, Homes DEF NamedHome
  <2> QED
    BY <1>0, <1>7, <1>9, <2>2 DEF Define
<1>10. ASSUME NEW s \in State, CollectCoroutine(s) PROVE Goal
  <2>1. <<>> \in Seq(HomeOf(Universe[s]))
    OBVIOUS
  <2> QED
    BY <1>0, <1>10, <2>1, StackSet DEF CollectCoroutine
<1>11. CASE UNCHANGED vars
  BY <1>0, <1>11 DEF vars
<1> QED
  BY <1>1, <1>2, <1>3, <1>4, <1>5, <1>6, <1>8, <1>9, <1>10, <1>11

\* Every step keeps the inductive invariant.
LEMMA NextHome == HomeInv /\ [Next]_vars => HomeInv'
<1> SUFFICES ASSUME HomeInv, [Next]_vars PROVE HomeInv'
  OBVIOUS
<1>0. /\ RegistryHome(registry) /\ StackHome(stack) /\ HeapHome(heap)
      /\ NamedHome(named) /\ open \subseteq State /\ OwnInv /\ OwnInv'
  BY NextOwned DEF HomeInv
<1>1. ASSUME NEW r \in Ref,
             \/ \E s \in State \cup {NULL} : Construct(r, s)
             \/ \E q \in Ref : Copy(r, q) \/ Assign(r, q) \/ Swap(r, q)
             \/ \E s \in State :
                  \/ TakeRef(r, s) \/ BindScript(r, s) \/ NewTable(r, s) \/ Pull(r, s)
                  \/ \E i \in 1..MaxStack : LuaGet(r, s, i)
             \/ SetTable(r)
      PROVE  HomeInv'
  <2>1. RegistryHome(registry')
    BY <1>1, RegistryStep
  <2>2. StackHome(stack') /\ HeapHome(heap') /\ UNCHANGED <<named, open>>
    BY <1>1, StackStep
  <2> QED
    BY <1>0, <2>1, <2>2 DEF HomeInv
<1>2. ASSUME NEW r \in Ref, NEW s \in State, Push(r, s) \/ LuaPush(r, s)
      PROVE  HomeInv'
  <2>1. StackHome(stack') /\ HeapHome(heap') /\ UNCHANGED <<named, open>>
    BY <1>2, StackStep
  <2>2. UNCHANGED registry
    BY <1>2 DEF Push, LuaPush, OnlyStacks
  <2> QED
    BY <1>0, <2>1, <2>2 DEF HomeInv
<1>3. CASE \/ \E r \in Ref, k \in Arg :
                \/ \E v \in Arg : Set(r, k, v)
                \/ Remove(r, k)
                \/ \E ty \in Pulls : SafeAt(r, k, ty) \/ At(r, k, ty)
           \/ \E s \in State :
                \/ \E ty \in Pulls : PullValue(ty, s)
                \/ \E v \in Plain : PushValue(v, s)
                \/ PopOne(s) \/ Define(s) \/ CollectCoroutine(s)
           \/ UNCHANGED vars
  <2>1. /\ StackHome(stack') /\ HeapHome(heap') /\ NamedHome(named') /\ open' \subseteq State
        /\ UNCHANGED registry
    BY <1>3, OtherStepHome
  <2> QED
    BY <1>0, <2>1 DEF HomeInv
<1> QED
  BY <1>1, <1>2, <1>3 DEF Next

----------------------------------------------------------------------------
(* What a caller sees                                                      *)

\* The parts of RefInv.
LEMMA HomeInvIsRefInv == HomeInv => RefInv
<1> SUFFICES ASSUME HomeInv PROVE RefInv
  OBVIOUS
<1>1. TypeOK
  BY DEF HomeInv, OwnInv, Owned, StackHome, HeapHome, NamedHome, TypeOK, Records, Registries
<1>2. SlotsOwned
  BY OwnedSlots DEF HomeInv
<1>3. ValuesAtHome
  <2> SUFFICES ASSUME NEW u \in Universes
               PROVE  /\ named[u] \notin Tables \ TableOf[u]
                      /\ \A i \in Slot : registry[u][i] \notin Tables \ TableOf[u]
                      /\ \A s \in State : Universe[s] = u =>
                           \A i \in DOMAIN stack[s] : stack[s][i] \notin Tables \ TableOf[u]
                      /\ \A t \in TableOf[u], k \in Value :
                           /\ heap[t][k] \notin Tables \ TableOf[u]
                           /\ k \in Tables \ TableOf[u] => heap[t][k] = Nil
    BY DEF ValuesAtHome
  <2>1. Free \notin Tables
    BY SlotAssumption, RefAssumption
  <2>2. \A s \in State : Universe[s] = u =>
           \A i \in DOMAIN stack[s] : stack[s][i] \in HomeOf(u)
    BY DEF HomeInv, StackHome
  <2>3. \A t \in TableOf[u], k \in Value :
          heap[t][k] \in HomeOf(u) /\ (k \notin HomeOf(u) => heap[t][k] = Nil)
    BY DEF HomeInv, HeapHome
  <2>4. named[u] \in HomeOf(u) /\ \A i \in Slot : registry[u][i] \in HomeOf(u) \cup {Free}
    BY DEF HomeInv, NamedHome, RegistryHome
  <2> QED
    BY <2>1, <2>2, <2>3, <2>4 DEF HomeOf
<1> QED
  BY <1>1, <1>2, <1>3 DEF RefInv

\* A stack with values pushed on top of it, cut again.
LEMMA CutBack ==
  ASSUME NEW S, NEW st \in Seq(S), NEW q \in Seq(S), Len(q) >= Len(st),
         \A i \in 1 .. Len(st) : q[i] = st[i]
  PROVE  RestoredStack(q, Len(st)) = st
<1>1. /\ RestoredStack(q, Len(st)) \in Seq(S)
      /\ Len(RestoredStack(q, Len(st))) = Len(st)
      /\ \A i \in 1 .. Len(st) : RestoredStack(q, Len(st))[i] = q[i]
  BY Restored
<1> QED
  BY <1>1, SeqEqual

\* Where the tables passed are of the universe of the table, all are pushed.
LEMMA ProperPushes ==
  ASSUME NEW r \in Ref, Proper(r), Valid(r), NEW a \in Arg
  PROVE  Pushes(a, ref[r].lua)
BY DEF Proper, Pushes, CanPush, Related, In

\* The stack of set and remove: what there was, the table, the key and a value.
LEMMA ThreePushed ==
  ASSUME NEW S, NEW st \in Seq(S), NEW t \in S, NEW k \in S, NEW v \in S
  PROVE  LET q == Append(Append(Append(st, t), k), v) IN
           /\ Len(q) = Len(st) + 3
           /\ q[Len(st) + 1] = t
           /\ RestoredStack(SubSeq(q, 1, Len(q) - 2), Len(st)) = st
<1> DEFINE a == Append(st, t)
           b == Append(a, k)
           q == Append(b, v)
<1>1. /\ a \in Seq(S) /\ Len(a) = Len(st) + 1 /\ a[Len(st) + 1] = t
      /\ \A i \in 1 .. Len(st) : a[i] = st[i]
  BY AppendProperties
<1> HIDE DEF a
<1>2. b \in Seq(S) /\ Len(b) = Len(a) + 1 /\ \A i \in 1 .. Len(a) : b[i] = a[i]
  BY <1>1, AppendProperties
<1> HIDE DEF b
<1>3. q \in Seq(S) /\ Len(q) = Len(b) + 1 /\ \A i \in 1 .. Len(b) : q[i] = b[i]
  BY <1>2, AppendProperties
<1> HIDE DEF q
<1>4. /\ Len(q) = Len(st) + 3 /\ Len(st) \in Nat
      /\ \A i \in 1 .. Len(st) + 1 : q[i] = a[i]
  BY <1>1, <1>2, <1>3
<1> DEFINE n == Len(q) - 2
<1>5. n = Len(st) + 1 /\ n \in Int /\ n <= Len(q)
  BY <1>4
<1> HIDE DEF n
<1> DEFINE c == SubSeq(q, 1, n)
<1>6. c \in Seq(S) /\ Len(c) = n /\ \A i \in 1 .. n : c[i] = q[i]
  BY <1>3, <1>4, <1>5, Prefix
<1> HIDE DEF c
<1>7. RestoredStack(c, Len(st)) = st
  <2>1. Len(c) >= Len(st) /\ \A i \in 1 .. Len(st) : c[i] = st[i]
    BY <1>1, <1>4, <1>5, <1>6
  <2> QED
    BY <1>6, <2>1, CutBack
<1> QED
  BY <1>1, <1>3, <1>4, <1>7 DEF c, n, q, b, a

\* set and remove of a proper Table: the stack comes back, and only its own table
\* changes.
LEMMA SettableStep ==
  ASSUME HomeInv, NEW r \in Ref, GetTable(r), NEW k \in HomeOf(In(r)), NEW v \in HomeOf(In(r)),
         NEW op, SetAndRestore(op, r, ref[r].lua, Append(Append(Got(r), k), v))
  PROVE  /\ ~last'.raised => stack' = stack
         /\ \A t \in Tables : heap'[t] # heap[t] => t = Held(r)
<1> DEFINE s == ref[r].lua
           st == stack[s]
           q == Append(Append(Append(st, Held(r)), k), v)
           n == Len(q)
<1>1. /\ s \in State /\ Held(r) \in HomeOf(In(r)) /\ st \in Seq(HomeOf(In(r)))
      /\ Append(Append(Got(r), k), v) = q /\ stack \in [State -> Seq(Value)]
      /\ heap \in [Tables -> [Value -> Value]]
  BY GotHome, HeldHome DEF GetTable, HomeInv, StackHome, HeapHome
<1> DEFINE S == HomeOf(In(r))
<1>2. /\ Len(q) = Len(st) + 3 /\ Len(st) \in Nat /\ q[Len(st) + 1] = Held(r)
      /\ RestoredStack(SubSeq(q, 1, Len(q) - 2), Len(st)) = st
  <2>1. st \in Seq(S) /\ Held(r) \in S /\ k \in S /\ v \in S
        /\ q = Append(Append(Append(st, Held(r)), k), v)
    BY <1>1
  <2> HIDE DEF S, st, q
  <2>2. /\ Len(q) = Len(st) + 3 /\ q[Len(st) + 1] = Held(r)
        /\ RestoredStack(SubSeq(q, 1, Len(q) - 2), Len(st)) = st
    BY <2>1, ThreePushed
  <2> QED
    BY <2>1, <2>2
<1>3. IndexOfTable(q) = Len(st) + 1
  BY <1>2 DEF IndexOfTable
<1>4. SetAndRestore(op, r, s, q)
  BY <1>1
<1> HIDE DEF q
<1>5. CASE IndexOfTable(q) > 0 /\ q[IndexOfTable(q)] \in Tables /\ q[n - 1] # Nil
  <2>1. /\ heap' = [heap EXCEPT ![q[IndexOfTable(q)]][q[n - 1]] = q[n]]
        /\ stack' = [stack EXCEPT ![s] = RestoredStack(SubSeq(q, 1, n - 2), Len(stack[s]))]
    BY <1>4, <1>5 DEF SetAndRestore
  <2>2. stack' = stack
    BY <1>1, <1>2, <2>1
  <2>3. heap' = [heap EXCEPT ![Held(r)][q[n - 1]] = q[n]]
    BY <1>2, <1>3, <2>1
  <2> QED
    BY <1>1, <2>2, <2>3
<1>6. CASE ~(IndexOfTable(q) > 0 /\ q[IndexOfTable(q)] \in Tables /\ q[n - 1] # Nil)
  <2>1. Raise(op, {r}, s) /\ heap' = heap
    BY <1>4, <1>6 DEF SetAndRestore
  <2>2. last'.raised
    BY <2>1 DEF Raise
  <2> QED
    BY <2>1, <2>2
<1> QED
  BY <1>5, <1>6

LEMMA SetStep ==
  ASSUME HomeInv, NEW r \in Ref, NEW k \in Arg, NEW v \in Arg, Set(r, k, v)
  PROVE  StackAsBefore /\ SetsItsTable
<1>0. last'.on = {r} /\ last'.op = "set"
  BY DEF Set, SetAndRestore, NoTable, Did, Raise
<1> SUFFICES ASSUME Proper(r)
             PROVE  /\ ~last'.raised => stack' = stack
                    /\ \A t \in Tables : heap'[t] # heap[t] => t = Held(r)
  BY <1>0 DEF StackAsBefore, SetsItsTable
<1>1. CASE GetTable(r)
  <2> DEFINE s == ref[r].lua
  <2>1. Pushes(k, s) /\ Pushes(v, s) /\ s \in State /\ In(r) = Universe[s]
    BY <1>1, ProperPushes, HeldHome DEF GetTable, In
  <2>2. Of(k) \in HomeOf(In(r)) /\ Of(v) \in HomeOf(In(r))
    BY <2>1, ArgHome
  <2>3. SetAndRestore("set", r, s, Append(Append(Got(r), Of(k)), Of(v)))
    BY <1>1, <2>1 DEF Set, WithArg
  <2> QED
    BY <1>1, <2>2, <2>3, SettableStep
<1>2. CASE ~GetTable(r)
  BY <1>2 DEF GetTable, Proper, Set, NoTable
<1> QED
  BY <1>1, <1>2

LEMMA RemoveStep ==
  ASSUME HomeInv, NEW r \in Ref, NEW k \in Arg, Remove(r, k)
  PROVE  StackAsBefore /\ SetsItsTable
<1>0. last'.on = {r} /\ last'.op = "remove"
  BY DEF Remove, SetAndRestore, NoTable, Did, Raise
<1> SUFFICES ASSUME Proper(r)
             PROVE  /\ ~last'.raised => stack' = stack
                    /\ \A t \in Tables : heap'[t] # heap[t] => t = Held(r)
  BY <1>0 DEF StackAsBefore, SetsItsTable
<1>1. CASE GetTable(r)
  <2> DEFINE s == ref[r].lua
  <2>1. Pushes(k, s) /\ s \in State /\ In(r) = Universe[s] /\ In(r) \in Universes
    BY <1>1, ProperPushes, HeldHome DEF GetTable, In
  <2>2. Of(k) \in HomeOf(In(r)) /\ Nil \in HomeOf(In(r))
    BY <2>1, ArgHome, Homes
  <2>3. SetAndRestore("remove", r, s, Append(Append(Got(r), Of(k)), Nil))
    BY <1>1, <2>1 DEF Remove, WithArg
  <2> QED
    BY <1>1, <2>2, <2>3, SettableStep
<1>2. CASE ~GetTable(r)
  BY <1>2 DEF GetTable, Proper, Remove, NoTable
<1> QED
  BY <1>1, <1>2

LEMMA SafeAtStep ==
  ASSUME HomeInv, NEW r \in Ref, NEW k \in Arg, NEW ty, SafeAt(r, k, ty)
  PROVE  StackAsBefore /\ SetsItsTable
<1> DEFINE s == ref[r].lua
           v == heap[Held(r)][Of(k)]
           st == Append(Got(r), v)
           S == HomeOf(Universe[s])
<1>0. last'.on = {r} /\ last'.op = "safe_at"
  BY DEF SafeAt, NoTable, Did, Raise
<1> SUFFICES ASSUME Proper(r), ~last'.raised
             PROVE  stack' = stack
  BY <1>0 DEF StackAsBefore, SetsItsTable
<1>1. CASE ~GetTable(r) /\ NoTable("safe_at", r)
  BY <1>1 DEF GetTable, Proper, NoTable
<1>2. CASE UNCHANGED stack
  BY <1>2
<1>3. CASE GetTable(r) /\ Pushes(k, s) /\ v # Nil /\ ~RaisesOnPull(ty, st) /\
           stack' = [stack EXCEPT ![s] = RestoredStack(Pulled(ty, st), Len(@))]
  <2>1. /\ s \in State /\ Got(r) \in Seq(S) /\ Len(Got(r)) = Len(stack[s]) + 1
        /\ Got(r) = Append(stack[s], Held(r)) /\ Held(r) \in S
        /\ stack[s] \in Seq(S) /\ stack \in [State -> Seq(Value)]
    BY <1>3, GotHome, HeldHome DEF GetTable, HomeInv, StackHome
  <2>2. v \in S
    BY <1>3, <2>1, ArgHome, Homes, ReadHome
  <2> HIDE DEF v
  <2>3. \A i \in 1 .. Len(stack[s]) : Got(r)[i] = stack[s][i]
    BY <2>1, AppendProperties
  <2>4. /\ st \in Seq(S) /\ Len(st) = Len(Got(r)) + 1 /\ Pop(st) = Got(r)
        /\ \A i \in 1 .. Len(Got(r)) : st[i] = Got(r)[i]
    <3>1. Got(r) \in Seq(S) /\ v \in S /\ st = Append(Got(r), v)
      BY <2>1, <2>2
    <3> HIDE DEF S, st
    <3> QED
      BY <3>1, PushPop, AppendProperties
  <2> HIDE DEF st
  <2>5. Pulled(ty, st) = st \/ Pulled(ty, st) = Got(r)
    BY <2>4, PulledStack
  <2>6. /\ Pulled(ty, st) \in Seq(S) /\ Len(Pulled(ty, st)) >= Len(stack[s])
        /\ \A i \in 1 .. Len(stack[s]) : Pulled(ty, st)[i] = stack[s][i]
    <3>1. CASE Pulled(ty, st) = st
      BY <2>1, <2>3, <2>4, <3>1
    <3>2. CASE Pulled(ty, st) = Got(r)
      BY <2>1, <2>3, <3>2
    <3> QED
      BY <2>5, <3>1, <3>2
  <2>7. RestoredStack(Pulled(ty, st), Len(stack[s])) = stack[s]
    BY <2>1, <2>6, CutBack
  <2> QED
    BY <1>3, <2>1, <2>7
<1>4. ASSUME Raise("safe_at", {r}, s) PROVE FALSE
  BY <1>4 DEF Raise
<1> QED
  BY <1>1, <1>2, <1>3, <1>4 DEF SafeAt

LEMMA AtStep ==
  ASSUME HomeInv, NEW r \in Ref, NEW k \in Arg, NEW ty \in Pulls, At(r, k, ty)
  PROVE  StackAsBefore /\ SetsItsTable
<1> DEFINE s == ref[r].lua
           v == heap[Held(r)][Of(k)]
           st == Append(Got(r), v)
           S == HomeOf(Universe[s])
<1>0. last'.on = {r} /\ last'.op = "at"
  BY DEF At, Did
<1> SUFFICES ASSUME "void*" \notin Pulls
             PROVE  stack' = stack
  BY <1>0 DEF StackAsBefore, SetsItsTable
<1>1. /\ s \in State /\ Got(r) \in Seq(S) /\ Got(r) = Append(stack[s], Held(r)) /\ Held(r) \in S
      /\ stack[s] \in Seq(S) /\ stack \in [State -> Seq(Value)]
      /\ GetTable(r) /\ Pushes(k, s) /\ PullOk(ty, st) /\ ty # "void*"
      /\ stack' = [stack EXCEPT ![s] = Pop(Pulled(ty, st))]
  BY GotHome, HeldHome DEF GetTable, HomeInv, StackHome, At
<1>2. v \in S
  BY <1>1, ArgHome, Homes, ReadHome
<1> HIDE DEF v
<1>3. Pop(st) = Got(r) /\ Pop(Got(r)) = stack[s]
  <2>1. /\ Got(r) \in Seq(S) /\ v \in S /\ st = Append(Got(r), v)
        /\ stack[s] \in Seq(S) /\ Held(r) \in S /\ Got(r) = Append(stack[s], Held(r))
    BY <1>1, <1>2
  <2> HIDE DEF S, st, s
  <2>2. Pop(st) = Got(r)
    BY <2>1, PushPop
  <2> QED
    BY <2>1, <2>2, PushPop
<1> HIDE DEF st
<1>4. Pulled(ty, st) = Got(r)
  BY <1>1, <1>3 DEF Pulled
<1> QED
  BY <1>1, <1>3, <1>4

\* Every step leaves the stacks as they were, if it is an access to a table, and
\* writes to no other table.
LEMMA NextAccess == HomeInv /\ [Next]_vars => [StackAsBefore]_vars /\ [SetsItsTable]_vars
<1> SUFFICES ASSUME HomeInv, Next PROVE StackAsBefore /\ SetsItsTable
  OBVIOUS
<1>1. ASSUME NEW r \in Ref,
             \/ \E s \in State \cup {NULL} : Construct(r, s)
             \/ \E q \in Ref : Copy(r, q) \/ Assign(r, q) \/ Swap(r, q)
             \/ \E s \in State :
                  \/ TakeRef(r, s) \/ BindScript(r, s)
                  \/ Push(r, s) \/ LuaPush(r, s) \/ Pull(r, s)
                  \/ \E i \in 1..MaxStack : LuaGet(r, s, i)
      PROVE  last'.op \in {"construct", "copy", "assign", "swap", "set_ref", "bind_script",
                           "push", "lua_push", "pull", "lua_get"}
  BY <1>1 DEF Construct, Copy, Assign, Swap, TakeRef, BindScript, Push, LuaPush, Pull, LuaGet,
              Did, Raise
<1>2. ASSUME NEW s \in State,
             \/ \E ty \in Pulls : PullValue(ty, s)
             \/ \E v \in Plain : PushValue(v, s)
             \/ PopOne(s) \/ Define(s) \/ CollectCoroutine(s)
      PROVE  last'.op \in {"pull", "push_value", "pop", "define", "collect"}
  BY <1>2 DEF PullValue, PushValue, PopOne, Define, CollectCoroutine, Did, Raise
<1>3. ASSUME NEW r \in Ref, SetTable(r) \/ \E s \in State : NewTable(r, s)
      PROVE  stack' = stack /\ last'.op \in {"set_table", "new_table"}
  BY <1>3 DEF SetTable, NewTable, Did, OnlyRefs
<1>4. last'.op \in {"construct", "copy", "assign", "swap", "set_ref", "bind_script", "push",
                    "lua_push", "pull", "lua_get", "push_value", "pop", "define", "collect"}
        => StackAsBefore /\ SetsItsTable
  BY DEF StackAsBefore, SetsItsTable
<1>5. last'.op \in {"set_table", "new_table"} /\ stack' = stack => StackAsBefore /\ SetsItsTable
  BY DEF StackAsBefore, SetsItsTable
<1>6. ASSUME NEW r \in Ref, NEW k \in Arg,
             \/ \E v \in Arg : Set(r, k, v)
             \/ Remove(r, k)
             \/ \E ty \in Pulls : SafeAt(r, k, ty) \/ At(r, k, ty)
      PROVE  StackAsBefore /\ SetsItsTable
  BY <1>6, SetStep, RemoveStep, SafeAtStep, AtStep
<1> QED
  BY <1>1, <1>2, <1>3, <1>4, <1>5, <1>6 DEF Next

\* The inductive invariant holds of every reachable state.
THEOREM HomeInvCorrect == Spec => []HomeInv
<1> QED
  BY InitHome, NextHome, PTL DEF Spec

\* RefInv: references and universes are sound.  Each slot that is taken has one
\* owner, and no order of copies, moves between stacks, reads and writes of tables
\* takes a table to another universe than its own.
THEOREM RefInvCorrect == Spec => []RefInv
<1> QED
  BY HomeInvCorrect, HomeInvIsRefInv, PTL

\* Reads and writes of tables leave every stack as it was.
THEOREM StacksCorrect == Spec => StacksRestored
<1>1. HomeInv /\ [Next]_vars => [StackAsBefore]_vars
  BY NextAccess
<1> QED
  BY <1>1, HomeInvCorrect, PTL DEF Spec, StacksRestored

\* What set and remove write goes into the table of their own reference.
THEOREM WritesCorrect == Spec => WritesItsTable
<1>1. HomeInv /\ [Next]_vars => [SetsItsTable]_vars
  BY NextAccess
<1> QED
  BY <1>1, HomeInvCorrect, PTL DEF Spec, WritesItsTable
============================================================================

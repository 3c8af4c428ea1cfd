------------------------------ MODULE Proxies ------------------------------
(***************************************************************************)
(* How OOLua shows C++ objects to Lua (src/src/lua/oolua, proxy_storage):  *)
(* a userdata (Lua_ud) holds a pointer, the class it was last known as and *)
(* the flags const, gc and collision; a weak table in the registry maps    *)
(* addresses to userdata, so that an object pushed twice is one Lua value. *)
(* An address shared by unrelated objects (an object and its first member, *)
(* or a dead object and the one now in its place) maps to a collision      *)
(* table.  Lua's collector finalizes userdata and deletes what Lua owns.   *)
(***************************************************************************)
EXTENDS Naturals

CONSTANTS
  Class,            \* the proxied classes
  Bases,            \* Proxy_class<T>::Bases, the bases a class was exported with
  Offset,           \* Offset[T][B]: where a T has its base B
  Member,           \* Member[T]: other views C++ may push, <<class, offset>>
  NoDestructor,     \* the classes tagged No_public_destructor
  Cell,             \* places of the heap, each large enough for any object
  Ud,               \* the userdata blocks of the Lua state
  Programs          \* what a C++ program may do, see ProgramType

(* FindAllBases: the bases, their bases and so on.                         *)
AllBases ==
  [T \in Class |->
     {B \in Class : \A S \in SUBSET Class :
        Bases[T] \subseteq S /\ (\A C \in S : Bases[C] \subseteq S) => B \in S}]

Free == "free"          \* nothing lives in the cell
None == "none"          \* the block is not a userdata now
Owner == {"No_change", "Cpp", "Lua"}

ASSUME ClassAssumption ==
  /\ Free \notin Class
  /\ Bases \in [Class -> SUBSET Class]
  /\ \A T \in Class : T \notin AllBases[T]
  /\ Offset \in [Class -> [Class -> Nat]]
  /\ Member \in [Class -> SUBSET (Class \X Nat)]
  /\ NoDestructor \subseteq Class

(* A program makes objects of some classes; it may pass ownership of them  *)
(* across the border; a userdata may outlive the object it points to.      *)
ProgramType == [classes : SUBSET Class, transfers : BOOLEAN, outlives : BOOLEAN]

VARIABLES
  program, \* the C++ program, one of Programs
  heap,    \* heap[c]: the class of the complete object in c, or Free
  owner,   \* owner[c]: the side whose turn it is to delete that object
  given,   \* the cells whose object has been pushed without const
  ud,      \* the userdata: Lua_ud and where it is in its life
  held,    \* the userdata Lua's program can still reach
  weak     \* the weak table: address -> a userdata or a collision table

vars == <<program, heap, owner, given, ud, held, weak>>

Dead == [st |-> None]
Lua_ud == [st : {"live", "dying"}, ptr : Cell \X Nat, class : Class,
           const : BOOLEAN, gc : BOOLEAN, collision : BOOLEAN]
Live == {u \in Ud : ud[u].st = "live"}
Known == {u \in Ud : ud[u].st # None}

----------------------------------------------------------------------------
(* Pointers: an address is a cell and an offset in it.                     *)

(* The bases of T that have none themselves (FindRootBases).               *)
RootBases(T) == {B \in AllBases[T] : AllBases[B] = {}}

At(T, a, B) == IF B = T THEN a ELSE <<a[1], a[2] + Offset[T][B]>>

BaseAddresses(T, a) == {At(T, a, B) : B \in AllBases[T]}

Complete(T) == {T} \cup AllBases[T]

Addresses(T, a) == {At(T, a, B) : B \in Complete(T)}

(* What C++ can push of an object of class T: itself, a base, a member.    *)
OwnViews(T) == {<<B, At(T, <<T, 0>>, B)[2]>> : B \in Complete(T)}
Views(T) == OwnViews(T) \cup Member[T]

(* A class, its bases and theirs are a chain, and lie at one address.      *)
Chain(T) ==
  /\ \A B \in AllBases[T] : Offset[T][B] = 0
  /\ \A B, C \in AllBases[T] : B \in Complete(C) \/ C \in Complete(B)

SingleInheritance(classes) == \A T \in classes : \A view \in Views(T) : Chain(view[1])

(* How a compiler lays out objects: a base of a base is where that base    *)
(* has it; an object is no part of its own parts; of two objects that share*)
(* an address and are base and derived, one is that part of the other; and *)
(* no member lies where the object has a base of the same class.           *)
ASSUME LayoutAssumption ==
  \A T \in Class :
    /\ \A B \in AllBases[T] : \A C \in AllBases[B] :
         Offset[T][C] = Offset[T][B] + Offset[B][C]
    /\ \A view \in Views(T) : T \notin AllBases[view[1]]
    /\ \A v, w \in Views(T) :
         /\ v[1] \in AllBases[w[1]]
         /\ Addresses(v[1], <<T, v[2]>>) \cap Addresses(w[1], <<T, w[2]>>) # {}
         => v[2] = w[2] + Offset[w[1]][v[1]]
    /\ \A v \in Member[T] : \A B \in Complete(T) \cap Complete(v[1]) :
         At(v[1], <<T, v[2]>>, B) # At(T, <<T, 0>>, B)

(* reset_metatable registers the addresses of the bases, not the object's  *)
(* own: OOLua relies on a class having its first base at its own address.  *)
ASSUME FirstBaseAssumption ==
  \A T \in Class : AllBases[T] # {} => \E B \in AllBases[T] : Offset[T][B] = 0

(* A class is not tagged No_public_destructor when a base of it is not.    *)
ASSUME DestructorAssumption ==
  \A T \in NoDestructor : AllBases[T] \subseteq NoDestructor

(* What OOLua leaves to the program.  Two bases at two addresses make two  *)
(* userdata, which may both own the object; the userdata of an object that *)
(* is gone may be taken for the new one's; and, taken for a derived class, *)
(* it stays known at the addresses the bases of its old class had.         *)
ASSUME ProgramAssumption ==
  /\ Programs \subseteq ProgramType
  /\ \A p \in Programs :
       /\ p.transfers => ~p.outlives /\ SingleInheritance(p.classes)
       /\ p.outlives => \A T \in p.classes : \A view \in Views(T) :
            \A B \in AllBases[view[1]] : \A C \in AllBases[B] : Offset[B][C] = 0

----------------------------------------------------------------------------
(* The weak table.  An entry that is no table and whose userdata is gone   *)
(* is nil; a collision table is also a key, so it stays when it is empty.  *)
Uds(a) == IF a \in DOMAIN weak THEN weak[a].uds ELSE {}
IsTable(a) == a \in DOMAIN weak /\ weak[a].table

(* Mutant: an entry for the address is replaced. *)
RegisteredOver(S, u) ==
  [a \in DOMAIN weak \cup S |->
     IF a \in S THEN [table |-> IsTable(a), uds |-> {u}] ELSE weak[a]]

(* add_ptr_if_required for every address of S                              *)
Registered(S, u) ==
  [a \in DOMAIN weak \cup S |->
     IF a \in S THEN [table |-> IsTable(a) \/ Uds(a) \ {u} # {},
                      uds |-> Uds(a) \cup {u}]
     ELSE weak[a]]

(* and the userdata it marks as sharing an address                         *)
Colliding(S, u) ==
  UNION {{u} \cup (IF IsTable(a) THEN {} ELSE Uds(a)) :
           a \in {x \in S : x \in DOMAIN weak /\ u \notin Uds(x)}}

SetCollision(uds, S) ==
  [u \in Ud |-> IF u \in S THEN [uds[u] EXCEPT !.collision = TRUE] ELSE uds[u]]

----------------------------------------------------------------------------
(* The lookup.                                                             *)

(* ud_is_type or valid_base_ptr_or_null: u already stands for a T.         *)
SameOrDerived(u, T) == ud[u].class = T \/ T \in AllBases[ud[u].class]

(* Mutant: the caster of the stored class is asked, which knows no derived one. *)
IsDerivedNever(u, T) == FALSE

(* is_derived_ptr: a T is a more derived view of what u is stored as.      *)
IsDerivedPtr(u, T) == ud[u].class \in AllBases[T]

Matches(T, a) == {u \in Uds(a) : SameOrDerived(u, T) \/ IsDerivedPtr(u, T)}

(* check_roots: bases at other addresses that are stored as a base of T.   *)
RootMatches(T, a) ==
  UNION {{u \in Uds(b) : IsDerivedPtr(u, T)} :
           b \in {At(T, a, B) : B \in RootBases(T)} \ {a}}

(* Mutant: the flag is set from owner == Lua without the test for No_change. *)
OwnFlagAlways(own, gc) == own = "Lua"

OwnFlag(own, gc) == IF own = "No_change" THEN gc ELSE own = "Lua"

(* Mutant: the const flag is cleared whatever is pushed. *)
ReuseUnconst(u, isConst, own) ==
  /\ ud' = [ud EXCEPT ![u].const = FALSE, ![u].gc = OwnFlag(own, @)]
  /\ UNCHANGED weak

(* is_correct_ud, first case: reuse, and drop const for a plain pointer.   *)
Reuse(u, isConst, own) ==
  /\ ud' = [ud EXCEPT ![u].const = @ /\ isConst, ![u].gc = OwnFlag(own, @)]
  /\ UNCHANGED weak

(* reset_metatable: u becomes a T, and T's bases are registered for it.    *)
ResetMetatable(u, T, a, isConst, own) ==
  LET reset == [ud EXCEPT ![u].ptr = a, ![u].class = T,
                          ![u].const = @ /\ isConst,
                          ![u].gc = OwnFlag(own, @)]
      S == BaseAddresses(T, a)
  IN /\ weak' = Registered(S, u)
     /\ ud' = SetCollision(reset, Colliding(S, u))

(* add_ptr: a new userdata, registered at its address and at its bases'.   *)
AddPtr(u, T, a, isConst, own) ==
  LET S == {a} \cup BaseAddresses(T, a)
      new == [st |-> "live", ptr |-> a, class |-> T, const |-> isConst,
              gc |-> OwnFlag(own, FALSE), collision |-> FALSE]
  IN /\ ud[u] = Dead
     /\ weak' = Registered(S, u)
     /\ ud' = SetCollision([ud EXCEPT ![u] = new], Colliding(S, u))

(* push_pointer_which_has_a_proxy_class: find_ud, else add_ptr.  A table   *)
(* without a match is not followed by check_roots.                         *)
PushPointer(u, T, a, isConst, own) ==
  /\ held' = held \cup {u}
  /\ IF Matches(T, a) # {}
     THEN \/ u \in Matches(T, a) /\ SameOrDerived(u, T) /\ Reuse(u, isConst, own)
          \/ u \in Matches(T, a) /\ ~SameOrDerived(u, T)
               /\ ResetMetatable(u, T, a, isConst, own)
     ELSE IF ~IsTable(a) /\ RootMatches(T, a) # {}
     THEN u \in RootMatches(T, a) /\ ResetMetatable(u, T, a, isConst, own)
     ELSE AddPtr(u, T, a, isConst, own)

----------------------------------------------------------------------------
(* What the two sides do.                                                  *)
Init ==
  /\ program \in Programs
  /\ heap = [c \in Cell |-> Free]
  /\ owner = [c \in Cell |-> "Cpp"]
  /\ given = {}
  /\ ud = [u \in Ud |-> Dead]
  /\ held = {}
  /\ weak = [a \in {} |-> {}]

CppNew(c, T) ==
  /\ heap[c] = Free /\ T \in program.classes
  /\ heap' = [heap EXCEPT ![c] = T]
  /\ owner' = [owner EXCEPT ![c] = "Cpp"]
  /\ given' = given \ {c}
  /\ UNCHANGED <<program, ud, held, weak>>

CppDelete(c) ==
  /\ heap[c] # Free /\ owner[c] = "Cpp"
  /\ program.outlives \/ \A u \in Known : ud[u].ptr[1] # c
  /\ heap' = [heap EXCEPT ![c] = Free]
  /\ UNCHANGED <<program, owner, given, ud, held, weak>>

(* T.new() in Lua and a result returned by value: the object is new, so it *)
(* is not looked up.                                                       *)
LuaNew(c, T, u) ==
  /\ heap[c] = Free /\ T \in program.classes \ NoDestructor
  /\ heap' = [heap EXCEPT ![c] = T]
  /\ owner' = [owner EXCEPT ![c] = "Lua"]
  /\ given' = given \cup {c}
  /\ AddPtr(u, T, <<c, 0>>, FALSE, "Lua")
  /\ held' = held \cup {u}
  /\ UNCHANGED program

(* C++ pushes a pointer it may use: to an object it owns, or one that Lua  *)
(* owns and keeps.  Only a complete object, by itself or by a base, changes owner.  *)
Push(c, u, isConst, own) ==
  /\ heap[c] # Free
  /\ owner[c] = "Cpp" \/ \E k \in held : ud[k].gc /\ ud[k].ptr[1] = c
  /\ \E view \in Views(heap[c]) :
       /\ own # "No_change" => program.transfers /\ view \in OwnViews(heap[c])
                                /\ view[1] \notin NoDestructor
       /\ PushPointer(u, view[1], <<c, view[2]>>, isConst, own)
  /\ owner' = IF own = "No_change" THEN owner ELSE [owner EXCEPT ![c] = own]
  /\ given' = IF isConst THEN given ELSE given \cup {c}
  /\ UNCHANGED <<program, heap>>

(* u stands for an object that is no part of another.                      *)
StandsForWhole(u) ==
  /\ heap[ud[u].ptr[1]] # Free
  /\ <<ud[u].class, ud[u].ptr[2]>> \in OwnViews(heap[ud[u].ptr[1]])

(* The calls by which Lua passes the object of u to another owner:         *)
(* cpp_acquire_ptr (a parameter C++ keeps, refused for a const userdata)   *)
(* and x:set_owner(own).                                                   *)
Acquire(u, T) ==
  /\ program.transfers /\ u \in held /\ ~ud[u].const
  /\ SameOrDerived(u, T) /\ StandsForWhole(u)
  /\ ud' = [ud EXCEPT ![u].gc = FALSE]
  /\ owner' = [owner EXCEPT ![ud[u].ptr[1]] = "Cpp"]
  /\ UNCHANGED <<program, heap, given, held, weak>>

SetOwner(u, own) ==
  /\ program.transfers /\ u \in held
  /\ ud[u].class \notin NoDestructor /\ StandsForWhole(u)
  /\ ud' = [ud EXCEPT ![u].gc = own = "Lua"]
  /\ owner' = [owner EXCEPT ![ud[u].ptr[1]] = own]
  /\ UNCHANGED <<program, heap, given, held, weak>>

(* The Lua program forgets a userdata.                                     *)
Drop(u) ==
  /\ u \in held
  /\ held' = held \ {u}
  /\ UNCHANGED <<program, heap, owner, given, ud, weak>>

(* The collector finds the userdata of S unreachable: they leave the weak  *)
(* table and the collision tables, which are weak too, before __gc runs.   *)
(* Unless userdata outlive objects, the owner goes with those of its parts.*)
Collect(S) ==
  /\ S # {} /\ S \subseteq Live \ held
  /\ \/ program.outlives
     \/ \A u \in S : ud[u].gc => {v \in Live : ud[v].ptr[1] = ud[u].ptr[1]} \subseteq S
  /\ ud' = [u \in Ud |-> IF u \in S THEN [ud[u] EXCEPT !.st = "dying"] ELSE ud[u]]
  /\ weak' = [a \in {x \in DOMAIN weak : weak[x].table \/ weak[x].uds \ S # {}} |->
                [table |-> weak[a].table, uds |-> weak[a].uds \ S]]
  /\ UNCHANGED <<program, heap, owner, given, held>>

(* The empty collision tables __gc removes: at the pointer, at the bases.  *)
Cleaned(u) ==
  IF ud[u].collision
  THEN {a \in Addresses(ud[u].class, ud[u].ptr) : IsTable(a) /\ Uds(a) = {}}
  ELSE {}

(* gc, or gc_no_destructor for a class without a public destructor         *)
Finalize(u) ==
  /\ ud[u].st = "dying"
  /\ weak' = [a \in DOMAIN weak \ Cleaned(u) |-> weak[a]]
  /\ heap' = IF ud[u].gc /\ ud[u].class \notin NoDestructor
             THEN [heap EXCEPT ![ud[u].ptr[1]] = Free] ELSE heap
  /\ ud' = [ud EXCEPT ![u] = Dead]
  /\ UNCHANGED <<program, owner, given, held>>

Next ==
  \/ \E c \in Cell, T \in Class : CppNew(c, T)
  \/ \E c \in Cell : CppDelete(c)
  \/ \E c \in Cell, T \in Class, u \in Ud : LuaNew(c, T, u)
  \/ \E c \in Cell, u \in Ud, k \in BOOLEAN, own \in Owner : Push(c, u, k, own)
  \/ \E u \in Ud, T \in Class : Acquire(u, T)
  \/ \E u \in Ud, own \in {"Cpp", "Lua"} : SetOwner(u, own)
  \/ \E u \in Ud : Drop(u)
  \/ \E S \in SUBSET Ud : Collect(S)
  \/ \E u \in Ud : Finalize(u)

Spec == Init /\ [][Next]_vars

----------------------------------------------------------------------------
TypeOK ==
  /\ program \in Programs
  /\ heap \in [Cell -> program.classes \cup {Free}]
  /\ owner \in [Cell -> {"Cpp", "Lua"}]
  /\ given \subseteq Cell
  /\ ud \in [Ud -> {Dead} \cup Lua_ud]
  /\ held \subseteq Live
  /\ \A a \in DOMAIN weak :
       /\ weak[a].table \in BOOLEAN /\ weak[a].uds \subseteq Live
       /\ weak[a].table \/ \E u \in Live : weak[a].uds = {u}

(* A live userdata is found at the address of its object and of each of    *)
(* its bases, and at no other address.                                     *)
FoundAgain ==
  \A u \in Live :
    {a \in DOMAIN weak : u \in weak[a].uds} = Addresses(ud[u].class, ud[u].ptr)

(* A collision table does not outlive the userdata in it: an empty one is  *)
(* left only until the __gc of a userdata that was in it has run.          *)
TablesReclaimed ==
  \A a \in DOMAIN weak : weak[a].uds = {} =>
    \E u \in Ud : ud[u].st = "dying" /\ a \in Cleaned(u)

(* Whatever is pushed, collected and built in the place of what is gone, the *)
(* weak table finds each live userdata and keeps nothing for the others.     *)
ProxyInv == TypeOK /\ FoundAgain /\ TablesReclaimed

(* Exactly the objects Lua owns have a userdata whose __gc deletes them,   *)
(* and only one: no object is deleted twice, or by both sides, or never.   *)
OneOwner ==
  /\ \A u \in Known : ud[u].gc => /\ owner[ud[u].ptr[1]] = "Lua"
                                  /\ StandsForWhole(u)
                                  /\ ud[u].class \notin NoDestructor
  /\ \A c \in Cell : heap[c] # Free /\ owner[c] = "Lua" =>
       \E u \in Known : {v \in Known : ud[v].gc /\ ud[v].ptr[1] = c} = {u}

(* An object is one Lua value: where a class has one base and no object is *)
(* outlived, no two live userdata stand for the same object as classes of  *)
(* one hierarchy.                                                          *)
OneUserdata ==
  ~program.outlives /\ SingleInheritance(program.classes) =>
    \A u, v \in Live : u # v /\ ud[v].class \in Complete(ud[u].class) =>
      ud[v].ptr # At(ud[u].class, ud[u].ptr, ud[v].class)

(* Lua may change an object only after C++ has pushed that object without  *)
(* const, in a program whose userdata do not outlive the objects.          *)
ConstIsKept ==
  ~program.outlives => \A u \in Live : ~ud[u].const => ud[u].ptr[1] \in given
=============================================================================

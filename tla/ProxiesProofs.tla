---------------------------- MODULE ProxiesProofs ----------------------------
(***************************************************************************)
(* The four invariants of Proxies for any classes, any heap and any number *)
(* of userdata.  WeakInv is what the weak table keeps by itself.  It needs  *)
(* the owners to be right: a userdata is reset to a derived class only if  *)
(* it is a part of the object pushed, so no object may die before its      *)
(* userdata do.  OwnInv says who will delete what; in a program that passes *)
(* ownership it needs the weak table in turn, to find the one owner again. *)
(***************************************************************************)
EXTENDS Proxies, TLAPS

Address == Cell \X Nat

(* Where the weak table has u.                                             *)
Found(u) == {a \in DOMAIN weak : u \in weak[a].uds}

(* Every userdata in a collision table is marked, and so cleans it.        *)
Marked == \A a \in DOMAIN weak : weak[a].table => \A u \in weak[a].uds : ud[u].collision

WeakInv == TypeOK /\ FoundAgain /\ Marked /\ TablesReclaimed

(* The userdata whose __gc deletes the object in c.                        *)
Deletes(u, c) == u \in Known /\ ud[u].gc /\ ud[u].ptr[1] = c

(* What it deletes is the whole object that Lua owns.                      *)
DeletesWhole ==
  \A u \in Known : ud[u].gc =>
    /\ owner[ud[u].ptr[1]] = "Lua" /\ StandsForWhole(u)
    /\ ud[u].class \notin NoDestructor
    /\ ~program.transfers => ud[u].class = heap[ud[u].ptr[1]]

DeletesOnce ==
  \A u, v \in Ud : \A c \in Cell : Deletes(u, c) /\ Deletes(v, c) => u = v

DeletesAll ==
  \A c \in Cell : heap[c] # Free /\ owner[c] = "Lua" => \E u \in Ud : Deletes(u, c)

OwnInv == DeletesWhole /\ DeletesOnce /\ DeletesAll

(* Where no object is outlived: a live userdata is a view of what is there, *)
(* none is left when the collector has found the one that deletes it, and  *)
(* const has been kept.                                                    *)
IsView(u) ==
  /\ heap[ud[u].ptr[1]] # Free
  /\ <<ud[u].class, ud[u].ptr[2]>> \in Views(heap[ud[u].ptr[1]])

LastOfAll ==
  \A u \in Known, v \in Live : ud[u].gc /\ ud[u].st = "dying" => ud[u].ptr[1] # ud[v].ptr[1]

Related(A, B) == A \in Complete(B) \/ B \in Complete(A)

Unrelated ==
  \A u, v \in Live : u # v /\ ud[u].ptr = ud[v].ptr => ~Related(ud[u].class, ud[v].class)

ViewInv ==
  ~program.outlives =>
    /\ \A u \in Live : IsView(u)
    /\ LastOfAll
    /\ SingleInheritance(program.classes) => Unrelated

IInv == WeakInv /\ OwnInv /\ ViewInv /\ ConstIsKept

-----------------------------------------------------------------------------
(* Classes and addresses.                                                   *)

(* AllBases is a set of classes, and holds the bases of its members.        *)
LEMMA AllBasesType == AllBases \in [Class -> SUBSET Class]
BY DEF AllBases

LEMMA AllBasesClosed ==
  ASSUME NEW T \in Class, NEW B \in AllBases[T], NEW C \in AllBases[B]
  PROVE  C \in AllBases[T]
<1>1. B \in Class /\ C \in Class
  BY AllBasesType
<1>2. ASSUME NEW S \in SUBSET Class, Bases[T] \subseteq S, \A D \in S : Bases[D] \subseteq S
      PROVE  C \in S
  <2>1. B \in S
    BY <1>1, <1>2 DEF AllBases
  <2>2. Bases[B] \subseteq S
    BY <1>2, <2>1
  <2> QED
    BY <1>1, <1>2, <2>2 DEF AllBases
<1> QED
  BY <1>1, <1>2 DEF AllBases

LEMMA CompleteType ==
  ASSUME NEW T \in Class
  PROVE  Complete(T) \subseteq Class /\ T \in Complete(T) /\ T \notin AllBases[T]
BY AllBasesType, ClassAssumption DEF Complete

LEMMA CompleteClosed ==
  ASSUME NEW T \in Class, NEW B \in Complete(T), NEW C \in Complete(B)
  PROVE  C \in Complete(T)
BY AllBasesClosed DEF Complete

(* A base is at its offset, and the class itself at no other.               *)
LEMMA AtBase ==
  ASSUME NEW T \in Class, NEW B \in AllBases[T], NEW a
  PROVE  At(T, a, B) = <<a[1], a[2] + Offset[T][B]>> /\ At(T, a, T) = a
BY CompleteType DEF At

LEMMA AtType ==
  ASSUME NEW T \in Class, NEW a \in Address, NEW B \in Complete(T)
  PROVE  At(T, a, B) \in Address /\ At(T, a, B)[1] = a[1]
<1>1. B \in Class /\ Offset[T][B] \in Nat
  BY CompleteType, ClassAssumption
<1> QED
  BY <1>1 DEF At, Address

LEMMA AddressesType ==
  ASSUME NEW T \in Class, NEW a \in Address
  PROVE  /\ Addresses(T, a) \subseteq Address /\ a \in Addresses(T, a)
         /\ BaseAddresses(T, a) \subseteq Address
         /\ Addresses(T, a) = {a} \cup BaseAddresses(T, a)
         /\ \A b \in Addresses(T, a) : b[1] = a[1]
<1>1. Addresses(T, a) = {a} \cup BaseAddresses(T, a)
  <2>1. At(T, a, T) = a
    BY DEF At
  <2> QED
    BY <2>1 DEF Addresses, BaseAddresses, Complete
<1> QED
  BY <1>1, AtType DEF Addresses

(* A class with bases is at the address of one of them.                     *)
LEMMA FirstBase ==
  ASSUME NEW T \in Class, NEW a \in Address, AllBases[T] # {}
  PROVE  BaseAddresses(T, a) = Addresses(T, a)
<1>1. PICK B \in AllBases[T] : Offset[T][B] = 0
  BY FirstBaseAssumption
<1>2. At(T, a, B) = a
  <2>1. At(T, a, B) = <<a[1], a[2] + Offset[T][B]>>
    BY AtBase
  <2>2. a = <<a[1], a[2]>> /\ a[2] \in Nat
    BY DEF Address
  <2> QED
    BY <1>1, <2>1, <2>2
<1>3. a \in BaseAddresses(T, a)
  BY <1>2 DEF BaseAddresses
<1>4. Addresses(T, a) = {a} \cup BaseAddresses(T, a)
  BY AddressesType
<1> QED
  BY <1>3, <1>4

(* The addresses of a base, where the object has it, are addresses of the   *)
(* object.                                                                  *)
LEMMA AddressesOfBase ==
  ASSUME NEW T \in Class, NEW a \in Address, NEW B \in AllBases[T]
  PROVE  Addresses(B, At(T, a, B)) \subseteq Addresses(T, a)
<1> DEFINE b == At(T, a, B)
<1>1. B \in Class /\ B # T /\ Offset[T][B] \in Nat
  BY AllBasesType, ClassAssumption
<1>2. b = <<a[1], a[2] + Offset[T][B]>>
  BY AtBase
<1>3. ASSUME NEW C \in AllBases[B]
      PROVE  At(B, b, C) = At(T, a, C) /\ C \in AllBases[T]
  <2>1. C \in AllBases[T] /\ C \in Class /\ Offset[B][C] \in Nat /\ Offset[T][C] \in Nat
    BY <1>1, AllBasesClosed, AllBasesType, ClassAssumption
  <2>2. Offset[T][C] = Offset[T][B] + Offset[B][C]
    BY LayoutAssumption
  <2>3. At(B, b, C) = <<b[1], b[2] + Offset[B][C]>> /\ At(T, a, C) = <<a[1], a[2] + Offset[T][C]>>
    BY <1>1, <2>1, AtBase
  <2>4. b[1] = a[1] /\ b[2] = a[2] + Offset[T][B] /\ a[2] \in Nat
    BY <1>2 DEF Address
  <2> QED
    BY <1>1, <2>1, <2>2, <2>3, <2>4
<1>4. At(B, b, B) = b
  BY DEF At
<1> QED
  BY <1>3, <1>4 DEF Addresses, Complete

(* Where a class and its bases are a chain they share one address.          *)
LEMMA ChainAddresses ==
  ASSUME NEW T \in Class, NEW a \in Address, Chain(T)
  PROVE  /\ \A B \in Complete(T) : At(T, a, B) = a
         /\ Addresses(T, a) = {a}
<1>1. ASSUME NEW B \in Complete(T)
      PROVE  At(T, a, B) = a
  BY AtBase DEF Complete, Chain, At, Address
<1>2. T \in Complete(T)
  BY CompleteType
<1> QED
  BY <1>1, <1>2 DEF Addresses

(* The views of an object: itself, its bases, its members.                  *)
LEMMA OwnViewsType ==
  ASSUME NEW H \in Class
  PROVE  /\ OwnViews(H) \subseteq Class \X Nat /\ Views(H) \subseteq Class \X Nat
         /\ <<H, 0>> \in OwnViews(H) /\ OwnViews(H) \subseteq Views(H)
         /\ \A v \in OwnViews(H) : v[1] \in Complete(H)
<1>1. ASSUME NEW B \in Complete(H)
      PROVE  B \in Class /\ At(H, <<H, 0>>, B)[2] \in Nat
  <2>1. B \in Class /\ Offset[H][B] \in Nat
    BY CompleteType, ClassAssumption
  <2> QED
    BY <2>1 DEF At
<1>2. Member[H] \subseteq Class \X Nat
  BY ClassAssumption
<1>3. H \in Complete(H) /\ At(H, <<H, 0>>, H)[2] = 0
  BY CompleteType DEF At
<1> QED
  BY <1>1, <1>2, <1>3 DEF OwnViews, Views

(* Of two bases one is the other's, where there is one chain of them.       *)
LEMMA OwnViewsChain ==
  ASSUME NEW H \in Class, Chain(H), NEW v \in OwnViews(H), NEW w \in OwnViews(H)
  PROVE  Related(v[1], w[1]) /\ v[2] = 0
<1>1. v[1] \in Complete(H) /\ w[1] \in Complete(H) /\ v[1] \in Class /\ w[1] \in Class
  BY OwnViewsType
<1>2. v[2] = 0
  <2>1. PICK B \in Complete(H) : v = <<B, At(H, <<H, 0>>, B)[2]>>
    BY DEF OwnViews
  <2>2. CASE B = H
    BY <2>1, <2>2 DEF At
  <2>3. CASE B \in AllBases[H]
    BY <2>1, <2>3, AtBase DEF Chain
  <2> QED
    BY <2>2, <2>3 DEF Complete
<1> QED
  BY <1>1, <1>2 DEF Related, Chain, Complete

(* What lies at the address of an object and is related to it is a base of  *)
(* that object or the object itself, never a member.                        *)
LEMMA RelatedIsWhole ==
  ASSUME NEW classes \in SUBSET Class, SingleInheritance(classes), NEW H \in classes,
         NEW U, NEW T, NEW x, <<U, x>> \in OwnViews(H), <<T, x>> \in Views(H),
         Related(U, T)
  PROVE  <<T, x>> \in OwnViews(H)
<1>1. H \in Class /\ U \in Complete(H) /\ T \in Class /\ U \in Class
  BY OwnViewsType
<1>2. Chain(H) /\ Chain(T)
  <2>1. <<H, 0>> \in Views(H)
    BY <1>1, OwnViewsType
  <2>2. Chain(<<H, 0>>[1]) /\ Chain(<<T, x>>[1])
    BY <2>1 DEF SingleInheritance
  <2> QED
    BY <2>2
<1>3. x = 0
  <2>1. <<U, x>>[2] = 0
    BY <1>1, <1>2, OwnViewsChain
  <2> QED
    BY <2>1
<1>4. ASSUME NEW B \in Complete(H)
      PROVE  At(H, <<H, 0>>, B)[2] = 0 /\ <<B, 0>> \in OwnViews(H)
  <2>1. <<B, At(H, <<H, 0>>, B)[2]>> \in OwnViews(H)
    BY DEF OwnViews
  <2>2. <<B, At(H, <<H, 0>>, B)[2]>>[2] = 0
    BY <1>1, <1>2, <2>1, OwnViewsChain
  <2> QED
    BY <2>1, <2>2
<1>5. CASE T \in Complete(U)
  BY <1>1, <1>3, <1>4, <1>5, CompleteClosed
<1>6. CASE U \in Complete(T) /\ <<T, x>> \in Member[H]
  <2>1. At(T, <<H, 0>>, U) # At(H, <<H, 0>>, U)
    <3>1. U \in Complete(H) \cap Complete(<<T, x>>[1])
      BY <1>1, <1>6
    <3>2. At(<<T, x>>[1], <<H, <<T, x>>[2]>>, U) # At(H, <<H, 0>>, U)
      BY <1>1, <1>6, <3>1, LayoutAssumption
    <3> QED
      BY <1>3, <3>2
  <2>2. At(T, <<H, 0>>, U) = <<H, 0>>
    BY <1>1, <1>2, <1>6, AtBase DEF Complete, Chain, At
  <2>3. At(H, <<H, 0>>, U) = <<H, 0>>
    BY <1>1, <1>2, AtBase DEF Complete, Chain, At
  <2> QED
    BY <2>1, <2>2, <2>3
<1> QED
  BY <1>5, <1>6 DEF Related, Views

-----------------------------------------------------------------------------
(* The userdata and the weak table.                                         *)

(* TypeOK without the userdata and the weak table.                          *)
RestType ==
  /\ program \in Programs
  /\ heap \in [Cell -> program.classes \cup {Free}]
  /\ owner \in [Cell -> {"Cpp", "Lua"}]
  /\ given \subseteq Cell
  /\ held \subseteq Live

(* The same userdata, marked or not.                                        *)
Like(m, n) ==
  m.st = n.st /\ m.ptr = n.ptr /\ m.class = n.class /\ m.const = n.const /\ m.gc = n.gc

LEMMA AddressIs ==
  ASSUME NEW a \in Address
  PROVE  a = <<a[1], a[2]>> /\ a[1] \in Cell /\ a[2] \in Nat
BY DEF Address

LEMMA ProgramFacts ==
  ASSUME program \in Programs
  PROVE  /\ program.classes \subseteq Class
         /\ program.transfers => ~program.outlives /\ SingleInheritance(program.classes)
BY ProgramAssumption DEF ProgramType

LEMMA KnownType ==
  ASSUME ud \in [Ud -> {Dead} \cup Lua_ud], NEW u \in Known
  PROVE  /\ u \in Ud /\ ud[u] \in Lua_ud
         /\ ud[u].st \in {"live", "dying"} /\ ud[u].ptr \in Address /\ ud[u].ptr[1] \in Cell
         /\ ud[u].class \in Class /\ ud[u].const \in BOOLEAN /\ ud[u].gc \in BOOLEAN
BY DEF Known, Dead, None, Lua_ud, Address

LEMMA LiveType ==
  ASSUME ud \in [Ud -> {Dead} \cup Lua_ud], NEW u \in Live
  PROVE  /\ u \in Ud /\ ud[u] \in Lua_ud /\ u \in Known
         /\ ud[u].ptr \in Address /\ ud[u].ptr[1] \in Cell
         /\ ud[u].class \in Class /\ ud[u].const \in BOOLEAN /\ ud[u].gc \in BOOLEAN
<1>1. u \in Known
  BY DEF Live, Known, None
<1> QED
  BY <1>1, KnownType

(* A dead block is neither live nor known.                                  *)
LEMMA DeadOrKnown ==
  ASSUME ud \in [Ud -> {Dead} \cup Lua_ud], NEW u \in Ud
  PROVE  /\ ud[u] = Dead \/ u \in Known
         /\ ud[u] = Dead => u \notin Known /\ u \notin Live
         /\ u \in Known => u \in Live \/ ud[u].st = "dying"
         /\ ud[u] \in Lua_ud => u \in Known
BY DEF Known, Live, Dead, None, Lua_ud

LEMMA UdsFacts ==
  ASSUME TypeOK, NEW a
  PROVE  /\ Uds(a) \subseteq Live /\ IsTable(a) \in BOOLEAN
         /\ ~IsTable(a) => Uds(a) = {} \/ \E u \in Live : Uds(a) = {u}
         /\ \A u : u \in Uds(a) <=> a \in Found(u)
BY DEF TypeOK, Uds, IsTable, Found

(* A userdata is at the addresses of what it stands for.                    *)
LEMMA FoundAt ==
  ASSUME TypeOK, FoundAgain, NEW u
  PROVE  /\ \A a : u \in Uds(a) => /\ u \in Live /\ a \in Addresses(ud[u].class, ud[u].ptr)
                                   /\ a[1] = ud[u].ptr[1]
         /\ u \in Live => \A a \in Addresses(ud[u].class, ud[u].ptr) : u \in Uds(a)
<1>1. u \in Live => Found(u) = Addresses(ud[u].class, ud[u].ptr)
  BY DEF FoundAgain, Found
<1>2. u \in Live => \A a \in Addresses(ud[u].class, ud[u].ptr) : a[1] = ud[u].ptr[1]
  BY LiveType, AddressesType DEF TypeOK
<1> QED
  BY <1>1, <1>2, UdsFacts

(* SetCollision marks userdata and does nothing else to them.               *)
LEMMA SetCollisionMarks ==
  ASSUME NEW uds \in [Ud -> {Dead} \cup Lua_ud], NEW S, \A u \in S : uds[u] \in Lua_ud,
         NEW u \in Ud
  PROVE  /\ SetCollision(uds, S) \in [Ud -> {Dead} \cup Lua_ud]
         /\ Like(SetCollision(uds, S)[u], uds[u])
         /\ u \in S => SetCollision(uds, S)[u].collision
         /\ u \notin S => SetCollision(uds, S)[u] = uds[u]
<1> DEFINE new == SetCollision(uds, S)
<1>1. ASSUME NEW v \in Ud, v \in S
      PROVE  new[v] \in Lua_ud /\ Like(new[v], uds[v]) /\ new[v].collision
  <2>1. new[v] = [uds[v] EXCEPT !.collision = TRUE] /\ uds[v] \in Lua_ud
    BY <1>1 DEF SetCollision
  <2> QED
    BY <2>1 DEF Lua_ud, Like
<1>2. ASSUME NEW v \in Ud, v \notin S
      PROVE  new[v] = uds[v]
  BY <1>2 DEF SetCollision
<1>3. \A v \in Ud : new[v] \in {Dead} \cup Lua_ud
  BY <1>1, <1>2
<1>4. new \in [Ud -> {Dead} \cup Lua_ud]
  BY <1>3 DEF SetCollision
<1> QED
  BY <1>1, <1>2, <1>4 DEF Like

(* add_ptr_if_required for every address of S.                              *)
LEMMA RegisteredWeak ==
  ASSUME TypeOK, NEW S, NEW u, weak' = Registered(S, u)
  PROVE  /\ DOMAIN weak' = DOMAIN weak \cup S
         /\ \A a \in S : /\ weak'[a].uds = Uds(a) \cup {u}
                         /\ weak'[a].table <=> IsTable(a) \/ Uds(a) \ {u} # {}
                         /\ weak'[a].table \in BOOLEAN
         /\ \A a \in DOMAIN weak \ S : weak'[a] = weak[a]
         /\ Found(u)' = Found(u) \cup S
         /\ \A v : v # u => Found(v)' = Found(v)
<1>1. DOMAIN weak' = DOMAIN weak \cup S
  BY DEF Registered
<1>2. ASSUME NEW a \in S
      PROVE  /\ weak'[a].uds = Uds(a) \cup {u}
             /\ weak'[a].table <=> IsTable(a) \/ Uds(a) \ {u} # {}
             /\ weak'[a].table \in BOOLEAN
  <2> DEFINE shared == IsTable(a) \/ Uds(a) \ {u} # {}
  <2>1. weak'[a] = [table |-> shared, uds |-> Uds(a) \cup {u}]
    BY DEF Registered
  <2>2. shared \in BOOLEAN
    OBVIOUS
  <2>3. shared <=> IsTable(a) \/ Uds(a) \ {u} # {}
    OBVIOUS
  <2> HIDE DEF shared
  <2>4. weak'[a].uds = Uds(a) \cup {u} /\ weak'[a].table = shared
    BY <2>1
  <2> QED
    BY <2>2, <2>3, <2>4
<1>3. ASSUME NEW a \in DOMAIN weak \ S
      PROVE  weak'[a] = weak[a]
  BY DEF Registered
<1>4. \A v : Found(v)' = {a \in DOMAIN weak \cup S : IF a \in S THEN v \in Uds(a) \cup {u}
                                                     ELSE v \in weak[a].uds}
  BY <1>1, <1>2, <1>3 DEF Found
<1>5. Found(u)' = Found(u) \cup S
  BY <1>4 DEF Found, Uds
<1>6. \A v : v # u => Found(v)' = Found(v)
  BY <1>4 DEF Found, Uds
<1> QED
  BY <1>1, <1>2, <1>3, <1>5, <1>6

(* A registration leaves the weak table right if it adds to where u was     *)
(* found what u, as uds has it, is then at.                                  *)
LEMMA RegisteredKeeps ==
  ASSUME WeakInv, RestType',
         NEW S \in SUBSET Address, NEW u \in Ud, ud[u] = Dead \/ u \in Live,
         NEW uds \in [Ud -> {Dead} \cup Lua_ud], \A v \in Ud \ {u} : uds[v] = ud[v],
         uds[u] \in Lua_ud, uds[u].st = "live",
         u \in Live /\ ud[u].collision => uds[u].collision,
         Found(u) \cup S = Addresses(uds[u].class, uds[u].ptr),
         weak' = Registered(S, u), ud' = SetCollision(uds, Colliding(S, u))
  PROVE  WeakInv' /\ \A v \in Ud : Like(ud'[v], uds[v])
<1> DEFINE C == Colliding(S, u)
<1>0. TypeOK /\ FoundAgain /\ Marked /\ TablesReclaimed /\ ud \in [Ud -> {Dead} \cup Lua_ud]
  BY DEF WeakInv, TypeOK
<1>1. /\ DOMAIN weak' = DOMAIN weak \cup S
      /\ \A a \in S : /\ weak'[a].uds = Uds(a) \cup {u}
                      /\ weak'[a].table <=> IsTable(a) \/ Uds(a) \ {u} # {}
                      /\ weak'[a].table \in BOOLEAN
      /\ \A a \in DOMAIN weak \ S : weak'[a] = weak[a]
      /\ Found(u)' = Found(u) \cup S
      /\ \A v : v # u => Found(v)' = Found(v)
  BY <1>0, RegisteredWeak
<1>2. \A v \in C : v \in Ud /\ uds[v] \in Lua_ud
  <2>1. C \subseteq Live \cup {u}
    BY <1>0, UdsFacts DEF Colliding
  <2> QED
    BY <2>1, <1>0, LiveType
<1>3. \A v \in Ud : /\ Like(ud'[v], uds[v])
                    /\ v \in C => ud'[v].collision
                    /\ v \notin C => ud'[v] = uds[v]
  BY <1>2, SetCollisionMarks
<1>4. ud' \in [Ud -> {Dead} \cup Lua_ud]
  BY <1>2, SetCollisionMarks
<1>5. Live' = Live \cup {u}
  BY <1>3 DEF Live, Like
<1>6. \A v \in Live : v \in Ud /\ (ud[v].collision => ud'[v].collision)
  <2>1. SUFFICES ASSUME NEW v \in Live, ud[v].collision PROVE ud'[v].collision
    BY DEF Live
  <2>2. v \in Ud
    BY DEF Live
  <2> QED
    BY <2>1, <2>2, <1>3
<1>7. TypeOK'
  <2>1. ASSUME NEW a \in DOMAIN weak'
        PROVE  /\ weak'[a].table \in BOOLEAN /\ weak'[a].uds \subseteq Live'
               /\ weak'[a].table \/ \E v \in Live' : weak'[a].uds = {v}
    <3>1. CASE a \in S
      <4>1. Uds(a) \subseteq Live /\ (~weak'[a].table => Uds(a) \ {u} = {})
        BY <1>0, <1>1, <3>1, UdsFacts
      <4>2. weak'[a].uds = Uds(a) \cup {u} /\ weak'[a].table \in BOOLEAN
        BY <1>1, <3>1
      <4>3. ~weak'[a].table => weak'[a].uds = {u}
        BY <4>1, <4>2
      <4> QED
        BY <4>1, <4>2, <4>3, <1>5
    <3>2. CASE a \notin S
      <4>1. weak'[a] = weak[a] /\ a \in DOMAIN weak
        BY <1>1, <2>1, <3>2
      <4> QED
        BY <1>0, <1>5, <4>1 DEF TypeOK
    <3> QED
      BY <3>1, <3>2
  <2> QED
    BY <2>1, <1>4 DEF TypeOK, RestType
<1>8. FoundAgain'
  <2>1. ASSUME NEW v \in Live'
        PROVE  Found(v)' = Addresses(ud'[v].class, ud'[v].ptr)
    <3>1. CASE v = u
      BY <1>1, <1>3, <3>1 DEF Like
    <3>2. CASE v # u
      <4>1. v \in Live /\ v \in Ud /\ ud'[v].class = ud[v].class /\ ud'[v].ptr = ud[v].ptr
        BY <1>3, <1>5, <3>2 DEF Like, Live
      <4> QED
        BY <1>0, <1>1, <3>2, <4>1 DEF FoundAgain, Found
    <3> QED
      BY <3>1, <3>2
  <2> QED
    BY <2>1 DEF FoundAgain, Found, Addresses, Complete, At
<1>9. Marked'
  <2>1. SUFFICES ASSUME NEW a \in DOMAIN weak', weak'[a].table, NEW v \in weak'[a].uds
                 PROVE  ud'[v].collision
    BY DEF Marked
  <2>2. CASE a \notin S
    <3>1. a \in DOMAIN weak /\ weak[a].table /\ v \in weak[a].uds
      BY <1>1, <2>1, <2>2
    <3>2. ud[v].collision /\ v \in Live
      BY <1>0, <3>1 DEF Marked, TypeOK
    <3> QED
      BY <1>6, <3>2
  <2>3. CASE a \in S /\ u \in Uds(a)
    <3>1. IsTable(a)
      <4>1. ~IsTable(a) => Uds(a) \ {u} = {}
        BY <1>0, <2>3, UdsFacts
      <4> QED
        BY <1>1, <2>1, <2>3, <4>1
    <3>2. a \in DOMAIN weak /\ weak[a].table /\ v \in weak[a].uds
      BY <1>1, <2>1, <2>3, <3>1 DEF IsTable, Uds
    <3>3. ud[v].collision /\ v \in Live
      BY <1>0, <3>2 DEF Marked, TypeOK
    <3> QED
      BY <1>6, <3>3
  <2>4. CASE a \in S /\ u \notin Uds(a)
    <3>1. IsTable(a) \/ Uds(a) # {}
      BY <1>1, <2>1, <2>4
    <3>2. a \in DOMAIN weak
      BY <3>1 DEF IsTable, Uds
    <3>3. u \in C /\ (~IsTable(a) => Uds(a) \subseteq C)
      BY <2>4, <3>2 DEF Colliding
    <3>4. v = u \/ v \in Uds(a)
      BY <1>1, <2>1, <2>4
    <3>5. CASE v \in C
      BY <1>2, <1>3, <3>5
    <3>6. CASE IsTable(a) /\ v \in Uds(a)
      <4>1. ud[v].collision /\ v \in Live
        BY <1>0, <3>2, <3>6 DEF Marked, TypeOK, IsTable, Uds
      <4> QED
        BY <1>6, <4>1
    <3> QED
      BY <3>3, <3>4, <3>5, <3>6
  <2> QED
    BY <2>2, <2>3, <2>4
<1>10. TablesReclaimed'
  <2>1. SUFFICES ASSUME NEW a \in DOMAIN weak', weak'[a].uds = {}
                 PROVE  \E w \in Ud : ud'[w].st = "dying" /\ a \in Cleaned(w)'
    BY DEF TablesReclaimed
  <2>2. a \in DOMAIN weak /\ weak'[a] = weak[a] /\ weak[a].uds = {}
    BY <1>1, <2>1
  <2>3. PICK w \in Ud : ud[w].st = "dying" /\ a \in Cleaned(w)
    BY <1>0, <2>2 DEF TablesReclaimed
  <2>4. w # u /\ w \notin Live
    BY <2>3 DEF Live, Dead, None
  <2>5. w \notin C
    BY <1>0, <2>4, UdsFacts DEF Colliding
  <2>6. ud'[w] = ud[w]
    BY <1>3, <2>4, <2>5
  <2>7. ud[w].collision /\ a \in Addresses(ud[w].class, ud[w].ptr) /\ IsTable(a)
    BY <2>3 DEF Cleaned
  <2>8. (a \in DOMAIN weak /\ weak[a].table)'
    BY <2>1, <2>2, <2>7 DEF IsTable
  <2>9. IsTable(a)' /\ (Uds(a) = {})'
    BY <2>1, <2>8 DEF IsTable, Uds
  <2>10. (ud[w].collision /\ a \in Addresses(ud[w].class, ud[w].ptr))'
    BY <2>6, <2>7 DEF Addresses, Complete, At
  <2>11. a \in Cleaned(w)'
    BY <2>9, <2>10 DEF Cleaned
  <2> QED
    BY <2>3, <2>6, <2>11
<1> QED
  BY <1>3, <1>7, <1>8, <1>9, <1>10 DEF WeakInv

(* It stays right where userdata only change const or owner.                *)
LEMMA WeakKept ==
  ASSUME WeakInv, RestType', weak' = weak, ud' \in [Ud -> {Dead} \cup Lua_ud],
         \A v \in Ud : /\ ud'[v].st = ud[v].st /\ ud'[v].ptr = ud[v].ptr
                       /\ ud'[v].class = ud[v].class /\ ud'[v].collision = ud[v].collision
  PROVE  WeakInv'
<1>0. TypeOK /\ FoundAgain /\ Marked /\ TablesReclaimed
  BY DEF WeakInv
<1>1. Live' = Live
  BY DEF Live
<1>2. TypeOK'
  BY <1>0, <1>1 DEF TypeOK, RestType
<1>3. FoundAgain'
  <2>1. ASSUME NEW v \in Live'
        PROVE  Found(v)' = Addresses(ud'[v].class, ud'[v].ptr)
    <3>1. v \in Live /\ v \in Ud
      BY <1>1 DEF Live
    <3>2. Found(v) = Addresses(ud[v].class, ud[v].ptr)
      BY <1>0, <3>1 DEF FoundAgain, Found
    <3>3. Found(v)' = Found(v)
      BY DEF Found
    <3> QED
      BY <3>1, <3>2, <3>3
  <2> QED
    BY <2>1 DEF FoundAgain, Found, Addresses, Complete, At
<1>4. Marked'
  <2>1. \A a \in DOMAIN weak : \A v \in weak[a].uds : v \in Ud
    BY <1>0 DEF TypeOK, Live
  <2> QED
    BY <1>0, <2>1 DEF Marked
<1>5. TablesReclaimed'
  <2>1. \A w \in Ud : Cleaned(w)' = Cleaned(w)
    <3>1. SUFFICES ASSUME NEW w \in Ud PROVE Cleaned(w)' = Cleaned(w)
      OBVIOUS
    <3>2. Addresses(ud[w].class, ud[w].ptr)' = Addresses(ud[w].class, ud[w].ptr)
      BY DEF Addresses, Complete, At
    <3>3. \A a : (IsTable(a) /\ Uds(a) = {})' <=> IsTable(a) /\ Uds(a) = {}
      BY DEF IsTable, Uds
    <3>4. (ud[w].collision)' = ud[w].collision
      OBVIOUS
    <3> QED
      BY <3>2, <3>3, <3>4 DEF Cleaned
  <2> QED
    BY <1>0, <2>1 DEF TablesReclaimed
<1> QED
  BY <1>2, <1>3, <1>4, <1>5 DEF WeakInv

-----------------------------------------------------------------------------
(* A push.                                                                  *)

(* An address is in an object at the same offset wherever the object is.    *)
LEMMA AddressesMoved ==
  ASSUME NEW T, NEW c, NEW d, NEW x, NEW n, <<c, n>> \in Addresses(T, <<c, x>>)
  PROVE  <<d, n>> \in Addresses(T, <<d, x>>)
<1>1. PICK B \in Complete(T) : <<c, n>> = At(T, <<c, x>>, B)
  BY DEF Addresses
<1>2. <<d, n>> = At(T, <<d, x>>, B)
  BY <1>1 DEF At
<1> QED
  BY <1>2 DEF Addresses

(* Of two views that share an address one is where the other has its base.  *)
LEMMA Nested ==
  ASSUME NEW H \in Class, NEW U, NEW y, NEW T, NEW x, U \in AllBases[T],
         <<U, y>> \in Views(H), <<T, x>> \in Views(H),
         Addresses(U, <<H, y>>) \cap Addresses(T, <<H, x>>) # {}
  PROVE  y = x + Offset[T][U]
<1> DEFINE v == <<U, y>>
           w == <<T, x>>
<1>1. v[1] = U /\ v[2] = y /\ w[1] = T /\ w[2] = x
  OBVIOUS
<1>2. v \in Views(H) /\ w \in Views(H)
  OBVIOUS
<1> HIDE DEF v, w
<1>3. v[1] \in AllBases[w[1]] /\ Addresses(v[1], <<H, v[2]>>) \cap Addresses(w[1], <<H, w[2]>>) # {}
  BY <1>1
<1>4. v[2] = w[2] + Offset[w[1]][v[1]]
  BY <1>2, <1>3, LayoutAssumption
<1> QED
  BY <1>1, <1>4

(* What is pushed has a class and an address.                               *)
LEMMA ViewType ==
  ASSUME TypeOK, NEW c \in Cell, heap[c] # Free, NEW T, NEW x, <<T, x>> \in Views(heap[c])
  PROVE  /\ heap[c] \in program.classes /\ heap[c] \in Class /\ T \in Class /\ x \in Nat
         /\ <<c, x>> \in Address /\ T \notin AllBases[T] /\ heap[c] \notin AllBases[T]
<1>1. heap[c] \in program.classes /\ heap[c] \in Class
  BY ProgramFacts DEF TypeOK
<1>2. T \in Class /\ x \in Nat
  BY <1>1, OwnViewsType
<1>3. heap[c] \notin AllBases[<<T, x>>[1]]
  BY <1>1, LayoutAssumption
<1> QED
  BY <1>1, <1>2, <1>3, CompleteType DEF Address

(* A userdata that is reset to T is at addresses that T has as well.        *)
LEMMA ResetFits ==
  ASSUME TypeOK, FoundAgain, ViewInv, NEW c \in Cell, heap[c] # Free,
         NEW T, NEW x, <<T, x>> \in Views(heap[c]),
         NEW b \in Addresses(T, <<c, x>>), NEW u \in Uds(b), IsDerivedPtr(u, T)
  PROVE  /\ u \in Live /\ ud[u].ptr[1] = c
         /\ Addresses(ud[u].class, ud[u].ptr) \subseteq BaseAddresses(T, <<c, x>>)
         /\ BaseAddresses(T, <<c, x>>) = Addresses(T, <<c, x>>)
<1> DEFINE H == heap[c]
           U == ud[u].class
           y == ud[u].ptr[2]
           a == <<c, x>>
<1>1. H \in program.classes /\ H \in Class /\ T \in Class /\ x \in Nat /\ a \in Address
  BY ViewType
<1>2. u \in Live /\ b \in Addresses(U, ud[u].ptr) /\ b[1] = ud[u].ptr[1]
  BY FoundAt
<1>3. U \in AllBases[T] /\ U \in Class /\ ud[u].ptr \in Address
  BY <1>2, LiveType DEF TypeOK, IsDerivedPtr
<1>4. b[1] = c /\ b \in Address
  BY <1>1, AddressesType
<1>5. ud[u].ptr = <<c, y>> /\ y \in Nat /\ b = <<c, b[2]>>
  <2>1. ud[u].ptr[1] = c
    BY <1>2, <1>4
  <2>2. ud[u].ptr = <<ud[u].ptr[1], y>> /\ y \in Nat
    BY <1>3, AddressIs
  <2>3. b = <<b[1], b[2]>>
    BY <1>4, AddressIs
  <2> QED
    BY <1>4, <2>1, <2>2, <2>3
<1>6. BaseAddresses(T, a) = Addresses(T, a)
  BY <1>1, <1>3, FirstBase
<1>7. CASE ~program.outlives
  <2>1. <<U, y>> \in Views(H)
    BY <1>2, <1>5, <1>7 DEF ViewInv, IsView
  <2>2. <<H, b[2]>> \in Addresses(U, <<H, y>>) /\ <<H, b[2]>> \in Addresses(T, <<H, x>>)
    BY <1>2, <1>5, AddressesMoved
  <2>3. y = x + Offset[T][U]
    BY <1>1, <1>3, <2>1, <2>2, Nested
  <2>4. At(T, a, U) = <<a[1], a[2] + Offset[T][U]>>
    BY <1>1, <1>3, AtBase
  <2>5. ud[u].ptr = At(T, a, U)
    BY <1>5, <2>3, <2>4
  <2> QED
    BY <1>1, <1>2, <1>3, <1>5, <1>6, <2>5, AddressesOfBase
<1>8. CASE program.outlives
  <2>1. \A C \in AllBases[U] : Offset[U][C] = 0
    <3>1. \A B \in AllBases[<<T, x>>[1]] : \A C \in AllBases[B] : Offset[B][C] = 0
      BY <1>1, <1>8, ProgramAssumption DEF TypeOK
    <3> QED
      BY <1>3, <3>1
  <2>2. \A C \in Complete(U) : At(U, ud[u].ptr, C) = ud[u].ptr
    BY <1>3, <1>5, <2>1, AtBase DEF Complete, At
  <2>3. Addresses(U, ud[u].ptr) \subseteq {ud[u].ptr}
    BY <2>2 DEF Addresses
  <2> QED
    BY <1>2, <1>5, <1>6, <2>3
<1> QED
  BY <1>7, <1>8

(* What a push makes of its userdata: it is as it was, or a T now, or new.  *)
Reused(u, T, a) ==
  /\ u \in Live /\ u \in Matches(T, a) /\ SameOrDerived(u, T)
  /\ ud'[u].ptr = ud[u].ptr /\ ud'[u].class = ud[u].class

Reset(u, T, a) ==
  /\ u \in Live /\ IsDerivedPtr(u, T) /\ ud[u].ptr[1] = a[1]
  /\ u \in Matches(T, a) \/ (Matches(T, a) = {} /\ RootMatches(T, a) # {})
  /\ ud'[u].ptr = a /\ ud'[u].class = T

Created(u, T, a) ==
  /\ ud[u] = Dead
  /\ ud'[u].ptr = a /\ ud'[u].class = T

Flags(u, isConst, own) ==
  /\ ~ud'[u].const => ~isConst \/ (u \in Live /\ ~ud[u].const)
  /\ own = "No_change" => (ud'[u].gc <=> u \in Live /\ ud[u].gc)
  /\ own # "No_change" => (ud'[u].gc <=> own = "Lua")

Outcome(u, T, a, isConst, own) ==
  /\ \A v \in Ud \ {u} : Like(ud'[v], ud[v])
  /\ ud'[u].st = "live" /\ held' = held \cup {u}
  /\ Reused(u, T, a) \/ Reset(u, T, a) \/ (Created(u, T, a) /\ Matches(T, a) = {})
  /\ Flags(u, isConst, own)

(* TypeOK of what the weak table and the userdata have no part in.          *)
HeapType ==
  /\ program \in Programs /\ heap \in [Cell -> program.classes \cup {Free}]
  /\ owner \in [Cell -> {"Cpp", "Lua"}] /\ given \subseteq Cell

LEMMA OwnFlagType ==
  ASSUME NEW gc \in BOOLEAN, NEW own \in Owner
  PROVE  /\ OwnFlag(own, gc) \in BOOLEAN
         /\ own = "No_change" => (OwnFlag(own, gc) <=> gc)
         /\ own # "No_change" => (OwnFlag(own, gc) <=> own = "Lua")
BY DEF OwnFlag, Owner

LEMMA ReuseOutcome ==
  ASSUME WeakInv, HeapType', NEW T, NEW a, NEW u \in Live,
         NEW isConst \in BOOLEAN, NEW own \in Owner,
         u \in Matches(T, a), SameOrDerived(u, T), Reuse(u, isConst, own),
         held' = held \cup {u}
  PROVE  WeakInv' /\ Outcome(u, T, a, isConst, own)
<1> DEFINE const == ud[u].const /\ isConst
           gc == OwnFlag(own, ud[u].gc)
<1>0. TypeOK /\ ud \in [Ud -> {Dead} \cup Lua_ud]
  BY DEF WeakInv, TypeOK
<1>1. u \in Ud /\ ud[u] \in Lua_ud /\ ud[u].const \in BOOLEAN /\ ud[u].gc \in BOOLEAN
  BY <1>0, LiveType
<1>2. const \in BOOLEAN /\ (~const => ~isConst \/ ~ud[u].const)
  BY <1>1
<1>3. gc \in BOOLEAN /\ (own = "No_change" => (gc <=> ud[u].gc))
        /\ (own # "No_change" => (gc <=> own = "Lua"))
  BY <1>1, OwnFlagType
<1>4. ud' = [ud EXCEPT ![u].const = const, ![u].gc = gc] /\ weak' = weak
  BY DEF Reuse
<1> HIDE DEF const, gc
<1>5. /\ ud' \in [Ud -> {Dead} \cup Lua_ud]
      /\ \A v \in Ud : v # u => ud'[v] = ud[v]
      /\ ud'[u].st = ud[u].st /\ ud'[u].ptr = ud[u].ptr /\ ud'[u].class = ud[u].class
      /\ ud'[u].collision = ud[u].collision /\ ud'[u].const = const /\ ud'[u].gc = gc
  <2>1. ud'[u] = [ud[u] EXCEPT !.const = const, !.gc = gc]
    BY <1>0, <1>1, <1>4
  <2>2. ud'[u] \in Lua_ud
    BY <1>1, <1>2, <1>3, <2>1 DEF Lua_ud
  <2> QED
    BY <1>0, <1>1, <1>4, <2>1, <2>2 DEF Lua_ud
<1>6. RestType'
  <2>1. Live' = Live /\ u \in Live
    BY <1>5 DEF Live
  <2> QED
    BY <1>0, <2>1 DEF TypeOK, RestType, HeapType
<1>7. WeakInv'
  BY <1>4, <1>5, <1>6, WeakKept
<1>8. Flags(u, isConst, own)
  <2>1. ~ud'[u].const => ~isConst \/ (u \in Live /\ ~ud[u].const)
    BY <1>1, <1>2, <1>5
  <2>2. own = "No_change" => (ud'[u].gc <=> u \in Live /\ ud[u].gc)
    BY <1>1, <1>3, <1>5
  <2>3. own # "No_change" => (ud'[u].gc <=> own = "Lua")
    BY <1>1, <1>3, <1>5
  <2> QED
    BY <2>1, <2>2, <2>3 DEF Flags
<1>9. ud'[u].st = "live"
  BY <1>5 DEF Live
<1> QED
  BY <1>5, <1>7, <1>8, <1>9 DEF Outcome, Reused, Like

LEMMA ResetOutcome ==
  ASSUME WeakInv, ViewInv, HeapType', NEW c \in Cell, heap[c] # Free,
         NEW T, NEW x, <<T, x>> \in Views(heap[c]),
         NEW b \in Addresses(T, <<c, x>>), NEW u \in Uds(b), IsDerivedPtr(u, T),
         \/ u \in Matches(T, <<c, x>>)
         \/ (Matches(T, <<c, x>>) = {} /\ RootMatches(T, <<c, x>>) # {}),
         NEW isConst \in BOOLEAN, NEW own \in Owner,
         ResetMetatable(u, T, <<c, x>>, isConst, own), held' = held \cup {u}
  PROVE  WeakInv' /\ Outcome(u, T, <<c, x>>, isConst, own)
<1> DEFINE a == <<c, x>>
           S == BaseAddresses(T, a)
           const == ud[u].const /\ isConst
           gc == OwnFlag(own, ud[u].gc)
           new == [ud[u] EXCEPT !.ptr = a, !.class = T, !.const = const, !.gc = gc]
           uds == [ud EXCEPT ![u] = new]
<1>0. TypeOK /\ FoundAgain /\ ud \in [Ud -> {Dead} \cup Lua_ud]
  BY DEF WeakInv, TypeOK
<1>1. /\ u \in Live /\ ud[u].ptr[1] = c
      /\ Addresses(ud[u].class, ud[u].ptr) \subseteq S /\ S = Addresses(T, a)
  BY <1>0, ResetFits
<1>2. /\ u \in Ud /\ ud[u] \in Lua_ud /\ ud[u].const \in BOOLEAN /\ ud[u].gc \in BOOLEAN
      /\ T \in Class /\ a \in Address
  BY <1>0, <1>1, LiveType, ViewType
<1>3. const \in BOOLEAN /\ (~const => ~isConst \/ ~ud[u].const)
  BY <1>2
<1>4. gc \in BOOLEAN /\ (own = "No_change" => (gc <=> ud[u].gc))
        /\ (own # "No_change" => (gc <=> own = "Lua"))
  BY <1>2, OwnFlagType
<1>5. weak' = Registered(S, u) /\ ud' = SetCollision(uds, Colliding(S, u))
  <2>1. uds = [ud EXCEPT ![u].ptr = a, ![u].class = T, ![u].const = const, ![u].gc = gc]
    BY <1>0, <1>2
  <2> QED
    BY <2>1 DEF ResetMetatable
<1> HIDE DEF const, gc
<1>6. /\ new \in Lua_ud /\ new.st = "live" /\ new.collision = ud[u].collision
      /\ new.ptr = a /\ new.class = T /\ new.const = const /\ new.gc = gc
  BY <1>1, <1>2, <1>3, <1>4 DEF Lua_ud, Live, Address
<1> HIDE DEF new
<1>7. /\ uds \in [Ud -> {Dead} \cup Lua_ud] /\ uds[u] = new
      /\ \A v \in Ud \ {u} : uds[v] = ud[v]
  BY <1>0, <1>2, <1>6
<1>8. Found(u) \cup S = Addresses(uds[u].class, uds[u].ptr)
  BY <1>0, <1>1, <1>6, <1>7 DEF FoundAgain, Found
<1>9. S \in SUBSET Address
  BY <1>2, AddressesType
<1> HIDE DEF uds, S
<1>10. \A v \in Ud : Like(ud'[v], uds[v])
  <2>1. \A v \in Colliding(S, u) : v \in Ud /\ uds[v] \in Lua_ud
    <3>1. Colliding(S, u) \subseteq Live \cup {u}
      BY <1>0, UdsFacts DEF Colliding
    <3> QED
      BY <1>0, <1>2, <1>6, <1>7, <3>1, LiveType
  <2> QED
    BY <1>5, <1>7, <2>1, SetCollisionMarks
<1>11. RestType'
  <2>1. Live' = Live
    BY <1>1, <1>6, <1>7, <1>10 DEF Live, Like
  <2> QED
    BY <1>0, <1>1, <2>1 DEF TypeOK, RestType, HeapType
<1>12. WeakInv'
  BY <1>1, <1>2, <1>5, <1>6, <1>7, <1>8, <1>9, <1>11, RegisteredKeeps
<1>13. /\ ud'[u].st = "live" /\ ud'[u].ptr = a /\ ud'[u].class = T
       /\ ud'[u].const = const /\ ud'[u].gc = gc
  BY <1>2, <1>6, <1>7, <1>10 DEF Like
<1>14. Flags(u, isConst, own)
  <2>1. ~ud'[u].const => ~isConst \/ (u \in Live /\ ~ud[u].const)
    BY <1>1, <1>2, <1>3, <1>13
  <2>2. own = "No_change" => (ud'[u].gc <=> u \in Live /\ ud[u].gc)
    BY <1>1, <1>2, <1>4, <1>13
  <2>3. own # "No_change" => (ud'[u].gc <=> own = "Lua")
    BY <1>1, <1>2, <1>4, <1>13
  <2> QED
    BY <2>1, <2>2, <2>3 DEF Flags
<1>15. Reset(u, T, a)
  <2>1. a[1] = c
    OBVIOUS
  <2>2. u \in Matches(T, a) \/ (Matches(T, a) = {} /\ RootMatches(T, a) # {})
    OBVIOUS
  <2> HIDE DEF a
  <2> QED
    BY <1>1, <1>13, <2>1, <2>2 DEF Reset
<1> QED
  BY <1>7, <1>10, <1>12, <1>13, <1>14, <1>15 DEF Outcome

LEMMA AddPtrOutcome ==
  ASSUME WeakInv, HeapType', NEW T \in Class, NEW a \in Address, NEW u \in Ud,
         NEW isConst \in BOOLEAN, NEW own \in Owner,
         AddPtr(u, T, a, isConst, own), held' = held \cup {u}
  PROVE  /\ WeakInv' /\ Created(u, T, a) /\ Flags(u, isConst, own) /\ ud'[u].st = "live"
         /\ \A v \in Ud \ {u} : Like(ud'[v], ud[v])
<1> DEFINE S == {a} \cup BaseAddresses(T, a)
           gc == OwnFlag(own, FALSE)
           new == [st |-> "live", ptr |-> a, class |-> T, const |-> isConst,
                   gc |-> gc, collision |-> FALSE]
           uds == [ud EXCEPT ![u] = new]
<1>0. TypeOK /\ FoundAgain /\ ud \in [Ud -> {Dead} \cup Lua_ud]
  BY DEF WeakInv, TypeOK
<1>1. ud[u] = Dead /\ weak' = Registered(S, u) /\ ud' = SetCollision(uds, Colliding(S, u))
  BY DEF AddPtr
<1>2. u \notin Live /\ u \notin Known
  BY <1>0, <1>1, DeadOrKnown
<1>3. gc \in BOOLEAN /\ (own = "No_change" => ~gc) /\ (own # "No_change" => (gc <=> own = "Lua"))
  BY OwnFlagType
<1> HIDE DEF gc
<1>4. /\ new \in Lua_ud /\ new.st = "live" /\ new.ptr = a /\ new.class = T
      /\ new.const = isConst /\ new.gc = gc
  BY <1>3 DEF Lua_ud, Address
<1> HIDE DEF new
<1>5. /\ uds \in [Ud -> {Dead} \cup Lua_ud] /\ uds[u] = new
      /\ \A v \in Ud \ {u} : uds[v] = ud[v]
  BY <1>0, <1>4
<1>6. Found(u) = {}
  BY <1>0, <1>2 DEF Found, TypeOK
<1>7. S = Addresses(T, a) /\ S \in SUBSET Address
  BY AddressesType
<1>8. Found(u) \cup S = Addresses(uds[u].class, uds[u].ptr)
  BY <1>4, <1>5, <1>6, <1>7
<1> HIDE DEF uds, S
<1>9. \A v \in Ud : Like(ud'[v], uds[v])
  <2>1. \A v \in Colliding(S, u) : v \in Ud /\ uds[v] \in Lua_ud
    <3>1. Colliding(S, u) \subseteq Live \cup {u}
      BY <1>0, UdsFacts DEF Colliding
    <3> QED
      BY <1>0, <1>4, <1>5, <3>1, LiveType
  <2> QED
    BY <1>1, <1>5, <2>1, SetCollisionMarks
<1>10. RestType'
  <2>1. Live' = Live \cup {u}
    BY <1>4, <1>5, <1>9 DEF Live, Like
  <2> QED
    BY <1>0, <2>1 DEF TypeOK, RestType, HeapType
<1>11. WeakInv'
  BY <1>1, <1>2, <1>4, <1>5, <1>7, <1>8, <1>10, RegisteredKeeps
<1>12. /\ ud'[u].st = "live" /\ ud'[u].ptr = a /\ ud'[u].class = T
       /\ ud'[u].const = isConst /\ ud'[u].gc = gc
  BY <1>4, <1>5, <1>9 DEF Like
<1>13. Flags(u, isConst, own)
  <2>1. ~ud'[u].const => ~isConst \/ (u \in Live /\ ~ud[u].const)
    BY <1>12
  <2>2. own = "No_change" => (ud'[u].gc <=> u \in Live /\ ud[u].gc)
    BY <1>2, <1>3, <1>12
  <2>3. own # "No_change" => (ud'[u].gc <=> own = "Lua")
    BY <1>3, <1>12
  <2> QED
    BY <2>1, <2>2, <2>3 DEF Flags
<1> QED
  BY <1>1, <1>5, <1>9, <1>11, <1>12, <1>13 DEF Created

(* Whatever find_ud finds, the weak table stays right.                      *)
LEMMA PushOutcome ==
  ASSUME WeakInv, ViewInv, HeapType', NEW c \in Cell, heap[c] # Free,
         NEW T, NEW x, <<T, x>> \in Views(heap[c]), NEW u \in Ud,
         NEW isConst \in BOOLEAN, NEW own \in Owner,
         PushPointer(u, T, <<c, x>>, isConst, own)
  PROVE  WeakInv' /\ Outcome(u, T, <<c, x>>, isConst, own)
<1> DEFINE a == <<c, x>>
<1>0. TypeOK
  BY DEF WeakInv
<1>1. T \in Class /\ a \in Address /\ T \notin AllBases[T]
  BY <1>0, ViewType
<1>2. held' = held \cup {u}
  BY DEF PushPointer
<1>3. a \in Addresses(T, a)
  BY <1>1, AddressesType
<1>4. Matches(T, a) \subseteq Live
  BY <1>0, UdsFacts DEF Matches
<1>5. CASE u \in Matches(T, a) /\ SameOrDerived(u, T) /\ Reuse(u, isConst, own)
  BY <1>2, <1>4, <1>5, ReuseOutcome
<1>6. CASE /\ u \in Matches(T, a) /\ ~SameOrDerived(u, T)
           /\ ResetMetatable(u, T, a, isConst, own)
  <2>1. u \in Uds(a) /\ IsDerivedPtr(u, T)
    BY <1>6 DEF Matches
  <2> QED
    BY <1>2, <1>3, <1>6, <2>1, ResetOutcome
<1>7. CASE /\ Matches(T, a) = {} /\ u \in RootMatches(T, a)
           /\ ResetMetatable(u, T, a, isConst, own)
  <2>1. PICK B \in RootBases(T) : u \in Uds(At(T, a, B)) /\ IsDerivedPtr(u, T)
    BY <1>7 DEF RootMatches
  <2>2. At(T, a, B) \in Addresses(T, a)
    BY DEF RootBases, Addresses, Complete
  <2>3. RootMatches(T, a) # {}
    BY <1>7
  <2> QED
    BY <1>2, <1>7, <2>1, <2>2, <2>3, ResetOutcome
<1>8. CASE Matches(T, a) = {} /\ AddPtr(u, T, a, isConst, own)
  BY <1>1, <1>2, <1>8, AddPtrOutcome DEF Outcome
<1> QED
  BY <1>5, <1>6, <1>7, <1>8 DEF PushPointer

-----------------------------------------------------------------------------
(* Single inheritance: one address, one userdata.                           *)

(* The live userdata that stand for a T at a, whatever they are stored as.  *)
Sharing(T, a) == {v \in Live : ud[v].ptr = a /\ Related(ud[v].class, T)}

LEMMA ChainFound ==
  ASSUME TypeOK, FoundAgain, ViewInv, ~program.outlives, SingleInheritance(program.classes),
         NEW u \in Live
  PROVE  /\ Chain(ud[u].class)
         /\ \A a : u \in Uds(a) <=> a = ud[u].ptr
<1> DEFINE H == heap[ud[u].ptr[1]]
           v == <<ud[u].class, ud[u].ptr[2]>>
<1>1. u \in Ud /\ ud[u].class \in Class /\ ud[u].ptr \in Address /\ ud[u].ptr[1] \in Cell
  BY LiveType DEF TypeOK
<1>2. H # Free /\ v \in Views(H)
  BY DEF ViewInv, IsView
<1>3. H \in program.classes
  BY <1>1, <1>2 DEF TypeOK
<1>4. Chain(v[1])
  BY <1>2, <1>3 DEF SingleInheritance
<1>5. Chain(ud[u].class)
  BY <1>4
<1>6. Addresses(ud[u].class, ud[u].ptr) = {ud[u].ptr}
  BY <1>1, <1>5, ChainAddresses
<1> QED
  BY <1>5, <1>6, FoundAt

LEMMA ChainMatches ==
  ASSUME TypeOK, FoundAgain, ViewInv, ~program.outlives, SingleInheritance(program.classes),
         NEW c \in Cell, heap[c] # Free, NEW T, NEW x, <<T, x>> \in Views(heap[c])
  PROVE  /\ Chain(T)
         /\ Matches(T, <<c, x>>) = Sharing(T, <<c, x>>)
         /\ RootMatches(T, <<c, x>>) = {}
<1> DEFINE a == <<c, x>>
           w == <<T, x>>
<1>1. heap[c] \in program.classes /\ T \in Class /\ a \in Address
  BY ViewType
<1>2. Chain(T)
  <2>1. Chain(w[1])
    BY <1>1 DEF SingleInheritance
  <2> QED
    BY <2>1
<1>3. Matches(T, a) = Sharing(T, a)
  <2>1. \A u : u \in Uds(a) <=> u \in Live /\ ud[u].ptr = a
    BY UdsFacts, ChainFound
  <2>2. \A u : Related(ud[u].class, T) <=> SameOrDerived(u, T) \/ IsDerivedPtr(u, T)
    BY DEF Related, Complete, SameOrDerived, IsDerivedPtr
  <2> HIDE DEF a
  <2> QED
    BY <2>1, <2>2 DEF Matches, Sharing
<1>4. RootMatches(T, a) = {}
  <2>1. \A B \in RootBases(T) : At(T, a, B) = a
    BY <1>1, <1>2, ChainAddresses DEF RootBases, Complete
  <2> HIDE DEF a
  <2> QED
    BY <2>1 DEF RootMatches
<1> QED
  BY <1>2, <1>3, <1>4

(* So a push meets the one userdata there is, or there is none.             *)
LEMMA ChainOutcome ==
  ASSUME WeakInv, ViewInv, ~program.outlives, SingleInheritance(program.classes),
         NEW c \in Cell, heap[c] # Free, NEW T, NEW x, <<T, x>> \in Views(heap[c]),
         NEW u \in Ud, NEW isConst, NEW own, Outcome(u, T, <<c, x>>, isConst, own)
  PROVE  /\ ud'[u].ptr = <<c, x>>
         /\ \/ /\ u \in Sharing(T, <<c, x>>) /\ SameOrDerived(u, T)
               /\ ud'[u].class = ud[u].class
            \/ /\ u \in Sharing(T, <<c, x>>) /\ ud[u].class \in AllBases[T]
               /\ ud'[u].class = T
            \/ /\ Sharing(T, <<c, x>>) = {} /\ u \notin Known
               /\ ud'[u].class = T
<1> DEFINE a == <<c, x>>
<1>0. TypeOK /\ FoundAgain
  BY DEF WeakInv
<1>1. Matches(T, a) = Sharing(T, a) /\ RootMatches(T, a) = {}
  BY <1>0, ChainMatches
<1> HIDE DEF a
<1>2. Reused(u, T, a) \/ Reset(u, T, a) \/ (Created(u, T, a) /\ Matches(T, a) = {})
  BY DEF Outcome, a
<1>3. CASE Reused(u, T, a)
  BY <1>1, <1>3 DEF Reused, Sharing, a
<1>4. CASE Reset(u, T, a)
  BY <1>1, <1>4 DEF Reset, IsDerivedPtr, a
<1>5. CASE Created(u, T, a) /\ Matches(T, a) = {}
  <2>1. u \notin Known
    BY <1>5 DEF Created, Known, Dead, None
  <2> QED
    BY <1>1, <1>5, <2>1 DEF Created, a
<1> QED
  BY <1>2, <1>3, <1>4, <1>5

LEMMA PushUnrelated ==
  ASSUME WeakInv, ViewInv, ~program.outlives, SingleInheritance(program.classes),
         NEW c \in Cell, heap[c] # Free, NEW T, NEW x, <<T, x>> \in Views(heap[c]),
         NEW u \in Ud, NEW isConst, NEW own, Outcome(u, T, <<c, x>>, isConst, own)
  PROVE  Unrelated'
<1> DEFINE a == <<c, x>>
<1>0. TypeOK /\ FoundAgain /\ Unrelated /\ ud \in [Ud -> {Dead} \cup Lua_ud]
  BY DEF WeakInv, ViewInv, TypeOK
<1>1. Chain(T) /\ T \in Class
  BY <1>0, ChainMatches, ViewType
<1>2. /\ ud'[u].ptr = a
      /\ \/ u \in Sharing(T, a) /\ SameOrDerived(u, T) /\ ud'[u].class = ud[u].class
         \/ u \in Sharing(T, a) /\ ud[u].class \in AllBases[T] /\ ud'[u].class = T
         \/ Sharing(T, a) = {} /\ u \notin Known /\ ud'[u].class = T
  BY ChainOutcome
<1>3. Live' = Live \cup {u} /\ \A v \in Ud \ {u} : Like(ud'[v], ud[v])
  BY DEF Outcome, Like, Live
<1>4. ASSUME NEW w \in Live, w # u, ud[w].ptr = a
      PROVE  ~Related(ud'[u].class, ud[w].class) /\ ~Related(ud[w].class, ud'[u].class)
  <2> DEFINE U == ud[u].class
             W == ud[w].class
  <2>1. W \in Class /\ (u \in Live => U \in Class)
    BY <1>0, LiveType
  <2>2. Related(W, T) <=> Related(T, W)
    BY DEF Related
  <2>3. CASE u \in Sharing(T, a) /\ ud'[u].class = U
    BY <1>0, <1>4, <2>3 DEF Unrelated, Sharing, Related
  <2>4. CASE u \in Sharing(T, a) /\ U \in AllBases[T] /\ ud'[u].class = T
    <3>1. u \in Live /\ ~Related(U, W)
      BY <1>0, <1>4, <2>4 DEF Unrelated, Sharing
    <3>2. ~Related(T, W)
      <4>1. SUFFICES ASSUME Related(T, W) PROVE Related(U, W)
        BY <3>1
      <4>2. CASE W \in AllBases[T]
        BY <1>1, <2>4, <4>2 DEF Chain, Related
      <4>3. CASE T \in Complete(W)
        BY <2>1, <2>4, <4>3, CompleteClosed DEF Related, Complete
      <4>4. CASE W = T
        BY <2>4, <4>4 DEF Related, Complete
      <4> QED
        BY <4>1, <4>2, <4>3, <4>4 DEF Related, Complete
    <3> QED
      BY <2>2, <2>4, <3>2
  <2>5. CASE Sharing(T, a) = {} /\ ud'[u].class = T
    <3>1. ~Related(W, T)
      BY <1>4, <2>5 DEF Sharing
    <3> QED
      BY <2>2, <2>5, <3>1
  <2> QED
    BY <1>2, <2>3, <2>4, <2>5
<1>5. SUFFICES ASSUME NEW v \in Live', NEW w \in Live', v # w, ud'[v].ptr = ud'[w].ptr
               PROVE  ~Related(ud'[v].class, ud'[w].class)
  BY DEF Unrelated, Related, Complete
<1>6. \A y \in Live : y \in Ud
  BY DEF Live
<1>7. CASE v = u
  <2>1. w \in Live /\ w # u /\ Like(ud'[w], ud[w])
    BY <1>3, <1>5, <1>6, <1>7
  <2> QED
    BY <1>2, <1>4, <1>5, <1>7, <2>1 DEF Like
<1>8. CASE w = u
  <2>1. v \in Live /\ v # u /\ Like(ud'[v], ud[v])
    BY <1>3, <1>5, <1>6, <1>8
  <2> QED
    BY <1>2, <1>4, <1>5, <1>8, <2>1 DEF Like
<1>9. CASE v # u /\ w # u
  <2>1. v \in Live /\ w \in Live /\ Like(ud'[v], ud[v]) /\ Like(ud'[w], ud[w])
    BY <1>3, <1>5, <1>6, <1>9
  <2> QED
    BY <1>0, <1>5, <2>1 DEF Like, Unrelated
<1> QED
  BY <1>7, <1>8, <1>9

-----------------------------------------------------------------------------
(* Owners.                                                                  *)

LEMMA TransferFacts ==
  ASSUME TypeOK, ViewInv, program.transfers
  PROVE  /\ ~program.outlives /\ SingleInheritance(program.classes)
         /\ LastOfAll /\ Unrelated /\ \A u \in Live : IsView(u)
BY ProgramFacts DEF TypeOK, ViewInv

(* The whole object's userdata is the one that deletes it, if one does.     *)
LEMMA WholeIsOnly ==
  ASSUME WeakInv, OwnInv, ViewInv, program.transfers,
         NEW u \in Live, StandsForWhole(u),
         NEW k \in Known, ud[k].gc, ud[k].ptr[1] = ud[u].ptr[1]
  PROVE  k = u
<1> DEFINE c == ud[u].ptr[1]
           H == heap[c]
           v == <<ud[u].class, ud[u].ptr[2]>>
           w == <<ud[k].class, ud[k].ptr[2]>>
<1>0. TypeOK /\ FoundAgain /\ ud \in [Ud -> {Dead} \cup Lua_ud]
  BY DEF WeakInv, TypeOK
<1>1. SingleInheritance(program.classes) /\ LastOfAll /\ Unrelated
  BY <1>0, TransferFacts
<1>2. k \in Live
  <2>1. ud[k].st # "dying"
    BY <1>1 DEF LastOfAll
  <2> QED
    BY <1>0, <2>1, KnownType, DeadOrKnown
<1>3. H # Free /\ v \in OwnViews(H) /\ w \in OwnViews(H)
  BY DEF OwnInv, DeletesWhole, StandsForWhole
<1>4. H \in program.classes /\ H \in Class
  <2>1. c \in Cell
    BY <1>0, LiveType
  <2> QED
    BY <1>0, <1>3, <2>1, ProgramFacts DEF TypeOK
<1>5. Chain(H)
  <2>1. <<H, 0>> \in Views(H)
    BY <1>4, OwnViewsType
  <2>2. Chain(<<H, 0>>[1])
    BY <1>1, <1>4, <2>1 DEF SingleInheritance
  <2> QED
    BY <2>2
<1>6. Related(v[1], w[1]) /\ v[2] = 0 /\ w[2] = 0
  BY <1>3, <1>4, <1>5, OwnViewsChain
<1>7. Related(ud[u].class, ud[k].class) /\ ud[u].ptr[2] = 0 /\ ud[k].ptr[2] = 0
  BY <1>6
<1>8. ud[u].ptr = ud[k].ptr
  <2>1. ud[u].ptr \in Address /\ ud[k].ptr \in Address
    BY <1>0, <1>2, LiveType
  <2>2. ud[u].ptr = <<ud[u].ptr[1], ud[u].ptr[2]>> /\ ud[k].ptr = <<ud[k].ptr[1], ud[k].ptr[2]>>
    BY <2>1, AddressIs
  <2> QED
    BY <1>7, <2>2
<1> QED
  BY <1>1, <1>2, <1>7, <1>8 DEF Unrelated

(* What shares the address of a whole object, and a class, stands for it.   *)
LEMMA SharingIsWhole ==
  ASSUME TypeOK, ViewInv, program.transfers, NEW c \in Cell, heap[c] # Free,
         NEW T, NEW x, NEW u \in Sharing(T, <<c, x>>), <<T, x>> \in Views(heap[c])
  PROVE  StandsForWhole(u) <=> <<T, x>> \in OwnViews(heap[c])
<1> DEFINE U == ud[u].class
           H == heap[c]
<1>1. u \in Live /\ ud[u].ptr = <<c, x>> /\ Related(U, T) /\ Related(T, U)
  BY DEF Sharing, Related
<1>2. ud[u].ptr[1] = c /\ ud[u].ptr[2] = x
  BY <1>1
<1>3. <<U, x>> \in Views(H)
  BY <1>1, <1>2, TransferFacts DEF IsView
<1>4. SingleInheritance(program.classes) /\ H \in program.classes
      /\ program.classes \in SUBSET Class
  BY TransferFacts, ViewType, ProgramFacts DEF TypeOK
<1>5. <<T, x>> \in OwnViews(H) => <<U, x>> \in OwnViews(H)
  BY <1>1, <1>3, <1>4, RelatedIsWhole
<1>6. <<U, x>> \in OwnViews(H) => <<T, x>> \in OwnViews(H)
  BY <1>1, <1>4, RelatedIsWhole
<1>7. StandsForWhole(u) <=> <<U, x>> \in OwnViews(H)
  BY <1>2 DEF StandsForWhole
<1> QED
  BY <1>5, <1>6, <1>7

LEMMA DestructorOfBase ==
  ASSUME NEW T \in NoDestructor, NEW B \in AllBases[T]
  PROVE  B \in NoDestructor
BY DestructorAssumption

(* A step elsewhere in the heap changes nothing about what u stands for.    *)
LEMMA WholeKept ==
  ASSUME NEW u, heap'[ud[u].ptr[1]] = heap[ud[u].ptr[1]],
         ud'[u].ptr = ud[u].ptr, ud'[u].class = ud[u].class
  PROVE  (StandsForWhole(u)' <=> StandsForWhole(u)) /\ (IsView(u)' <=> IsView(u))
BY DEF StandsForWhole, IsView, Views, OwnViews, At, Complete

(* A push that passes no ownership on.                                      *)
LEMMA PushOwnSame ==
  ASSUME WeakInv, OwnInv, ViewInv, UNCHANGED <<program, heap, owner>>,
         NEW c \in Cell, heap[c] # Free, NEW T, NEW x, <<T, x>> \in Views(heap[c]),
         NEW u \in Ud, NEW isConst, Outcome(u, T, <<c, x>>, isConst, "No_change")
  PROVE  OwnInv'
<1> DEFINE a == <<c, x>>
           H == heap[c]
           U == ud[u].class
<1>0. TypeOK /\ FoundAgain /\ ud \in [Ud -> {Dead} \cup Lua_ud]
  BY DEF WeakInv, TypeOK
<1>1. T \in Class /\ H \in Class /\ H \notin AllBases[T]
  BY <1>0, ViewType
<1>2. /\ \A v \in Ud \ {u} : Like(ud'[v], ud[v])
      /\ ud'[u].st = "live" /\ (ud'[u].gc <=> u \in Live /\ ud[u].gc)
  BY DEF Outcome, Flags
<1>3. Reused(u, T, a) \/ Reset(u, T, a) \/ (Created(u, T, a) /\ u \notin Known)
  <2>1. Created(u, T, a) => u \notin Known
    BY DEF Created, Known, Dead, None
  <2> QED
    BY <2>1 DEF Outcome
<1>4. \A v \in Ud : v # u => (v \in Known' <=> v \in Known)
  BY <1>2 DEF Known, Like
<1>5. u \in Known' /\ (u \in Live => u \in Known)
  BY <1>2 DEF Known, Live, None
<1>6. u \in Live => ud'[u].ptr[1] = ud[u].ptr[1]
  <2>1. a[1] = c
    OBVIOUS
  <2>2. Created(u, T, a) => u \notin Live
    BY DEF Created, Live, Dead, None
  <2> HIDE DEF a
  <2> QED
    BY <1>3, <2>1, <2>2 DEF Reused, Reset
<1>7. ASSUME NEW v \in Ud, NEW d
      PROVE  Deletes(v, d)' <=> Deletes(v, d)
  <2>1. CASE v # u
    BY <1>2, <1>4, <2>1 DEF Deletes, Like
  <2>2. CASE v = u
    <3>1. u \in Known => u \in Live
      BY <1>3 DEF Reused, Reset
    <3> QED
      BY <1>2, <1>5, <1>6, <2>2, <3>1 DEF Deletes
  <2> QED
    BY <2>1, <2>2
<1>8. DeletesOnce' /\ DeletesAll'
  <2>1. DeletesOnce'
    BY <1>7 DEF OwnInv, DeletesOnce
  <2>2. DeletesAll'
    BY <1>7 DEF OwnInv, DeletesAll
  <2> QED
    BY <2>1, <2>2
<1>9. ASSUME NEW v \in Known', ud'[v].gc
      PROVE  /\ owner'[ud'[v].ptr[1]] = "Lua" /\ StandsForWhole(v)'
             /\ ud'[v].class \notin NoDestructor
             /\ ~program'.transfers => ud'[v].class = heap'[ud'[v].ptr[1]]
  <2>0. v \in Ud
    BY DEF Known
  <2>1. CASE v # u \/ Reused(u, T, a)
    <3>1. v \in Known /\ ud[v].gc
      BY <1>2, <1>4, <1>9, <2>0, <2>1, <1>5 DEF Like
    <3>2. ud'[v].ptr = ud[v].ptr /\ ud'[v].class = ud[v].class
      BY <1>2, <2>0, <2>1 DEF Like, Reused
    <3> QED
      BY <3>1, <3>2, WholeKept DEF OwnInv, DeletesWhole
  <2>2. CASE v = u /\ Reset(u, T, a)
    <3>1. /\ u \in Live /\ U \in AllBases[T] /\ ud[u].ptr[1] = c
          /\ ud'[u].ptr = a /\ ud'[u].class = T
      BY <2>2 DEF Reset, IsDerivedPtr
    <3>2. /\ owner[c] = "Lua" /\ StandsForWhole(u) /\ U \notin NoDestructor
          /\ ~program.transfers => U = H
      BY <1>2, <1>5, <1>9, <2>2, <3>1 DEF OwnInv, DeletesWhole
    <3>3. program.transfers
      BY <1>1, <3>1, <3>2
    <3>4. u \in Sharing(T, a)
      <4>1. ~program.outlives /\ SingleInheritance(program.classes)
        BY <1>0, <3>3, TransferFacts
      <4>2. Sharing(T, a) = {} => u \notin Known
        BY <4>1, ChainOutcome
      <4>3. Sharing(T, a) # {} => u \in Sharing(T, a)
        BY <4>1, ChainOutcome
      <4> QED
        BY <1>5, <3>1, <4>2, <4>3
    <3>5. <<T, x>> \in OwnViews(H)
      BY <1>0, <3>2, <3>3, <3>4, SharingIsWhole
    <3>6. StandsForWhole(u)'
      <4>1. ud'[u].ptr[1] = c /\ ud'[u].ptr[2] = x
        BY <3>1
      <4> QED
        BY <3>1, <3>5, <4>1 DEF StandsForWhole, OwnViews, At, Complete
    <3>7. T \notin NoDestructor
      BY <3>1, <3>2, DestructorOfBase
    <3>8. ud'[u].ptr[1] = c
      BY <3>1
    <3> QED
      BY <2>2, <3>1, <3>2, <3>3, <3>6, <3>7, <3>8
  <2>3. CASE v = u /\ Created(u, T, a) /\ u \notin Known
    BY <1>2, <1>5, <1>9, <2>3
  <2> QED
    BY <1>3, <2>1, <2>2, <2>3
<1>10. DeletesWhole'
  BY <1>9 DEF DeletesWhole
<1> QED
  BY <1>8, <1>10 DEF OwnInv

(* A push that says who deletes the object from now on.                     *)
LEMMA PushOwnNew ==
  ASSUME WeakInv, OwnInv, ViewInv, UNCHANGED <<program, heap>>, program.transfers,
         NEW c \in Cell, heap[c] # Free,
         owner[c] = "Cpp" \/ \E k \in held : ud[k].gc /\ ud[k].ptr[1] = c,
         NEW T, T \notin NoDestructor, NEW x, <<T, x>> \in OwnViews(heap[c]),
         NEW u \in Ud, NEW isConst, NEW own \in {"Cpp", "Lua"},
         Outcome(u, T, <<c, x>>, isConst, own),
         owner'[c] = own, \A d \in Cell : d # c => owner'[d] = owner[d]
  PROVE  OwnInv'
<1> DEFINE a == <<c, x>>
           H == heap[c]
           U == ud[u].class
<1>0. TypeOK /\ FoundAgain /\ ud \in [Ud -> {Dead} \cup Lua_ud]
  BY DEF WeakInv, TypeOK
<1>1. /\ ~program.outlives /\ SingleInheritance(program.classes) /\ LastOfAll
      /\ H \in Class /\ H \in program.classes
  BY <1>0, TransferFacts, ProgramFacts DEF TypeOK
<1>2. <<T, x>> \in Views(H) /\ T \in Class
  BY <1>1, OwnViewsType
<1>3. /\ \A v \in Ud \ {u} : Like(ud'[v], ud[v])
      /\ ud'[u].st = "live" /\ (ud'[u].gc <=> own = "Lua")
  BY DEF Outcome, Flags
<1>4. /\ ud'[u].ptr = a
      /\ \/ u \in Sharing(T, a) /\ SameOrDerived(u, T) /\ ud'[u].class = U
         \/ u \in Sharing(T, a) /\ U \in AllBases[T] /\ ud'[u].class = T
         \/ Sharing(T, a) = {} /\ u \notin Known /\ ud'[u].class = T
  BY <1>1, <1>2, ChainOutcome
<1>5. \A v \in Ud : v # u => (v \in Known' <=> v \in Known)
  BY <1>3 DEF Known, Like
<1>6. u \in Known' /\ ud'[u].ptr[1] = c /\ ud'[u].ptr[2] = x
  BY <1>3, <1>4 DEF Known, None
<1>7. u \in Sharing(T, a) => u \in Live /\ StandsForWhole(u) /\ ud[u].ptr[1] = c
  BY <1>0, <1>2, SharingIsWhole DEF Sharing
(* No other userdata deletes this object. *)
<1>8. ASSUME NEW k \in Known, ud[k].gc, ud[k].ptr[1] = c
      PROVE  k = u
  <2>1. CASE u \in Sharing(T, a)
    BY <1>7, <1>8, <2>1, WholeIsOnly
  <2>2. CASE Sharing(T, a) = {}
    <3>1. owner[c] = "Lua"
      BY <1>8 DEF OwnInv, DeletesWhole
    <3>2. PICK h \in held : ud[h].gc /\ ud[h].ptr[1] = c
      BY <3>1
    <3>3. h \in Live /\ h \in Known
      BY <1>0, LiveType DEF TypeOK
    <3>4. StandsForWhole(h)
      BY <3>2, <3>3 DEF OwnInv, DeletesWhole
    <3>5. LET w == <<ud[h].class, ud[h].ptr[2]>> IN w \in OwnViews(H)
      BY <3>2, <3>4 DEF StandsForWhole
    <3>6. Chain(H)
      <4>1. <<H, 0>> \in Views(H)
        BY <1>1, OwnViewsType
      <4>2. Chain(<<H, 0>>[1])
        BY <1>1, <4>1 DEF SingleInheritance
      <4> QED
        BY <4>2
    <3>7. Related(ud[h].class, T) /\ ud[h].ptr[2] = 0 /\ x = 0
      <4> DEFINE w == <<ud[h].class, ud[h].ptr[2]>>
                 v == <<T, x>>
      <4>1. v \in OwnViews(H) /\ w \in OwnViews(H)
        BY <3>5
      <4>2. Related(w[1], v[1]) /\ w[2] = 0 /\ v[2] = 0
        BY <1>1, <3>6, <4>1, OwnViewsChain
      <4> QED
        BY <4>2
    <3>8. ud[h].ptr = a
      <4>1. ud[h].ptr \in Address
        BY <1>0, <3>3, LiveType
      <4>2. ud[h].ptr = <<ud[h].ptr[1], ud[h].ptr[2]>>
        BY <4>1, AddressIs
      <4> QED
        BY <3>2, <3>7, <4>2
    <3>9. h \in Sharing(T, a)
      BY <3>3, <3>7, <3>8 DEF Sharing
    <3> QED
      BY <2>2, <3>9
  <2> QED
    BY <1>4, <2>1, <2>2
<1>9. ASSUME NEW v \in Ud, NEW d \in Cell
      PROVE  Deletes(v, d)' <=> IF d = c THEN v = u /\ own = "Lua" ELSE Deletes(v, d)
  <2>1. CASE v # u
    <3>1. Deletes(v, d)' <=> Deletes(v, d)
      BY <1>3, <1>5, <2>1 DEF Deletes, Like
    <3>2. d = c => ~Deletes(v, d)
      BY <1>8, <2>1 DEF Deletes
    <3> QED
      BY <2>1, <3>1, <3>2
  <2>2. CASE v = u
    <3>1. Deletes(u, d)' <=> own = "Lua" /\ d = c
      BY <1>3, <1>6 DEF Deletes
    <3>2. Deletes(u, d) => d = c
      <4>1. u \in Known => ud[u].ptr[1] = c
        BY <1>4, <1>7
      <4> QED
        BY <4>1 DEF Deletes
    <3> QED
      BY <2>2, <3>1, <3>2
  <2> QED
    BY <2>1, <2>2
<1>10. DeletesOnce'
  <2>1. SUFFICES ASSUME NEW v \in Ud, NEW w \in Ud, NEW d \in Cell, Deletes(v, d)', Deletes(w, d)'
                 PROVE  v = w
    BY DEF DeletesOnce
  <2>2. CASE d = c
    BY <1>9, <2>1, <2>2
  <2>3. CASE d # c
    BY <1>9, <2>1, <2>3 DEF OwnInv, DeletesOnce
  <2> QED
    BY <2>2, <2>3
<1>11. DeletesAll'
  <2>1. SUFFICES ASSUME NEW d \in Cell, heap'[d] # Free, owner'[d] = "Lua"
                 PROVE  \E v \in Ud : Deletes(v, d)'
    BY DEF DeletesAll
  <2>2. CASE d = c
    BY <1>9, <2>1, <2>2
  <2>3. CASE d # c
    <3>1. PICK v \in Ud : Deletes(v, d)
      BY <2>1, <2>3 DEF OwnInv, DeletesAll
    <3> QED
      BY <1>9, <2>3, <3>1
  <2> QED
    BY <2>2, <2>3
<1>12. ASSUME NEW v \in Known', ud'[v].gc
       PROVE  /\ owner'[ud'[v].ptr[1]] = "Lua" /\ StandsForWhole(v)'
              /\ ud'[v].class \notin NoDestructor /\ program'.transfers
  <2>0. v \in Ud
    BY DEF Known
  <2>1. CASE v # u
    <3>1. v \in Known /\ ud[v].gc /\ ud'[v].ptr = ud[v].ptr /\ ud'[v].class = ud[v].class
      BY <1>3, <1>5, <1>12, <2>0, <2>1 DEF Like
    <3>2. ud[v].ptr[1] # c /\ ud[v].ptr[1] \in Cell
      BY <1>0, <1>8, <2>1, <3>1, KnownType
    <3> QED
      BY <3>1, <3>2, WholeKept DEF OwnInv, DeletesWhole
  <2>2. CASE v = u
    <3>1. own = "Lua" /\ owner'[c] = "Lua"
      BY <1>3, <1>12, <2>2
    <3>2. CASE u \in Sharing(T, a) /\ SameOrDerived(u, T) /\ ud'[u].class = U
      <4>1. U \notin NoDestructor
        BY <3>2, DestructorOfBase DEF SameOrDerived
      <4>2. StandsForWhole(u)'
        <5>1. ud'[u].ptr = ud[u].ptr
          BY <1>4, <3>2 DEF Sharing
        <5> QED
          BY <1>7, <3>2, <5>1, WholeKept
      <4> QED
        BY <1>6, <2>2, <3>1, <3>2, <4>1, <4>2
    <3>3. CASE ud'[u].class = T
      <4>1. StandsForWhole(u)'
        BY <1>6, <3>3 DEF StandsForWhole, OwnViews, At, Complete
      <4> QED
        BY <1>6, <2>2, <3>1, <3>3, <4>1
    <3> QED
      BY <1>4, <3>2, <3>3
  <2> QED
    BY <2>1, <2>2
<1>13. DeletesWhole'
  BY <1>12 DEF DeletesWhole
<1> QED
  BY <1>10, <1>11, <1>13 DEF OwnInv

(* The userdata of a push stands for what was pushed, and is no last word   *)
(* while the object is in use.                                              *)
LEMMA PushViews ==
  ASSUME WeakInv, OwnInv, ViewInv, ConstIsKept, UNCHANGED <<program, heap>>,
         NEW c \in Cell, heap[c] # Free,
         owner[c] = "Cpp" \/ \E k \in held : ud[k].gc /\ ud[k].ptr[1] = c,
         NEW T, NEW x, <<T, x>> \in Views(heap[c]),
         NEW u \in Ud, NEW isConst, NEW own, Outcome(u, T, <<c, x>>, isConst, own),
         given' = IF isConst THEN given ELSE given \cup {c}
  PROVE  ViewInv' /\ ConstIsKept'
<1> DEFINE a == <<c, x>>
           H == heap[c]
<1>0. TypeOK /\ FoundAgain /\ ud \in [Ud -> {Dead} \cup Lua_ud]
  BY DEF WeakInv, TypeOK
<1>1. /\ \A v \in Ud \ {u} : Like(ud'[v], ud[v])
      /\ ud'[u].st = "live" /\ (~ud'[u].const => ~isConst \/ (u \in Live /\ ~ud[u].const))
  BY DEF Outcome, Flags
<1>2. /\ \/ u \in Live /\ ud'[u].ptr = ud[u].ptr /\ ud'[u].class = ud[u].class
         \/ ud'[u].ptr = a /\ ud'[u].class = T
      /\ ud'[u].ptr[1] = c
      /\ u \in Live => ud[u].ptr[1] = c
      /\ u \in Live \/ u \notin Known
  <2>1. a[1] = c
    OBVIOUS
  <2>2. Reused(u, T, a) \/ Reset(u, T, a) \/ Created(u, T, a)
    BY DEF Outcome
  <2>3. CASE Reused(u, T, a)
    <3>1. u \in Uds(a)
      BY <2>3 DEF Reused, Matches
    <3>2. ud[u].ptr[1] = a[1]
      BY <1>0, <3>1, FoundAt
    <3> QED
      BY <2>1, <2>3, <3>2 DEF Reused
  <2>4. CASE Reset(u, T, a)
    BY <2>1, <2>4 DEF Reset
  <2>5. CASE Created(u, T, a)
    BY <1>0, <2>1, <2>5, DeadOrKnown DEF Created
  <2> QED
    BY <2>2, <2>3, <2>4, <2>5
<1>3. Live' = Live \cup {u} /\ \A v \in Live : v \in Ud
  BY <1>1 DEF Live, Like
<1>4. ASSUME ~program.outlives
      PROVE  (\A v \in Live' : IsView(v)') /\ LastOfAll'
  <2>1. (\A v \in Live : IsView(v)) /\ LastOfAll
    BY <1>4 DEF ViewInv
  <2>2. ASSUME NEW v \in Live'
        PROVE  IsView(v)'
    <3>1. CASE /\ v \in Live /\ ud'[v].ptr = ud[v].ptr /\ ud'[v].class = ud[v].class
      BY <2>1, <3>1 DEF IsView, Views, OwnViews, At, Complete
    <3>2. CASE v = u /\ ud'[u].ptr = a /\ ud'[u].class = T
      <4>1. ud'[u].ptr[1] = c /\ ud'[u].ptr[2] = x
        BY <3>2
      <4> QED
        BY <3>2, <4>1 DEF IsView, Views, OwnViews, At, Complete
    <3>3. v # u => v \in Live /\ ud'[v].ptr = ud[v].ptr /\ ud'[v].class = ud[v].class
      BY <1>1, <1>3 DEF Like
    <3> QED
      BY <1>2, <3>1, <3>2, <3>3
  <2>3. LastOfAll'
    <3>1. SUFFICES ASSUME NEW k \in Known', NEW v \in Live', ud'[k].gc, ud'[k].st = "dying"
                   PROVE  ud'[k].ptr[1] # ud'[v].ptr[1]
      BY DEF LastOfAll
    <3>2. k \in Ud /\ k # u /\ Like(ud'[k], ud[k])
      BY <1>1, <3>1 DEF Known
    <3>3. k \in Known /\ ud[k].gc /\ ud[k].st = "dying" /\ ud'[k].ptr = ud[k].ptr
      BY <3>1, <3>2 DEF Like, Known
    <3>4. CASE v # u
      <4>1. v \in Live /\ ud'[v].ptr = ud[v].ptr
        BY <1>1, <1>3, <3>1, <3>4 DEF Like
      <4> QED
        BY <2>1, <3>3, <4>1 DEF LastOfAll
    <3>5. CASE v = u
      <4>1. ud[k].ptr[1] # c
        <5>1. SUFFICES ASSUME ud[k].ptr[1] = c PROVE FALSE
          OBVIOUS
        <5>2. owner[c] = "Lua"
          BY <3>3, <5>1 DEF OwnInv, DeletesWhole
        <5>3. PICK h \in held : ud[h].gc /\ ud[h].ptr[1] = c
          BY <5>2
        <5>4. h \in Live
          BY <1>0 DEF TypeOK
        <5> QED
          BY <2>1, <3>3, <5>1, <5>3, <5>4 DEF LastOfAll
      <4> QED
        BY <1>2, <3>3, <3>5, <4>1
    <3> QED
      BY <3>4, <3>5
  <2> QED
    BY <2>2, <2>3
<1>5. ViewInv'
  <2>1. ~program.outlives /\ SingleInheritance(program.classes) => Unrelated'
    BY PushUnrelated
  <2>2. SingleInheritance(program.classes)' = SingleInheritance(program.classes)
    BY DEF SingleInheritance, Views, OwnViews, At, Complete, Chain
  <2> QED
    BY <1>4, <2>1, <2>2 DEF ViewInv
<1>6. ConstIsKept'
  <2>1. SUFFICES ASSUME ~program.outlives, NEW v \in Live', ~ud'[v].const
                 PROVE  ud'[v].ptr[1] \in given'
    BY DEF ConstIsKept
  <2>2. given \subseteq given' /\ (~isConst => c \in given')
    OBVIOUS
  <2>3. CASE v # u
    <3>1. v \in Live /\ ~ud[v].const /\ ud'[v].ptr = ud[v].ptr
      BY <1>1, <1>3, <2>1, <2>3 DEF Like
    <3> QED
      BY <2>1, <2>2, <3>1 DEF ConstIsKept
  <2>4. CASE v = u
    <3>1. ~isConst \/ (u \in Live /\ ~ud[u].const)
      BY <1>1, <2>1, <2>4
    <3>2. (u \in Live /\ ~ud[u].const) => c \in given
      BY <1>2, <2>1 DEF ConstIsKept
    <3> QED
      BY <1>2, <2>2, <2>4, <3>1, <3>2
  <2> QED
    BY <2>3, <2>4
<1> QED
  BY <1>5, <1>6

-----------------------------------------------------------------------------
(* The other actions.                                                       *)

LEMMA ViewKept ==
  ASSUME ViewInv, UNCHANGED program, Live' \subseteq Live,
         \A v \in Live' : ud'[v].ptr = ud[v].ptr /\ ud'[v].class = ud[v].class,
         ~program.outlives => /\ \A v \in Live' : heap'[ud[v].ptr[1]] = heap[ud[v].ptr[1]]
                              /\ LastOfAll'
  PROVE  ViewInv'
<1>1. ASSUME ~program.outlives
      PROVE  \A v \in Live' : IsView(v)'
  BY <1>1, WholeKept DEF ViewInv
<1>2. ASSUME ~program.outlives /\ SingleInheritance(program.classes)
      PROVE  Unrelated'
  BY <1>2 DEF ViewInv, Unrelated, Related, Complete
<1>3. SingleInheritance(program.classes)' = SingleInheritance(program.classes)
  BY DEF SingleInheritance, Views, OwnViews, At, Complete, Chain
<1> QED
  BY <1>1, <1>2, <1>3 DEF ViewInv

(* Nothing is known to delete what Lua does not own.                        *)
LEMMA NothingDeletes ==
  ASSUME OwnInv, NEW c \in Cell, heap[c] = Free \/ owner[c] = "Cpp"
  PROVE  \A v \in Known : ud[v].gc => ud[v].ptr[1] # c
BY DEF OwnInv, DeletesWhole, StandsForWhole

LEMMA InitOK ==
  ASSUME Init
  PROVE  IInv
<1>1. Live = {} /\ Known = {} /\ \A u \in Ud : ud[u] = Dead
  BY DEF Init, Live, Known, Dead, None
<1>2. WeakInv
  BY <1>1 DEF Init, WeakInv, TypeOK, FoundAgain, Marked, TablesReclaimed
<1>3. OwnInv
  BY <1>1 DEF Init, OwnInv, DeletesWhole, DeletesOnce, DeletesAll, Deletes
<1>4. ViewInv
  BY <1>1 DEF ViewInv, LastOfAll, Unrelated
<1>5. ConstIsKept
  BY <1>1 DEF ConstIsKept
<1> QED
  BY <1>2, <1>3, <1>4, <1>5 DEF IInv

(* A step of C++ alone: an object is made or deleted in c.                  *)
LEMMA CppOK ==
  ASSUME IInv, NEW c \in Cell, heap[c] = Free \/ owner[c] = "Cpp",
         ~program.outlives => \A u \in Live : ud[u].ptr[1] # c,
         UNCHANGED <<program, ud, held, weak>>,
         NEW T \in program.classes \cup {Free}, heap' = [heap EXCEPT ![c] = T],
         T # Free => owner' = [owner EXCEPT ![c] = "Cpp"],
         T = Free => UNCHANGED owner /\ owner[c] = "Cpp",
         given \ {c} \subseteq given', given' \subseteq Cell
  PROVE  IInv'
<1>0. /\ WeakInv /\ OwnInv /\ ViewInv /\ ConstIsKept /\ TypeOK
      /\ heap \in [Cell -> program.classes \cup {Free}] /\ owner \in [Cell -> {"Cpp", "Lua"}]
  BY DEF IInv, WeakInv, TypeOK
<1>1. Live' = Live /\ Known' = Known
  BY DEF Live, Known
<1>2. \A v \in Known : ud[v].gc => ud[v].ptr[1] # c /\ ud[v].ptr[1] \in Cell
  BY <1>0, NothingDeletes, KnownType DEF TypeOK
<1>3. \A d \in Cell : d # c => heap'[d] = heap[d] /\ owner'[d] = owner[d]
  BY <1>0
<1>4. owner'[c] = "Cpp" /\ owner' \in [Cell -> {"Cpp", "Lua"}]
  BY <1>0
<1>5. WeakInv'
  <2>1. RestType'
    BY <1>0, <1>1, <1>4 DEF TypeOK, RestType
  <2> QED
    BY <1>0, <2>1, WeakKept DEF TypeOK
<1>6. OwnInv'
  <2>1. \A v, d : Deletes(v, d)' <=> Deletes(v, d)
    BY DEF Deletes, Known
  <2>2. DeletesWhole'
    <3>1. SUFFICES ASSUME NEW v \in Known, ud[v].gc
                   PROVE  /\ owner'[ud[v].ptr[1]] = "Lua" /\ StandsForWhole(v)'
                          /\ ud[v].class \notin NoDestructor
                          /\ ~program.transfers => ud[v].class = heap'[ud[v].ptr[1]]
      BY <1>1 DEF DeletesWhole
    <3>2. heap'[ud[v].ptr[1]] = heap[ud[v].ptr[1]] /\ owner'[ud[v].ptr[1]] = owner[ud[v].ptr[1]]
      BY <1>2, <1>3, <3>1
    <3> QED
      BY <1>0, <3>1, <3>2, WholeKept DEF OwnInv, DeletesWhole
  <2>3. DeletesOnce'
    BY <1>0, <2>1 DEF OwnInv, DeletesOnce
  <2>4. DeletesAll'
    BY <1>0, <1>3, <1>4, <2>1 DEF OwnInv, DeletesAll
  <2> QED
    BY <2>2, <2>3, <2>4 DEF OwnInv
<1>7. ViewInv'
  <2>1. ~program.outlives => LastOfAll'
    BY <1>0, <1>1 DEF ViewInv, LastOfAll
  <2>2. ~program.outlives => \A v \in Live : heap'[ud[v].ptr[1]] = heap[ud[v].ptr[1]]
    BY <1>0, <1>3, LiveType DEF TypeOK
  <2> QED
    BY <1>0, <1>1, <2>1, <2>2, ViewKept
<1>8. ConstIsKept'
  BY <1>0, <1>1 DEF ConstIsKept
<1> QED
  BY <1>5, <1>6, <1>7, <1>8 DEF IInv

LEMMA CppNewOK ==
  ASSUME IInv, NEW c \in Cell, NEW T \in Class, CppNew(c, T)
  PROVE  IInv'
<1>1. heap[c] = Free /\ T \in program.classes /\ T # Free /\ given \subseteq Cell
  BY ClassAssumption DEF CppNew, IInv, WeakInv, TypeOK
<1>2. ~program.outlives => \A u \in Live : ud[u].ptr[1] # c
  BY <1>1 DEF IInv, ViewInv, IsView
<1>3. /\ heap' = [heap EXCEPT ![c] = T] /\ owner' = [owner EXCEPT ![c] = "Cpp"]
      /\ given' = given \ {c} /\ UNCHANGED <<program, ud, held, weak>>
  BY DEF CppNew
<1> QED
  BY <1>1, <1>2, <1>3, CppOK

LEMMA CppDeleteOK ==
  ASSUME IInv, NEW c \in Cell, CppDelete(c)
  PROVE  IInv'
<1>1. /\ owner[c] = "Cpp" /\ heap' = [heap EXCEPT ![c] = Free]
      /\ UNCHANGED <<program, owner, given, ud, held, weak>> /\ given \subseteq Cell
  BY DEF CppDelete, IInv, WeakInv, TypeOK
<1>2. ~program.outlives => \A u \in Live : ud[u].ptr[1] # c
  BY DEF CppDelete, Live, Known, None
<1> QED
  BY <1>1, <1>2, CppOK

LEMMA LuaNewOK ==
  ASSUME IInv, NEW c \in Cell, NEW T \in Class, NEW u \in Ud, LuaNew(c, T, u)
  PROVE  IInv'
<1> DEFINE a == <<c, 0>>
<1>0. /\ WeakInv /\ OwnInv /\ ViewInv /\ ConstIsKept /\ TypeOK
      /\ heap \in [Cell -> program.classes \cup {Free}] /\ owner \in [Cell -> {"Cpp", "Lua"}]
      /\ ud \in [Ud -> {Dead} \cup Lua_ud]
  BY DEF IInv, WeakInv, TypeOK
<1>1. /\ heap[c] = Free /\ T \in program.classes /\ T \notin NoDestructor
      /\ heap' = [heap EXCEPT ![c] = T] /\ owner' = [owner EXCEPT ![c] = "Lua"]
      /\ given' = given \cup {c} /\ held' = held \cup {u} /\ UNCHANGED program
      /\ AddPtr(u, T, a, FALSE, "Lua")
  BY DEF LuaNew
<1>2. a \in Address /\ a[1] = c /\ a[2] = 0
  BY DEF Address
<1>3. HeapType'
  BY <1>0, <1>1 DEF HeapType, TypeOK
<1>4. /\ WeakInv' /\ Created(u, T, a) /\ Flags(u, FALSE, "Lua") /\ ud'[u].st = "live"
      /\ \A v \in Ud \ {u} : Like(ud'[v], ud[v])
  <2>1. "Lua" \in Owner
    BY DEF Owner
  <2> QED
    BY <1>0, <1>1, <1>2, <1>3, <2>1, AddPtrOutcome
<1>5. /\ u \notin Known /\ u \notin Live /\ ud'[u].gc
      /\ ud'[u].class = T /\ ud'[u].ptr = a /\ ud'[u].ptr[1] = c /\ ud'[u].ptr[2] = 0
  BY <1>0, <1>2, <1>4, DeadOrKnown DEF Created, Flags
<1>6. /\ Live' = Live \cup {u} /\ Known' = Known \cup {u}
      /\ \A v \in Known : v \in Ud /\ v # u
  BY <1>4, <1>5 DEF Live, Known, Like, None
<1>7. \A v \in Known : ud[v].gc => ud[v].ptr[1] # c
  BY <1>0, <1>1, NothingDeletes
<1>8. \A d \in Cell : d # c => heap'[d] = heap[d] /\ owner'[d] = owner[d]
  BY <1>0, <1>1
<1>9. heap'[c] = T /\ owner'[c] = "Lua"
  BY <1>0, <1>1
<1>10. <<T, 0>> \in OwnViews(T) /\ OwnViews(T) \subseteq Views(T) /\ T # Free
  BY OwnViewsType, ClassAssumption
<1>11. StandsForWhole(u)' /\ IsView(u)'
  <2>1. (heap[ud[u].ptr[1]])' = T /\ (<<ud[u].class, ud[u].ptr[2]>>)' = <<T, 0>>
    BY <1>5, <1>9
  <2>2. OwnViews(T)' = OwnViews(T) /\ Views(T)' = Views(T)
    BY DEF Views, OwnViews, At, Complete
  <2> QED
    BY <1>10, <2>1, <2>2 DEF StandsForWhole, IsView
<1>12. OwnInv'
  <2>1. ASSUME NEW v \in Ud, NEW d \in Cell
        PROVE  Deletes(v, d)' <=> (v = u /\ d = c) \/ Deletes(v, d)
    <3>1. CASE v = u
      BY <1>5, <1>6, <3>1 DEF Deletes
    <3>2. CASE v # u
      BY <1>4, <1>6, <3>2 DEF Deletes, Like
    <3> QED
      BY <3>1, <3>2
  <2>2. \A v : ~Deletes(v, c)
    BY <1>7 DEF Deletes
  <2>3. DeletesOnce'
    BY <1>0, <2>1, <2>2 DEF OwnInv, DeletesOnce
  <2>4. DeletesAll'
    BY <1>0, <1>8, <2>1 DEF OwnInv, DeletesAll
  <2>5. ASSUME NEW v \in Known', ud'[v].gc
        PROVE  /\ owner'[ud'[v].ptr[1]] = "Lua" /\ StandsForWhole(v)'
               /\ ud'[v].class \notin NoDestructor
               /\ ~program'.transfers => ud'[v].class = heap'[ud'[v].ptr[1]]
    <3>1. CASE v = u
      BY <1>1, <1>5, <1>9, <1>11, <3>1
    <3>2. CASE v # u
      <4>1. v \in Known /\ ud[v].gc /\ ud'[v].ptr = ud[v].ptr /\ ud'[v].class = ud[v].class
        BY <1>4, <1>6, <2>5, <3>2 DEF Like
      <4>2. ud[v].ptr[1] # c /\ ud[v].ptr[1] \in Cell
        BY <1>0, <1>7, <4>1, KnownType
      <4>3. heap'[ud[v].ptr[1]] = heap[ud[v].ptr[1]] /\ owner'[ud[v].ptr[1]] = owner[ud[v].ptr[1]]
        BY <1>8, <4>2
      <4> QED
        BY <1>0, <1>1, <4>1, <4>3, WholeKept DEF OwnInv, DeletesWhole
    <3> QED
      BY <3>1, <3>2
  <2> QED
    BY <2>3, <2>4, <2>5 DEF OwnInv, DeletesWhole
<1>13. ASSUME ~program.outlives
       PROVE  \A v \in Live : /\ v \in Ud /\ v # u /\ v \in Known
                              /\ ud[v].ptr[1] \in Cell /\ ud[v].ptr[1] # c
                              /\ ud'[v].ptr = ud[v].ptr /\ ud'[v].class = ud[v].class
                              /\ ud'[v].const = ud[v].const
  <2>1. SUFFICES ASSUME NEW v \in Live
                 PROVE  /\ v \in Ud /\ v # u /\ v \in Known
                        /\ ud[v].ptr[1] \in Cell /\ ud[v].ptr[1] # c /\ Like(ud'[v], ud[v])
    BY DEF Like
  <2>2. v \in Ud /\ v \in Known /\ ud[v].ptr[1] \in Cell
    BY <1>0, LiveType
  <2>3. IsView(v)
    BY <1>0, <1>13 DEF ViewInv
  <2> QED
    BY <1>1, <1>4, <1>6, <2>2, <2>3 DEF IsView
<1>14. ASSUME ~program.outlives
       PROVE  (\A v \in Live' : IsView(v)') /\ LastOfAll' /\ (Unrelated => Unrelated')
  <2>1. ASSUME NEW v \in Live'
        PROVE  IsView(v)'
    <3>1. CASE v = u
      BY <1>11, <3>1
    <3>2. CASE v # u
      <4>1. v \in Live /\ heap'[ud[v].ptr[1]] = heap[ud[v].ptr[1]]
        BY <1>6, <1>8, <1>13, <1>14, <2>1, <3>2
      <4> QED
        BY <1>0, <1>13, <1>14, <4>1, WholeKept DEF ViewInv
    <3> QED
      BY <3>1, <3>2
  <2>2. LastOfAll'
    <3>1. SUFFICES ASSUME NEW k \in Known', NEW v \in Live', ud'[k].gc, ud'[k].st = "dying"
                   PROVE  ud'[k].ptr[1] # ud'[v].ptr[1]
      BY DEF LastOfAll
    <3>2. k \in Known /\ k # u /\ ud[k].gc /\ ud[k].st = "dying" /\ ud'[k].ptr = ud[k].ptr
      BY <1>4, <1>6, <3>1 DEF Like
    <3>3. CASE v = u
      BY <1>5, <1>7, <3>2, <3>3
    <3>4. CASE v # u
      BY <1>0, <1>6, <1>13, <1>14, <3>1, <3>2, <3>4 DEF ViewInv, LastOfAll
    <3> QED
      BY <3>3, <3>4
  <2>3. Unrelated => Unrelated'
    <3>1. SUFFICES ASSUME Unrelated, NEW v \in Live', NEW w \in Live', v # w,
                          ud'[v].ptr = ud'[w].ptr
                   PROVE  ~Related(ud'[v].class, ud'[w].class)
      BY DEF Unrelated, Related, Complete
    <3>2. v # u /\ w # u
      BY <1>5, <1>6, <1>13, <1>14, <3>1
    <3>3. v \in Live /\ w \in Live
      BY <1>6, <3>1, <3>2
    <3> QED
      BY <1>13, <1>14, <3>1, <3>3 DEF Unrelated
  <2> QED
    BY <2>1, <2>2, <2>3
<1>15. ViewInv'
  <2>1. SingleInheritance(program.classes)' = SingleInheritance(program.classes)
    BY <1>1 DEF SingleInheritance, Views, OwnViews, At, Complete, Chain
  <2> QED
    BY <1>0, <1>1, <1>14, <2>1 DEF ViewInv
<1>16. ConstIsKept'
  <2>1. SUFFICES ASSUME ~program.outlives, NEW v \in Live', ~ud'[v].const
                 PROVE  ud'[v].ptr[1] \in given'
    BY <1>1 DEF ConstIsKept
  <2>2. CASE v = u
    BY <1>1, <1>5, <2>2
  <2>3. CASE v # u
    BY <1>0, <1>1, <1>6, <1>13, <2>1, <2>3 DEF ConstIsKept
  <2> QED
    BY <2>2, <2>3
<1> QED
  BY <1>4, <1>12, <1>15, <1>16 DEF IInv

LEMMA PushOK ==
  ASSUME IInv, NEW c \in Cell, NEW u \in Ud, NEW isConst \in BOOLEAN, NEW own \in Owner,
         Push(c, u, isConst, own)
  PROVE  IInv'
<1>0. WeakInv /\ OwnInv /\ ViewInv /\ ConstIsKept /\ TypeOK
  BY DEF IInv, WeakInv
<1>1. /\ heap[c] # Free /\ UNCHANGED <<program, heap>>
      /\ owner[c] = "Cpp" \/ \E k \in held : ud[k].gc /\ ud[k].ptr[1] = c
      /\ owner' = IF own = "No_change" THEN owner ELSE [owner EXCEPT ![c] = own]
      /\ given' = IF isConst THEN given ELSE given \cup {c}
  BY DEF Push
<1>2. PICK view \in Views(heap[c]) :
        /\ own # "No_change" => /\ program.transfers /\ view \in OwnViews(heap[c])
                                /\ view[1] \notin NoDestructor
        /\ PushPointer(u, view[1], <<c, view[2]>>, isConst, own)
  BY DEF Push
<1> DEFINE T == view[1]
           x == view[2]
<1>3. view = <<T, x>>
  <2>1. heap[c] \in Class
    BY <1>0, <1>1, ProgramFacts DEF TypeOK
  <2>2. view \in Class \X Nat
    BY <1>2, <2>1, OwnViewsType
  <2> QED
    BY <2>2
<1>4. <<T, x>> \in Views(heap[c]) /\ PushPointer(u, T, <<c, x>>, isConst, own)
  BY <1>2, <1>3
<1>5. own # "No_change" => /\ program.transfers /\ <<T, x>> \in OwnViews(heap[c])
                           /\ T \notin NoDestructor /\ own \in {"Cpp", "Lua"}
  BY <1>2, <1>3 DEF Owner
<1> HIDE DEF T, x
<1>6. HeapType'
  BY <1>0, <1>1, <1>5 DEF HeapType, TypeOK
<1>7. WeakInv' /\ Outcome(u, T, <<c, x>>, isConst, own)
  BY <1>0, <1>1, <1>4, <1>6, PushOutcome
<1>8. ViewInv' /\ ConstIsKept'
  BY <1>0, <1>1, <1>4, <1>7, PushViews
<1>9. OwnInv'
  <2>1. CASE own = "No_change"
    BY <1>0, <1>1, <1>4, <1>7, <2>1, PushOwnSame
  <2>2. CASE own # "No_change"
    <3>1. /\ program.transfers /\ <<T, x>> \in OwnViews(heap[c]) /\ T \notin NoDestructor
          /\ own \in {"Cpp", "Lua"}
      BY <1>5, <2>2
    <3>2. owner[c] = "Cpp" \/ \E k \in held : ud[k].gc /\ ud[k].ptr[1] = c
      BY <1>1
    <3>3. UNCHANGED <<program, heap>> /\ heap[c] # Free
      BY <1>1
    <3>4. owner'[c] = own /\ \A d \in Cell : d # c => owner'[d] = owner[d]
      BY <1>0, <1>1, <2>2 DEF TypeOK
    <3> QED
      BY <1>0, <1>7, <3>1, <3>2, <3>3, <3>4, PushOwnNew
  <2> QED
    BY <2>1, <2>2
<1> QED
  BY <1>7, <1>8, <1>9 DEF IInv

(* Lua passes the whole object of u to an owner.                            *)
LEMMA PassedOK ==
  ASSUME IInv, program.transfers, NEW u \in held, StandsForWhole(u),
         NEW own \in {"Cpp", "Lua"}, own = "Lua" => ud[u].class \notin NoDestructor,
         NEW gc \in BOOLEAN, gc <=> own = "Lua", ud' = [ud EXCEPT ![u].gc = gc],
         owner' = [owner EXCEPT ![ud[u].ptr[1]] = own],
         UNCHANGED <<program, heap, given, held, weak>>
  PROVE  IInv'
<1> DEFINE c == ud[u].ptr[1]
<1>0. /\ WeakInv /\ OwnInv /\ ViewInv /\ ConstIsKept /\ TypeOK /\ u \in Live
      /\ owner \in [Cell -> {"Cpp", "Lua"}] /\ ud \in [Ud -> {Dead} \cup Lua_ud]
  BY DEF IInv, WeakInv, TypeOK
<1>1. u \in Ud /\ u \in Known /\ ud[u] \in Lua_ud /\ c \in Cell
  BY <1>0, LiveType
<1>2. /\ ud' \in [Ud -> {Dead} \cup Lua_ud] /\ ud'[u].gc = gc
      /\ \A v \in Ud : /\ ud'[v].st = ud[v].st /\ ud'[v].ptr = ud[v].ptr
                       /\ ud'[v].class = ud[v].class /\ ud'[v].collision = ud[v].collision
                       /\ ud'[v].const = ud[v].const
                       /\ v # u => ud'[v] = ud[v]
  <2>1. ud'[u] = [ud[u] EXCEPT !.gc = gc]
    BY <1>0, <1>1
  <2>2. ud'[u] \in Lua_ud
    BY <1>1, <2>1 DEF Lua_ud
  <2> QED
    BY <1>0, <1>1, <2>1, <2>2 DEF Lua_ud
<1>3. Live' = Live /\ Known' = Known /\ \A v \in Known : v \in Ud
  BY <1>2 DEF Live, Known
<1>4. \A k \in Known : ud[k].gc /\ ud[k].ptr[1] = c => k = u
  BY <1>0, WholeIsOnly
<1> HIDE DEF c
<1>5. owner' = [owner EXCEPT ![c] = own] /\ ud[u].ptr[1] = c
  BY DEF c
<1>6. WeakInv'
  <2>1. RestType'
    BY <1>0, <1>1, <1>3, <1>5 DEF TypeOK, RestType
  <2> QED
    BY <1>0, <1>2, <2>1, WeakKept
<1>7. ASSUME NEW v \in Ud, NEW d \in Cell
      PROVE  Deletes(v, d)' <=> IF d = c THEN v = u /\ own = "Lua" ELSE Deletes(v, d)
  <2>1. CASE v = u
    BY <1>1, <1>2, <1>3, <1>5, <2>1 DEF Deletes
  <2>2. CASE v # u
    BY <1>2, <1>3, <1>4, <2>2 DEF Deletes
  <2> QED
    BY <2>1, <2>2
<1>8. OwnInv'
  <2>1. DeletesOnce'
    <3>1. SUFFICES ASSUME NEW v \in Ud, NEW w \in Ud, NEW d \in Cell, Deletes(v, d)', Deletes(w, d)'
                   PROVE  v = w
      BY DEF DeletesOnce
    <3>2. CASE d = c
      BY <1>7, <3>1, <3>2
    <3>3. CASE d # c
      BY <1>0, <1>7, <3>1, <3>3 DEF OwnInv, DeletesOnce
    <3> QED
      BY <3>2, <3>3
  <2>2. DeletesAll'
    <3>1. SUFFICES ASSUME NEW d \in Cell, heap'[d] # Free, owner'[d] = "Lua"
                   PROVE  \E v \in Ud : Deletes(v, d)'
      BY DEF DeletesAll
    <3>2. CASE d = c
      BY <1>0, <1>1, <1>5, <1>7, <3>1, <3>2
    <3>3. CASE d # c
      <4>1. PICK v \in Ud : Deletes(v, d)
        BY <1>0, <1>5, <3>1, <3>3 DEF OwnInv, DeletesAll
      <4> QED
        BY <1>7, <3>3, <4>1
    <3> QED
      BY <3>2, <3>3
  <2>3. ASSUME NEW v \in Known, ud'[v].gc
        PROVE  /\ owner'[ud[v].ptr[1]] = "Lua" /\ StandsForWhole(v)'
               /\ ud[v].class \notin NoDestructor
    <3>1. StandsForWhole(v) => StandsForWhole(v)'
      BY <1>2, <1>3, WholeKept
    <3>2. CASE v = u
      BY <1>0, <1>1, <1>2, <1>5, <2>3, <3>1, <3>2
    <3>3. CASE v # u
      <4>1. ud[v].gc /\ ud[v].ptr[1] # c /\ ud[v].ptr[1] \in Cell
        BY <1>0, <1>2, <1>3, <1>4, <2>3, <3>3, KnownType
      <4> QED
        BY <1>0, <1>5, <3>1, <4>1 DEF OwnInv, DeletesWhole
    <3> QED
      BY <3>2, <3>3
  <2>4. DeletesWhole'
    BY <1>2, <1>3, <2>3 DEF DeletesWhole
  <2> QED
    BY <2>1, <2>2, <2>4 DEF OwnInv
<1>9. \A v \in Live : v \in Ud
  BY DEF Live
<1>10. ViewInv'
  <2>1. ~program.outlives => LastOfAll'
    <3>1. SUFFICES ASSUME ~program.outlives, NEW k \in Known, NEW v \in Live,
                          ud'[k].gc, ud'[k].st = "dying"
                   PROVE  ud'[k].ptr[1] # ud'[v].ptr[1]
      BY <1>3 DEF LastOfAll
    <3>2. k # u
      BY <1>0, <1>1, <1>2, <3>1 DEF Live
    <3> QED
      BY <1>0, <1>2, <1>3, <1>9, <3>1, <3>2 DEF ViewInv, LastOfAll
  <2> QED
    BY <1>0, <1>2, <1>3, <1>9, <2>1, ViewKept
<1>11. ConstIsKept'
  BY <1>0, <1>2, <1>3, <1>9 DEF ConstIsKept
<1> QED
  BY <1>6, <1>8, <1>10, <1>11 DEF IInv

LEMMA AcquireOK ==
  ASSUME IInv, NEW u \in Ud, NEW T \in Class, Acquire(u, T)
  PROVE  IInv'
<1>1. /\ program.transfers /\ u \in held /\ StandsForWhole(u)
      /\ ud' = [ud EXCEPT ![u].gc = FALSE] /\ owner' = [owner EXCEPT ![ud[u].ptr[1]] = "Cpp"]
      /\ UNCHANGED <<program, heap, given, held, weak>>
  BY DEF Acquire
<1>2. "Cpp" \in {"Cpp", "Lua"} /\ "Cpp" # "Lua" /\ FALSE \in BOOLEAN /\ (FALSE <=> "Cpp" = "Lua")
  OBVIOUS
<1> QED
  BY <1>1, <1>2, PassedOK, Zenon

LEMMA SetOwnerOK ==
  ASSUME IInv, NEW u \in Ud, NEW own \in {"Cpp", "Lua"}, SetOwner(u, own)
  PROVE  IInv'
<1> DEFINE gc == own = "Lua"
<1>1. /\ program.transfers /\ u \in held /\ StandsForWhole(u) /\ ud[u].class \notin NoDestructor
      /\ ud' = [ud EXCEPT ![u].gc = gc] /\ owner' = [owner EXCEPT ![ud[u].ptr[1]] = own]
      /\ UNCHANGED <<program, heap, given, held, weak>>
  BY DEF SetOwner
<1>2. gc \in BOOLEAN /\ (gc <=> own = "Lua")
  OBVIOUS
<1> HIDE DEF gc
<1> QED
  BY <1>1, <1>2, PassedOK, Zenon

LEMMA DropOK ==
  ASSUME IInv, NEW u \in Ud, Drop(u)
  PROVE  IInv'
<1>0. WeakInv /\ OwnInv /\ ViewInv /\ ConstIsKept /\ TypeOK
  BY DEF IInv, WeakInv
<1>1. held' = held \ {u} /\ UNCHANGED <<program, heap, owner, given, ud, weak>>
  BY DEF Drop
<1>2. Live' = Live /\ Known' = Known
  BY <1>1 DEF Live, Known
<1>3. WeakInv'
  <2>1. RestType'
    BY <1>0, <1>1, <1>2 DEF TypeOK, RestType
  <2> QED
    BY <1>0, <1>1, <2>1, WeakKept DEF TypeOK
<1>4. OwnInv'
  <2>1. \A v, d : Deletes(v, d)' <=> Deletes(v, d)
    BY <1>1, <1>2 DEF Deletes
  <2>2. \A v \in Known : StandsForWhole(v)' <=> StandsForWhole(v)
    BY <1>1, WholeKept
  <2> QED
    BY <1>0, <1>1, <1>2, <2>1, <2>2 DEF OwnInv, DeletesWhole, DeletesOnce, DeletesAll
<1>5. ViewInv'
  <2>1. ~program.outlives => LastOfAll'
    BY <1>0, <1>1, <1>2 DEF ViewInv, LastOfAll
  <2> QED
    BY <1>0, <1>1, <1>2, <2>1, ViewKept
<1>6. ConstIsKept'
  BY <1>0, <1>1, <1>2 DEF ConstIsKept
<1> QED
  BY <1>3, <1>4, <1>5, <1>6 DEF IInv

LEMMA CollectOK ==
  ASSUME IInv, NEW S \in SUBSET Ud, Collect(S)
  PROVE  IInv'
<1>0. /\ WeakInv /\ OwnInv /\ ViewInv /\ ConstIsKept
      /\ TypeOK /\ FoundAgain /\ Marked /\ TablesReclaimed /\ ud \in [Ud -> {Dead} \cup Lua_ud]
  BY DEF IInv, WeakInv, TypeOK
<1>1. /\ S \subseteq Live \ held /\ UNCHANGED <<program, heap, owner, given, held>>
      /\ \/ program.outlives
         \/ \A u \in S : ud[u].gc => {v \in Live : ud[v].ptr[1] = ud[u].ptr[1]} \subseteq S
  BY DEF Collect
<1>2. /\ \A u \in Ud : u \in S => ud'[u] = [ud[u] EXCEPT !.st = "dying"]
      /\ \A u \in Ud : u \notin S => ud'[u] = ud[u]
      /\ DOMAIN ud' = Ud /\ ud' = [u \in Ud |-> ud'[u]]
  BY DEF Collect
<1>3. /\ ud' \in [Ud -> {Dead} \cup Lua_ud]
      /\ \A u \in Ud : u \in S => ud'[u].st = "dying"
      /\ \A u \in Known : /\ ud'[u].ptr = ud[u].ptr /\ ud'[u].class = ud[u].class
                          /\ ud'[u].gc = ud[u].gc /\ ud'[u].const = ud[u].const
                          /\ ud'[u].collision = ud[u].collision
  <2>1. ASSUME NEW u \in Ud, u \in S
        PROVE  /\ ud'[u] \in Lua_ud /\ ud'[u].st = "dying"
               /\ ud'[u].ptr = ud[u].ptr /\ ud'[u].class = ud[u].class
               /\ ud'[u].gc = ud[u].gc /\ ud'[u].const = ud[u].const
               /\ ud'[u].collision = ud[u].collision
    <3>1. ud[u] \in Lua_ud
      BY <1>0, <1>1, <2>1, LiveType
    <3> QED
      BY <1>2, <2>1, <3>1 DEF Lua_ud
  <2>2. \A u \in Known : u \in Ud
    BY DEF Known
  <2> QED
    BY <1>0, <1>2, <2>1, <2>2
<1>4. /\ Live' = Live \ S /\ Known' = Known
      /\ \A u \in Live : u \in Known /\ u \in Ud /\ (u \notin S => ud'[u] = ud[u])
      /\ \A u \in Known : u \in Ud
  <2>1. Live' = Live \ S
    BY <1>2, <1>3 DEF Live
  <2>2. Known' = Known
    <3>1. \A u \in S : u \in Known
      BY <1>1 DEF Live, Known, None
    <3> QED
      BY <1>2, <1>3, <3>1 DEF Known, None
  <2> QED
    BY <1>2, <2>1, <2>2 DEF Live, Known, None
<1>5. /\ \A a : a \in DOMAIN weak' <=> a \in DOMAIN weak /\ (weak[a].table \/ weak[a].uds \ S # {})
      /\ \A a \in DOMAIN weak' : /\ weak'[a].uds = weak[a].uds \ S
                                 /\ weak'[a].table = weak[a].table
  <2> DEFINE D == {a \in DOMAIN weak : weak[a].table \/ weak[a].uds \ S # {}}
  <2>1. weak' = [a \in D |-> [table |-> weak[a].table, uds |-> weak[a].uds \ S]]
    BY DEF Collect
  <2>2. ASSUME NEW a \in D
        PROVE  weak'[a].uds = weak[a].uds \ S /\ weak'[a].table = weak[a].table
    BY <2>1
  <2>3. \A a : a \in D <=> a \in DOMAIN weak /\ (weak[a].table \/ weak[a].uds \ S # {})
    OBVIOUS
  <2>4. DOMAIN weak' = D
    BY <2>1
  <2> HIDE DEF D
  <2> QED
    BY <2>2, <2>3, <2>4
<1>6. TypeOK'
  <2>1. ASSUME NEW a \in DOMAIN weak'
        PROVE  /\ weak'[a].table \in BOOLEAN /\ weak'[a].uds \subseteq Live'
               /\ weak'[a].table \/ \E u \in Live' : weak'[a].uds = {u}
    <3>1. /\ a \in DOMAIN weak /\ weak'[a].uds = weak[a].uds \ S
          /\ weak[a].table \in BOOLEAN /\ weak'[a].table = weak[a].table
          /\ weak[a].uds \subseteq Live
      BY <1>0, <1>5, <2>1 DEF TypeOK
    <3>2. CASE ~weak[a].table
      <4>1. PICK u \in Live : weak[a].uds = {u}
        BY <1>0, <3>1, <3>2 DEF TypeOK
      <4>2. u \notin S
        BY <1>5, <2>1, <3>2, <4>1
      <4> QED
        BY <1>4, <3>1, <4>1, <4>2
    <3> QED
      BY <1>4, <3>1, <3>2
  <2> QED
    BY <1>0, <1>1, <1>3, <1>4, <2>1 DEF TypeOK
<1>7. ASSUME NEW u \in Live'
      PROVE  Found(u)' = Found(u)
  <2>1. u \notin S
    BY <1>4
  <2> QED
    BY <1>5, <2>1 DEF Found
<1>8. FoundAgain'
  <2>1. ASSUME NEW u \in Live'
        PROVE  Found(u)' = Addresses(ud'[u].class, ud'[u].ptr)
    <3>1. u \in Live /\ ud'[u] = ud[u]
      BY <1>4, <2>1
    <3> QED
      BY <1>0, <1>7, <2>1, <3>1 DEF FoundAgain, Found
  <2> QED
    BY <2>1 DEF FoundAgain, Found, Addresses, Complete, At
<1>9. Marked'
  <2>1. SUFFICES ASSUME NEW a \in DOMAIN weak', weak'[a].table, NEW u \in weak'[a].uds
                 PROVE  ud'[u].collision
    BY DEF Marked
  <2>2. a \in DOMAIN weak /\ weak[a].table /\ u \in weak[a].uds
    BY <1>5, <2>1
  <2>3. u \in Known /\ ud[u].collision
    BY <1>0, <1>4, <2>2 DEF TypeOK, Marked
  <2> QED
    BY <1>3, <2>3
<1>10. TablesReclaimed'
  <2>1. SUFFICES ASSUME NEW a \in DOMAIN weak', weak'[a].uds = {}
                 PROVE  \E w \in Ud : ud'[w].st = "dying" /\ a \in Cleaned(w)'
    BY DEF TablesReclaimed
  <2>2. a \in DOMAIN weak /\ weak[a].table /\ weak'[a].table /\ weak[a].uds \subseteq S
    BY <1>5, <2>1
  <2>3. ASSUME NEW w \in Known, ud'[w].st = "dying", ud[w].collision,
               a \in Addresses(ud[w].class, ud[w].ptr)
        PROVE  w \in Ud /\ ud'[w].st = "dying" /\ a \in Cleaned(w)'
    <3>1. (IsTable(a) /\ Uds(a) = {})'
      BY <2>1, <2>2 DEF IsTable, Uds
    <3>2. (ud[w].collision /\ a \in Addresses(ud[w].class, ud[w].ptr))'
      BY <1>3, <2>3 DEF Addresses, Complete, At
    <3> QED
      BY <1>4, <2>3, <3>1, <3>2 DEF Cleaned
  <2>4. CASE weak[a].uds = {}
    <3>1. PICK w \in Ud : ud[w].st = "dying" /\ a \in Cleaned(w)
      BY <1>0, <2>2, <2>4 DEF TablesReclaimed
    <3>2. w \in Known /\ w \notin Live
      BY <3>1 DEF Known, Live, None
    <3>3. ud'[w] = ud[w]
      BY <1>1, <1>2, <3>1, <3>2
    <3>4. ud[w].collision /\ a \in Addresses(ud[w].class, ud[w].ptr)
      BY <3>1 DEF Cleaned
    <3> QED
      BY <2>3, <3>1, <3>2, <3>3, <3>4
  <2>5. CASE weak[a].uds # {}
    <3>1. PICK w : w \in weak[a].uds
      BY <2>5
    <3>2. w \in S /\ w \in Live /\ w \in Known /\ w \in Ud /\ ud[w].collision
      BY <1>0, <1>1, <1>4, <2>2, <3>1 DEF Marked
    <3>3. a \in Addresses(ud[w].class, ud[w].ptr)
      BY <1>0, <2>2, <3>1, FoundAt DEF Uds
    <3> QED
      BY <1>3, <2>3, <3>2, <3>3
  <2> QED
    BY <2>4, <2>5
<1>11. OwnInv'
  <2>1. \A v, d : Deletes(v, d)' <=> Deletes(v, d)
    BY <1>3, <1>4 DEF Deletes
  <2>2. \A v \in Known : StandsForWhole(v)' <=> StandsForWhole(v)
    BY <1>1, <1>3, WholeKept
  <2>3. DeletesWhole'
    BY <1>0, <1>1, <1>3, <1>4, <2>2 DEF OwnInv, DeletesWhole
  <2>4. DeletesOnce' /\ DeletesAll'
    BY <1>0, <1>1, <2>1 DEF OwnInv, DeletesOnce, DeletesAll
  <2> QED
    BY <2>3, <2>4 DEF OwnInv
<1>12. ViewInv'
  <2>1. ASSUME ~program.outlives
        PROVE  LastOfAll'
    <3>1. SUFFICES ASSUME NEW k \in Known, NEW v \in Live, v \notin S, ud[k].gc, ud'[k].st = "dying"
                   PROVE  ud[k].ptr[1] # ud[v].ptr[1]
      BY <1>3, <1>4 DEF LastOfAll
    <3>2. CASE k \in S
      <4>1. {w \in Live : ud[w].ptr[1] = ud[k].ptr[1]} \subseteq S
        BY <1>1, <2>1, <3>1, <3>2
      <4> QED
        BY <3>1, <4>1
    <3>3. CASE k \notin S
      <4>1. ud[k].st = "dying"
        BY <1>2, <1>4, <3>1, <3>3
      <4> QED
        BY <1>0, <2>1, <3>1, <4>1 DEF ViewInv, LastOfAll
    <3> QED
      BY <3>2, <3>3
  <2> QED
    BY <1>0, <1>1, <1>3, <1>4, <2>1, ViewKept
<1>13. ConstIsKept'
  BY <1>0, <1>1, <1>4 DEF ConstIsKept
<1> QED
  BY <1>6, <1>8, <1>9, <1>10, <1>11, <1>12, <1>13 DEF IInv, WeakInv

LEMMA FinalizeOK ==
  ASSUME IInv, NEW u \in Ud, Finalize(u)
  PROVE  IInv'
<1>0. /\ WeakInv /\ OwnInv /\ ViewInv /\ ConstIsKept
      /\ TypeOK /\ FoundAgain /\ Marked /\ TablesReclaimed
      /\ ud \in [Ud -> {Dead} \cup Lua_ud] /\ heap \in [Cell -> program.classes \cup {Free}]
  BY DEF IInv, WeakInv, TypeOK
<1> DEFINE c == ud[u].ptr[1]
<1>1. /\ ud[u].st = "dying" /\ u \in Known /\ u \notin Live /\ c \in Cell
      /\ ud' = [ud EXCEPT ![u] = Dead]
      /\ weak' = [a \in DOMAIN weak \ Cleaned(u) |-> weak[a]]
      /\ UNCHANGED <<program, owner, given, held>>
  <2>1. ud[u].st = "dying"
    BY DEF Finalize
  <2>2. u \in Known /\ u \notin Live
    BY <2>1 DEF Known, Live, None
  <2> QED
    BY <1>0, <2>1, <2>2, KnownType DEF Finalize
<1>2. heap' = IF ud[u].gc THEN [heap EXCEPT ![c] = Free] ELSE heap
  <2>1. ud[u].gc => ud[u].class \notin NoDestructor
    BY <1>0, <1>1 DEF OwnInv, DeletesWhole
  <2> QED
    BY <2>1 DEF Finalize
<1>3. /\ ud' \in [Ud -> {Dead} \cup Lua_ud] /\ ud'[u] = Dead
      /\ \A v \in Ud : v # u => ud'[v] = ud[v]
  BY <1>0, <1>1
<1>4. Live' = Live /\ Known' = Known \ {u} /\ \A v \in Known : v \in Ud
  BY <1>1, <1>3 DEF Live, Known, Dead, None
<1>5. \A v \in Live : v \in Known /\ v # u /\ ud'[v] = ud[v]
  BY <1>1, <1>3 DEF Live, Known, None
<1>6. /\ heap' \in [Cell -> program.classes \cup {Free}]
      /\ \A d \in Cell : ~(ud[u].gc /\ d = c) => heap'[d] = heap[d]
      /\ ud[u].gc => heap'[c] = Free
  BY <1>0, <1>1, <1>2
<1>7. /\ \A a : a \in DOMAIN weak' <=> a \in DOMAIN weak /\ a \notin Cleaned(u)
      /\ \A a \in DOMAIN weak' : weak'[a] = weak[a]
  BY <1>1
<1>8. TypeOK'
  BY <1>0, <1>1, <1>3, <1>4, <1>6, <1>7 DEF TypeOK
<1>9. FoundAgain'
  <2>1. ASSUME NEW v \in Live
        PROVE  Found(v)' = Addresses(ud'[v].class, ud'[v].ptr)
    <3>1. \A a \in Cleaned(u) : v \notin Uds(a)
      BY DEF Cleaned
    <3>2. Found(v)' = Found(v)
      BY <1>7, <3>1 DEF Found, Uds
    <3> QED
      BY <1>0, <1>5, <2>1, <3>2 DEF FoundAgain, Found
  <2> QED
    BY <1>4, <2>1 DEF FoundAgain, Found, Addresses, Complete, At
<1>10. Marked'
  <2>1. SUFFICES ASSUME NEW a \in DOMAIN weak', weak'[a].table, NEW v \in weak'[a].uds
                 PROVE  ud'[v].collision
    BY DEF Marked
  <2>2. a \in DOMAIN weak /\ weak[a].table /\ v \in weak[a].uds
    BY <1>7, <2>1
  <2>3. v \in Live /\ ud[v].collision
    BY <1>0, <2>2 DEF TypeOK, Marked
  <2> QED
    BY <1>5, <2>3
<1>11. TablesReclaimed'
  <2>1. SUFFICES ASSUME NEW a \in DOMAIN weak', weak'[a].uds = {}
                 PROVE  \E w \in Ud : ud'[w].st = "dying" /\ a \in Cleaned(w)'
    BY DEF TablesReclaimed
  <2>2. a \in DOMAIN weak /\ a \notin Cleaned(u) /\ weak'[a] = weak[a] /\ weak[a].uds = {}
    BY <1>7, <2>1
  <2>3. PICK w \in Ud : ud[w].st = "dying" /\ a \in Cleaned(w)
    BY <1>0, <2>2 DEF TablesReclaimed
  <2>4. w # u /\ ud'[w] = ud[w]
    BY <1>3, <2>2, <2>3
  <2>5. ud[w].collision /\ a \in Addresses(ud[w].class, ud[w].ptr) /\ IsTable(a) /\ Uds(a) = {}
    BY <2>3 DEF Cleaned
  <2>6. (IsTable(a) /\ Uds(a) = {})'
    BY <2>1, <2>2, <2>5 DEF IsTable, Uds
  <2>7. (ud[w].collision /\ a \in Addresses(ud[w].class, ud[w].ptr))'
    BY <2>4, <2>5 DEF Addresses, Complete, At
  <2>8. a \in Cleaned(w)'
    BY <2>6, <2>7 DEF Cleaned
  <2> QED
    BY <2>3, <2>4, <2>8
<1>12. \A v \in Known : v # u /\ ud[v].gc => ~(ud[u].gc /\ ud[v].ptr[1] = c)
  BY <1>0, <1>1, <1>4 DEF OwnInv, DeletesOnce, Deletes
<1> HIDE DEF c
<1>13. OwnInv'
  <2>1. ASSUME NEW v \in Ud, NEW d
        PROVE  Deletes(v, d)' <=> v # u /\ Deletes(v, d)
    BY <1>3, <1>4 DEF Deletes
  <2>2. DeletesOnce'
    BY <1>0, <2>1 DEF OwnInv, DeletesOnce
  <2>3. DeletesAll'
    <3>1. SUFFICES ASSUME NEW d \in Cell, heap'[d] # Free, owner[d] = "Lua"
                   PROVE  \E v \in Ud : Deletes(v, d)'
      BY <1>1 DEF DeletesAll
    <3>2. heap[d] # Free /\ ~(ud[u].gc /\ d = c)
      BY <1>6, <3>1
    <3>3. PICK v \in Ud : Deletes(v, d)
      BY <1>0, <3>1, <3>2 DEF OwnInv, DeletesAll
    <3>4. v # u
      BY <3>2, <3>3 DEF Deletes, c
    <3> QED
      BY <2>1, <3>3, <3>4
  <2>4. ASSUME NEW v \in Known, v # u, ud[v].gc
        PROVE  /\ owner[ud[v].ptr[1]] = "Lua" /\ StandsForWhole(v)'
               /\ ud[v].class \notin NoDestructor
               /\ ~program.transfers => ud[v].class = heap'[ud[v].ptr[1]]
    <3>1. ud[v].ptr[1] \in Cell /\ v \in Ud
      BY <1>0, KnownType
    <3>2. heap'[ud[v].ptr[1]] = heap[ud[v].ptr[1]] /\ ud'[v] = ud[v]
      BY <1>3, <1>6, <1>12, <2>4, <3>1
    <3> QED
      BY <1>0, <2>4, <3>2, WholeKept DEF OwnInv, DeletesWhole
  <2>5. DeletesWhole'
    BY <1>1, <1>3, <1>4, <2>4 DEF DeletesWhole
  <2> QED
    BY <2>2, <2>3, <2>5 DEF OwnInv
<1>14. ViewInv'
  <2>1. ASSUME ~program.outlives
        PROVE  LastOfAll' /\ \A v \in Live : heap'[ud[v].ptr[1]] = heap[ud[v].ptr[1]]
    <3>1. LastOfAll
      BY <1>0, <2>1 DEF ViewInv
    <3>2. LastOfAll'
      BY <1>3, <1>4, <1>5, <3>1 DEF LastOfAll
    <3>3. \A v \in Live : ud[v].ptr[1] \in Cell
      BY <1>0, LiveType
    <3>4. \A v \in Live : ~(ud[u].gc /\ ud[v].ptr[1] = c)
      BY <1>1, <3>1 DEF LastOfAll, c
    <3> QED
      BY <1>6, <3>2, <3>3, <3>4
  <2> QED
    BY <1>0, <1>1, <1>4, <1>5, <2>1, ViewKept
<1>15. ConstIsKept'
  BY <1>0, <1>1, <1>4, <1>5 DEF ConstIsKept
<1> QED
  BY <1>8, <1>9, <1>10, <1>11, <1>13, <1>14, <1>15 DEF IInv, WeakInv

-----------------------------------------------------------------------------
(* The theorems.                                                            *)

LEMMA NextOK ==
  ASSUME IInv, [Next]_vars
  PROVE  IInv'
<1>1. CASE UNCHANGED vars
  <2>1. UNCHANGED <<program, heap, owner, given, ud, held, weak>>
    BY <1>1 DEF vars
  <2>2. \A T, a : Addresses(T, a)' = Addresses(T, a)
    BY DEF Addresses, At, Complete
  <2>3. WeakInv'
    <3>1. RestType'
      BY <2>1 DEF IInv, WeakInv, TypeOK, RestType, Live
    <3> QED
      BY <2>1, <3>1, WeakKept DEF IInv, WeakInv, TypeOK
  <2>4. Live' = Live /\ Known' = Known
    BY <2>1 DEF Live, Known
  <2>5. OwnInv'
    <3>1. \A v, d : Deletes(v, d)' <=> Deletes(v, d)
      BY <2>1, <2>4 DEF Deletes
    <3>2. \A v \in Known : StandsForWhole(v)' <=> StandsForWhole(v)
      BY <2>1, WholeKept
    <3> QED
      BY <2>1, <2>4, <3>1, <3>2 DEF IInv, OwnInv, DeletesWhole, DeletesOnce, DeletesAll
  <2>6. ViewInv'
    <3>1. ~program.outlives => LastOfAll'
      BY <2>1, <2>4 DEF IInv, ViewInv, LastOfAll
    <3> QED
      BY <2>1, <2>4, <3>1, ViewKept DEF IInv
  <2>7. ConstIsKept'
    BY <2>1, <2>4 DEF IInv, ConstIsKept
  <2> QED
    BY <2>3, <2>5, <2>6, <2>7 DEF IInv
<1>2. CASE \E c \in Cell, T \in Class : CppNew(c, T)
  BY <1>2, CppNewOK
<1>3. CASE \E c \in Cell : CppDelete(c)
  BY <1>3, CppDeleteOK
<1>4. CASE \E c \in Cell, T \in Class, u \in Ud : LuaNew(c, T, u)
  BY <1>4, LuaNewOK
<1>5. CASE \E c \in Cell, u \in Ud, k \in BOOLEAN, own \in Owner : Push(c, u, k, own)
  BY <1>5, PushOK
<1>6. CASE \E u \in Ud, T \in Class : Acquire(u, T)
  BY <1>6, AcquireOK
<1>7. CASE \E u \in Ud, own \in {"Cpp", "Lua"} : SetOwner(u, own)
  BY <1>7, SetOwnerOK
<1>8. CASE \E u \in Ud : Drop(u)
  BY <1>8, DropOK
<1>9. CASE \E S \in SUBSET Ud : Collect(S)
  BY <1>9, CollectOK
<1>10. CASE \E u \in Ud : Finalize(u)
  BY <1>10, FinalizeOK
<1> QED
  BY <1>1, <1>2, <1>3, <1>4, <1>5, <1>6, <1>7, <1>8, <1>9, <1>10 DEF Next

LEMMA Invariance == Spec => []IInv
<1>1. Init => IInv
  BY InitOK
<1>2. IInv /\ [Next]_vars => IInv'
  BY NextOK
<1> QED
  BY <1>1, <1>2, PTL DEF Spec

(* Whatever is pushed, collected and built in the place of what is gone,    *)
(* the weak table finds each live userdata, at the address of its object    *)
(* and of each base, and keeps nothing for the others.                      *)
THEOREM ProxyCorrect == Spec => []ProxyInv
<1>1. IInv => ProxyInv
  BY DEF IInv, WeakInv, ProxyInv
<1> QED
  BY <1>1, Invariance, PTL

(* The objects Lua owns are deleted by one __gc each, and no others are.    *)
THEOREM OwnerCorrect == Spec => []OneOwner
<1>1. IInv => OneOwner
  <2>1. SUFFICES ASSUME OwnInv PROVE OneOwner
    BY DEF IInv
  <2>2. ASSUME NEW c \in Cell, heap[c] # Free, owner[c] = "Lua"
        PROVE  \E u \in Known : {v \in Known : ud[v].gc /\ ud[v].ptr[1] = c} = {u}
    <3>1. PICK u \in Ud : Deletes(u, c)
      BY <2>1, <2>2 DEF OwnInv, DeletesAll
    <3>2. u \in Known /\ ud[u].gc /\ ud[u].ptr[1] = c
      BY <3>1 DEF Deletes
    <3>3. \A v \in Known : ud[v].gc /\ ud[v].ptr[1] = c => v = u
      <4>1. SUFFICES ASSUME NEW v \in Known, ud[v].gc /\ ud[v].ptr[1] = c PROVE v = u
        OBVIOUS
      <4>2. v \in Ud /\ Deletes(v, c)
        BY <4>1 DEF Deletes, Known
      <4> QED
        BY <2>1, <3>1, <4>2 DEF OwnInv, DeletesOnce
    <3> QED
      BY <3>2, <3>3
  <2> QED
    BY <2>1, <2>2 DEF OneOwner, OwnInv, DeletesWhole
<1> QED
  BY <1>1, Invariance, PTL

(* Where a class has one base and no object is outlived, an object is one   *)
(* Lua value, in whatever order it and its bases are pushed.                *)
THEOREM UserdataCorrect == Spec => []OneUserdata
<1>1. IInv => OneUserdata
  <2>1. SUFFICES ASSUME IInv, ~program.outlives, SingleInheritance(program.classes),
                        NEW u \in Live, NEW v \in Live, u # v,
                        ud[v].class \in Complete(ud[u].class)
                 PROVE  ud[v].ptr # At(ud[u].class, ud[u].ptr, ud[v].class)
    BY DEF OneUserdata
  <2>2. WeakInv /\ ViewInv /\ Unrelated /\ TypeOK /\ FoundAgain
    BY <2>1 DEF IInv, WeakInv, ViewInv
  <2>3. Chain(ud[u].class) /\ ud[u].class \in Class /\ ud[u].ptr \in Address
    BY <2>1, <2>2, ChainFound, LiveType DEF TypeOK
  <2>4. At(ud[u].class, ud[u].ptr, ud[v].class) = ud[u].ptr
    BY <2>1, <2>3, ChainAddresses
  <2>5. ud[u].ptr # ud[v].ptr
    BY <2>1, <2>2 DEF Unrelated, Related
  <2> QED
    BY <2>4, <2>5
<1> QED
  BY <1>1, Invariance, PTL

(* Where no object is outlived, Lua may change only what was pushed without *)
(* const.                                                                   *)
THEOREM ConstCorrect == Spec => []ConstIsKept
<1>1. IInv => ConstIsKept
  BY DEF IInv
<1> QED
  BY <1>1, Invariance, PTL
=============================================================================

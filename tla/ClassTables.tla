---------------------------- MODULE ClassTables ----------------------------
(***************************************************************************)
(* How OOLua gives a C++ class to Lua (oolua_registration.h): a table of    *)
(* its functions, which is also the global of the class' name, and the      *)
(* metatable of its objects, kept in the registry under the same name.      *)
(*                                                                          *)
(* register_class fills the tables of a class and of all its bases, and of  *)
(* each class once; the functions of the bases are copied into the table of *)
(* the derived class.  What a script or the host adds to a base later is    *)
(* found through the bases' globals when it is looked up (Base_looker).     *)
(* Scripts may add functions to a class and replace its global.             *)
(*                                                                          *)
(* A table is a function from names to values <<kind, class>>.              *)
(***************************************************************************)
EXTENDS ClassHierarchy

VARIABLES
  methods,    \* registered class -> its table of functions
  meta,       \* registered class -> the metatable of its objects
  global,     \* what the class' name holds: "nil" (no table), "methods", "table"
  added       \* history: the <<class, name>> that scripts or the host have set

vars == <<methods, meta, global, added>>

Registered == DOMAIN methods

TypeOK ==
  /\ DOMAIN meta = Registered /\ Registered \subseteq Classes
  /\ \A C \in Registered : DOMAIN methods[C] \subseteq Names
  /\ global \in [Classes -> {"nil", "methods", "table"}]

Empty == [n \in {} |-> {}]

\* The table f, and g where f has no entry.
Over(f, g) == [x \in DOMAIN f \cup DOMAIN g |-> IF x \in DOMAIN f THEN f[x] ELSE g[x]]

Init ==
  /\ methods = Empty /\ meta = Empty
  /\ global = [C \in Classes |-> "nil"]
  /\ added = {}

\* Mutant: a block of tags holds for the derived classes that have none.
HasInheritedTag(C, tag) ==
  \E B \in {C} \cup DirectBases(C) : B \in DOMAIN Tags /\ tag \in Tags[B]

\* has_tag: the block that C++ finds by name may be that of a base, and then it is
\* not the class' own.
HasTag(C, tag) == C \in DOMAIN Tags /\ tag \in Tags[C]

HasNoNew(C) == HasTag(C, "Abstract") \/ HasTag(C, "No_public_constructors")

\* The functions a class exports: one member_caller for each name.
Members(C) == [n \in Methods[C] |-> <<"member", C>>]

\* Register_base_methods: base after base, each followed by its own bases; what
\* is set later takes the name.
Exporter[C \in Classes] ==
  [n \in Exported(AllBases[C]) |->
     LET offering == {i \in DOMAIN Bases[C] : n \in Exported(Hierarchy(Bases[C][i]))}
         B == Bases[C][CHOOSE i \in offering : \A j \in offering : i >= j]
     IN  IF n \in Exported(AllBases[B]) THEN Exporter[B][n] ELSE B]

Inherited(C) == [n \in Exported(AllBases[C]) |-> <<"member", Exporter[C][n]>>]

\* set_create_function, set_owner_function: a class has them unless a tag of its
\* own forbids it.
OwnFunctions(C) ==
  [n \in (IF HasNoNew(C) THEN {} ELSE {"new"})
           \cup (IF HasTag(C, "No_public_destructor") THEN {} ELSE {"set_owner"}) |-> <<n, C>>]

\* What register_class_imp puts into the table of functions.
MethodTable(C) == Over(Inherited(C), Over(Members(C), OwnFunctions(C)))

OperatorNames ==
  [Equal_op |-> "__eq", Less_op |-> "__lt", Less_equal_op |-> "__le", Add_op |-> "__add",
   Sub_op |-> "__sub", Mul_op |-> "__mul", Div_op |-> "__div"]

\* set_equal_function and its like: an operator for each tag.
OperatorsOf(C) ==
  [n \in {OperatorNames[t] : t \in {t \in DOMAIN OperatorNames : HasTag(C, t)}} |->
     <<"operator", C>>]

\* set_delete_function: the collector of objects of the class.
CollectorOf(C) ==
  [n \in {"__gc"} |->
     <<IF HasTag(C, "No_public_destructor") THEN "gc_no_destructor" ELSE "gc", C>>]

MetaTable(C) == Over(OperatorsOf(C), CollectorOf(C))

\* register_class: the class and its bases; one that the registry knows is left
\* as it is, with everything that was added to it.
register_class(C) ==
  LET new == Hierarchy(C) \ Registered
  IN  /\ methods' = Over(methods, [D \in new |-> MethodTable(D)])
      /\ meta' = Over(meta, [D \in new |-> MetaTable(D)])
      /\ global' = [D \in Classes |-> IF D \in new THEN "methods" ELSE global[D]]
      /\ UNCHANGED added

\* table[n] = <<kind, C>>.
Put(tables, C, n, kind) == [tables EXCEPT ![C] = Over([m \in {n} |-> <<kind, C>>], @)]

\* Table(vm, name): the table of the class' name is the global's or, if that is
\* none, the registry's, which is the metatable.
TableOf(C) ==
  CASE global[C] # "nil" -> global[C]
    [] global[C] = "nil" /\ C \in Registered -> "meta"
    [] OTHER -> "none"

\* register_class_static: a table that a script put there takes the value, and with
\* no table at all nothing happens.
register_class_static(C, n) ==
  /\ methods' = IF TableOf(C) = "methods" THEN Put(methods, C, n, "static") ELSE methods
  /\ added' = IF TableOf(C) = "methods" THEN added \cup {<<C, n>>} ELSE added
  /\ meta' = IF TableOf(C) = "meta" THEN Put(meta, C, n, "static") ELSE meta
  /\ UNCHANGED global

\* A script assigns a function to a member of an object: __newindex is the table
\* of functions, whatever the global holds.
ScriptAdds(C, n) ==
  /\ C \in Registered
  /\ methods' = Put(methods, C, n, "lua")
  /\ added' = added \cup {<<C, n>>}
  /\ UNCHANGED <<meta, global>>

\* A script assigns to the global of the class' name.
ScriptReplaces(C) ==
  /\ \E g \in {"nil", "table"} : global' = [global EXCEPT ![C] = g]
  /\ UNCHANGED <<methods, meta, added>>

Next ==
  \E C \in Classes :
    \/ register_class(C)
    \/ \E n \in Added : register_class_static(C, n) \/ ScriptAdds(C, n)
    \/ ScriptReplaces(C)

Spec == Init /\ [][Next]_vars

-----------------------------------------------------------------------------
Nil == <<"nil">>

\* An error of Lua: the global of a base is indexed and is none.
Error == <<"error">>

\* search_in_base_classes_yet_prevent_new: `new` is not looked for in the bases
\* of a class that has none.
SearchesBases(C, n) == n = "new" => ~HasNoNew(C)

\* What indexing an object of C, or the table of C, by a name gives: the table's
\* own entry or the first that a base's global has.
Lookup[C \in Classes] ==
  [n \in Names |->
     LET Answer(B) == CASE global[B] = "nil" -> Error
                        [] global[B] = "table" -> Nil
                        [] OTHER -> Lookup[B][n]
         answering == {i \in DOMAIN Bases[C] : Answer(Bases[C][i]) # Nil}
     IN  IF n \in DOMAIN methods[C] THEN methods[C][n]
         ELSE IF ~SearchesBases(C, n) \/ answering = {} THEN Nil
         ELSE Answer(Bases[C][CHOOSE i \in answering : \A j \in answering : i <= j])]

\* Every function that a class or one of its bases exports can be called on it,
\* whatever scripts did to the globals and in whatever order the classes were
\* registered.
MembersStay ==
  \A C \in Registered : \A D \in Hierarchy(C) :
    \A n \in Methods[D] : Lookup[C][n][1] \in {"member", "static", "lua"}

\* A class is constructed by its own constructor or, with a tag of its own, not at
\* all: "the type will not be constructable from Lua" (proxy_tags.h), and no way
\* round leads to the constructor of a base.
OwnConstructor ==
  LET tagged == {C \in DOMAIN Tags : Tags[C] \cap {"Abstract", "No_public_constructors"} # {}}
  IN  \A C \in Registered : Lookup[C]["new"] = IF C \in tagged THEN Nil ELSE <<"new", C>>

\* What was added to a class stays there, however often it is registered again, and
\* is found on its derived classes while scripts leave the globals alone, unless such
\* a class has a function of the name by itself.
AdditionsStay ==
  \A a \in added : \A C \in Registered :
    \/ a[1] \notin Hierarchy(C)
    \/ C # a[1] /\ \E D \in AllBases[C] : global[D] # "methods"
    \/ C # a[1] /\ a[2] \in Exported(Hierarchy(C))
    \/ Lookup[C][a[2]][1] \in {"static", "lua"}

\* Lookup finds what the hierarchy declares, what was added to it, and nothing that
\* a tag withholds.
LookupIsSound ==
  TypeOK /\ MembersStay /\ OwnConstructor /\ AdditionsStay
=============================================================================

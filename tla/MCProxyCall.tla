---------------------------- MODULE MCProxyCall ----------------------------
(* An instance of ProxyCall: functions with every trait on the types it may *)
(* be used with, two parameters at a time, and constructor blocks, two of  *)
(* them with parameters that are tested for more than is pulled.           *)
EXTENDS ProxyCall, CppTypes

CONSTANTS u1, k1

(* Every type with at most one pointer, and every one with two.             *)
Declarators(stars) ==
  {c \o p \o r : c \in {<< >>, <<"const">>}, r \in {<< >>, <<"&">>},
                 p \in IF stars = 1 THEN {<< >>, <<"*">>, <<"*", "const">>}
                       ELSE {<<"*", "*">>, <<"*", "const", "*">>, <<"*", "const", "*", "const">>}}
Types(stars) == [base : {"class"}, mods : Declarators(stars)]
Has(t, m) == \E i \in DOMAIN t.mods : t.mods[i] = m

(* The traits agree on what a type is: for types of at most one pointer     *)
(* is_const asks whether what is referred to is const, and raw_type is the  *)
(* base.  With two pointers raw_type may still have declarators: no         *)
(* function here takes such a type.                                         *)
ASSUME TraitsAgree ==
  /\ \A t \in Types(1) :
       /\ is_const(t) = (t.mods # << >> /\ t.mods[1] = "const")
       /\ by_value(t) = ~(Has(t, "*") \/ Has(t, "&"))
       /\ raw_type(t) = [base |-> "class", mods |-> << >>]
  /\ \E t \in Types(2) : raw_type(t).mods # << >>

(* A parameter declared as a C++ type.                                      *)
Declared(trait, t) ==
  [trait |-> trait, raw |-> raw_type(t).base, const |-> is_const(t),
   ind |-> CASE by_value(t) -> "T"
             [] is_ref(t) -> IF is_ptr(remove_all_const(remove_ref(t))) THEN "T*&" ELSE "T&"
             [] OTHER -> "T*"]
P(trait, raw, ind, const) ==
  Declared(trait, [base |-> raw,
                   mods |-> (IF const THEN <<"const">> ELSE << >>) \o
                            CASE ind = "T" -> << >>
                              [] ind = "T&" -> <<"&">>
                              [] ind = "T*" -> <<"*">>
                              [] ind = "T*&" -> <<"*", "&">>])
State == P("calling_lua_state", "int", "T", FALSE)

Number == [t |-> "number"]
Object == [t |-> "userdata", u |-> u1]
ConstObject == [t |-> "userdata", u |-> k1]

MCUd == {u1, k1}
MCConstUd == {k1}

Inputs ==
  {P("in_p", "int", "T", FALSE), P("in_p", "class", "T&", FALSE),
   P("in_p", "class", "T", FALSE), P("light_p", "void*", "T", FALSE), State}
InOuts ==
  {P("in_out_p", "int", "T&", FALSE), P("in_out_p", "int", "T*", FALSE),
   P("in_out_p", "class", "T*&", FALSE), P("in_out_p", "class", "T*&", TRUE),
   P("in_out_p", "class", "T&", TRUE)}
Outputs ==
  {P("out_p", "int", "T*", FALSE), P("out_p", "class", "T&", FALSE),
   P("lua_out_p", "class", "T*&", FALSE), P("lua_out_p", "class", "T*&", TRUE)}
Acquired == P("cpp_in_p", "class", "T*", FALSE)

R(trait, raw, ind) == [trait |-> trait, raw |-> raw, ind |-> ind, const |-> FALSE]
Void == R("void", "int", "T")
Returns ==
  {Void, R("function_return", "class", "T"), R("function_return", "int", "T"),
   R("lua_return", "class", "T*"), R("light_return", "void*", "T"),
   R("maybe_null", "class", "T*"), R("maybe_null<lua_return>", "class", "T*")}

CallFunctions ==
  {[self |-> "none", ret |-> r, params |-> <<p, q>>] :
     r \in {Void, R("maybe_null", "class", "T*")},
     p, q \in Inputs \cup InOuts \cup Outputs}
    \cup {[self |-> s, ret |-> r, params |-> <<Acquired>>] :
            s \in {"const", "mutable"}, r \in Returns}

(* The same two-parameter functions by their signature alone.               *)
MCSignatures ==
  {[self |-> "none", ret |-> r, params |-> <<p, q>>] :
     r \in {Void, R("function_return", "class", "T")},
     p, q \in (Inputs \cup InOuts \cup Outputs) \ {State, P("light_p", "void*", "T", FALSE)}}

MCPublicMembers ==
  {P("in_p", "int", "T", FALSE), P("in_p", "class", "T", FALSE),
   P("in_p", "class", "T*", FALSE), P("in_p", "class", "T*", TRUE)}

(* Constructors with one and two parameters, in an order that matters.      *)
MCBlocks ==
  {[default |-> d,
    ctors |-> <<<<State>>,
                <<P("in_p", "string", "T", FALSE)>>,
                <<P("in_p", "bool", "T", FALSE)>>,
                <<P("in_p", "char*", "T", FALSE)>>,
                <<P("in_out_p", "class", "T&", TRUE), P("in_p", "bool", "T", FALSE)>>,
                <<Acquired, State, P("in_p", "class", "T&", FALSE)>>,
                <<Acquired, P("in_p", "int", "T", FALSE)>>,
                <<Acquired, P("in_p", "class", "T&", TRUE)>>,
                <<State, P("light_p", "void*", "T", FALSE)>>>>] : d \in BOOLEAN}
    \cup {[default |-> d, ctors |-> <<<<Acquired>>>>] : d \in BOOLEAN}

(* No call of the instance loses an object, though a constructor pulls an   *)
(* argument after the one it takes over.                                    *)
ASSUME MCObjectsAreTakenLast == ObjectsAreTakenLast

MCValues ==
  {Number, Object, ConstObject}
    \cup {[t |-> t] : t \in {"lightuserdata", "numeral", "boolean", "string", "nil"}}
=============================================================================

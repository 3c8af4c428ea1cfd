------------------------------ MODULE CppTypes ------------------------------
(***************************************************************************)
(* The types of C++ as the type traits of OOLua see them                   *)
(* (src/src/lua/oolua/lvd_type_traits.h): a base type with the declarators *)
(* that follow it, from the inside out.  T const *const& is                *)
(* [base |-> T, mods |-> <<"const", "*", "const", "&">>].                  *)
(*                                                                         *)
(* A trait is a set of template specialisations; the one that matches a    *)
(* type most closely is taken, so that T *const goes before T const.       *)
(***************************************************************************)
EXTENDS Naturals, Sequences

LOCAL INSTANCE SequencesExt

(* The type matches the pattern T pattern.                                 *)
Matches(t, pattern) == IsSuffix(pattern, t.mods)

(* The type with the declarators of the pattern replaced.                  *)
Without(t, pattern) == [t EXCEPT !.mods = SubSeq(@, 1, Len(@) - Len(pattern))]
Replaced(t, pattern, by) == [t EXCEPT !.mods = Without(t, pattern).mods \o by]

(* Const in front of one of these; of a pointer that is const itself it is *)
(* the const before the star, except where another pointer points to it.   *)
is_const(t) ==
  \E tail \in {<< >>, <<"&">>, <<"*">>, <<"*", "&">>} :
    /\ Matches(t, <<"const">> \o tail)
    /\ \/ tail = <<"*">>
       \/ ~Matches(t, <<"*", "const">> \o tail)
       \/ Matches(t, <<"const", "*", "const">> \o tail)

is_ref(t) == Matches(t, <<"&">>)
is_ptr(t) == Matches(t, <<"*">>)
is_const_ptr_to(t) == Matches(t, <<"*", "const">>)

by_reference(t) == is_ref(t) \/ is_ptr(t) \/ is_const_ptr_to(t)
by_value(t) == ~by_reference(t)

(* remove_const keeps the const of a pointer itself.                       *)
remove_const(t) ==
  LET tails == IF is_const_ptr_to(t) THEN {<<"*", "const">>} ELSE {<< >>, <<"&">>, <<"*">>}
      matching == {tail \in tails : Matches(t, <<"const">> \o tail)}
  IN IF matching = {} THEN t
     ELSE LET tail == CHOOSE s \in matching : TRUE
          IN Replaced(t, <<"const">> \o tail, tail)

remove_all_const(t) ==
  IF is_const_ptr_to(t) THEN Without(remove_const(t), <<"const">>) ELSE remove_const(t)

remove_ref(t) == IF is_ref(t) THEN Without(t, <<"&">>) ELSE t

(* remove_ptr for as long as is_ptr holds.                                 *)
remove_all_ptrs(t) ==
  [t EXCEPT !.mods = SubSeq(@, 1, SelectLastInSeq(@, LAMBDA m : m # "*"))]

raw_type(t) == remove_all_ptrs(remove_all_const(remove_ref(t)))
=============================================================================

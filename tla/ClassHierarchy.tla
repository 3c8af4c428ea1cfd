--------------------------- MODULE ClassHierarchy ---------------------------
(***************************************************************************)
(* The classes a program gives to Lua, by their OOLUA_PROXY blocks.         *)
(***************************************************************************)
EXTENDS Naturals, Sequences

CONSTANTS
  Classes,
  Bases,      \* [Classes -> Seq(Classes)]: OOLUA_PROXY's direct bases, in order
  Methods,    \* [Classes -> sets of names]: the functions the proxy exports
  Tags,       \* the OOLUA_TAGS block of each class that has one: a set of tags
  Added       \* names that scripts and the host add

DirectBases(C) == {Bases[C][i] : i \in DOMAIN Bases[C]}

\* Proxy_class<C>::AllBases: the bases, their bases and so on.
AllBases ==
  [C \in Classes |->
     {B \in Classes : \A S \in SUBSET Classes :
        DirectBases(C) \subseteq S /\ (\A D \in S : DirectBases(D) \subseteq S) => B \in S}]

Hierarchy(C) == {C} \cup AllBases[C]

Exported(Cs) == UNION {Methods[C] : C \in Cs}

Names == Added \cup {"new", "set_owner"} \cup Exported(Classes)

\* In C++ no class is a base of itself: among any classes is one with no base
\* among them.  OOLua's own names are nobody else's: the constructor is "new".
ASSUME HierarchyAssumption ==
  /\ Bases \in [Classes -> Seq(Classes)]
  /\ \A S \in SUBSET Classes : S # {} => \E C \in S : DirectBases(C) \cap S = {}
  /\ Added \cap {"new", "set_owner"} = {} /\ "new" \notin Exported(Classes)
=============================================================================

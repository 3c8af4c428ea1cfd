------------------------------ MODULE MCProxies ------------------------------
(* Three programs over Proxies.  In the first a class, its base and the      *)
(* object whose first member it is share an address, and ownership is passed *)
(* across the border.  In the others a class has two bases at two addresses, *)
(* and userdata outlive their objects or they do not.                        *)
EXTENDS Proxies, TLC

CONSTANTS u1, u2, u3, c1

MCUd == {u1, u2, u3}
MCCell == {c1}
Symmetric == Permutations(MCUd)

(* Outer { Derived first; }, Derived : Base                                 *)
Chained == {"Base", "Derived", "Outer"}

(* Both : Left, Right, with Right behind Left                               *)
Forked == {"Left", "Right", "Both"}

MCClass == Chained \cup Forked
MCBases == [T \in MCClass |->
  CASE T = "Derived" -> {"Base"} [] T = "Both" -> {"Left", "Right"} [] OTHER -> {}]
MCOffset == [T \in MCClass |-> [B \in MCClass |-> IF B = "Right" THEN 1 ELSE 0]]
MCMember == [T \in MCClass |->
  IF T = "Outer" THEN {<<"Derived", 0>>, <<"Base", 0>>} ELSE {}]
MCPrograms ==
  {[classes |-> Chained, transfers |-> TRUE, outlives |-> FALSE]}
    \cup [classes : {Forked}, transfers : {FALSE}, outlives : BOOLEAN]
=============================================================================

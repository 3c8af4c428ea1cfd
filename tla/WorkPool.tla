------------------------------ MODULE WorkPool ------------------------------
(***************************************************************************)
(* What the drivers of src/src/miner promise: every item of the source is   *)
(* worked on once, at most Limit of them at a time, and none is given up.   *)
(***************************************************************************)
EXTENDS Integers, FiniteSets

CONSTANTS Items, Limit

VARIABLES todo, active, finished

poolVars == <<todo, active, finished>>

PoolInit == todo = Items /\ active = {} /\ finished = {}

\* An item is taken up and occupies one of Limit places.
Admit(x) ==
  /\ x \in todo
  /\ Cardinality(active) < Limit
  /\ todo' = todo \ {x}
  /\ active' = active \cup {x}
  /\ UNCHANGED finished

\* An item that needs no work is finished without a place.
Dismiss(x) ==
  /\ x \in todo
  /\ todo' = todo \ {x}
  /\ finished' = finished \cup {x}
  /\ UNCHANGED active

Finish(x) ==
  /\ x \in active
  /\ active' = active \ {x}
  /\ finished' = finished \cup {x}
  /\ UNCHANGED todo

PoolNext == \E x \in Items : Admit(x) \/ Dismiss(x) \/ Finish(x)

Pool == PoolInit /\ [][PoolNext]_poolVars
=============================================================================

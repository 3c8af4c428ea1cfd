---------------------------- MODULE MCReferences ----------------------------
(* References with two references, and two universes that have one          *)
(* lua_State each and one of them a coroutine besides, which may be          *)
(* collected.  All of it at once has too many states, so that a behaviour    *)
(* stays with one of two programs, or goes from one to the other by a state  *)
(* that is in both.                                                         *)
EXTENDS References, TLC

CONSTANTS a, b, m, co, mw, t1, t2, o, key, nil

MCRef == {a, b}
MCState == {m, co, mw}
MCUniverse == m :> "u" @@ co :> "u" @@ mw :> "w"
MCTableOf == "u" :> {t1, t2} @@ "w" :> {o}
MCValue == {nil, t1, t2, o, key}
MCTypeOf ==
  nil :> "nil" @@ t1 :> "table" @@ t2 :> "table" @@ o :> "table" @@ key :> "string"
MCTaken == {t1, t2, o, nil}
MCArg == {key, a, b}
Symmetric == Permutations({a, b}) \cup Permutations({t1, t2})

(* Two references in two universes: nothing is written to a table.          *)
TwoUniverses ==
  /\ \A r \in Ref : ref[r].lua # co
  /\ stack[co] = <<>> /\ open = State
  /\ \A s \in State : \A i \in DOMAIN stack[s] : stack[s][i] # key
  /\ named["u"] # key /\ named["w"] # key
  /\ heap = [t \in Tables |-> [k \in Value |-> Nil]]

(* One reference in one universe: a Table that is read and written, itself  *)
(* among the keys and values.                                               *)
OneTable ==
  /\ \E r \in Ref : ref[r].lua # mw /\ \A q \in Ref \ {r} : ref[q] = Invalid(NULL)
  /\ stack[mw] = <<>> /\ named["w"] = nil

(* No action reads last: it is compared within a step only.                 *)
MCView == <<ref, registry, stack, heap, named, open>>
MCSpec == Init /\ [][Next /\ (TwoUniverses \/ OneTable)']_vars
=============================================================================

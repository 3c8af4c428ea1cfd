----------------------------- MODULE References -----------------------------
(***************************************************************************)
(* References from C++ to Lua tables (src/src/lua/oolua: Lua_ref, Table).  *)
(* A Lua_ref owns a slot of the registry of a universe (a Lua VM) and the  *)
(* lua_State, main or coroutine, it got the value from.  C++ code makes,   *)
(* copies, assigns, swaps and drops references, and reads and writes the   *)
(* tables through the stack of that lua_State.                             *)
(***************************************************************************)
EXTENDS StackAccess, FiniteSets

CONSTANTS
  Ref,              \* the C++ objects: Lua_ref<LUA_TTABLE>, or Table around one
  State,            \* the lua_States
  Universe,         \* Universe[s]: the VM a lua_State belongs to
  Coroutine,        \* lua_States the collector may free
  TableOf,          \* TableOf[u]: the tables there may be in u at a time
  Plain,            \* values C++ code has of its own and pushes
  Arg,              \* what it passes as keys and values: of its own, or a Table
  Pulls,            \* the C++ types it pulls values to
  Taken,            \* values it makes references of by itself, for set_ref
  Slot,             \* bound on the registry
  MaxStack          \* bound on a stack

Universes == {Universe[s] : s \in State}
Tables == UNION {TableOf[u] : u \in Universes}

ASSUME RefAssumption ==
  /\ Coroutine \subseteq State
  /\ Plain \cup Taken \cup Tables \subseteq Value
  /\ Pulls \subseteq CppType /\ Arg \subseteq Plain \cup Ref
  /\ \A v \in Value : v \in Tables <=> TypeOf[v] = "table"
  /\ Plain \cap Tables = {}
  /\ \A u, w \in Universes : u # w => TableOf[u] \cap TableOf[w] = {}
  /\ IsFiniteSet(Ref) /\ IsFiniteSet(Slot)
  /\ Cardinality(Slot) > Cardinality(Ref)

NULL == "NULL"
NOREF == 0          \* LUA_NOREF, and LUA_REFNIL, which is treated alike
Free == "free"
ASSUME SlotAssumption == NOREF \notin Slot /\ NULL \notin State /\ Free \notin Value

VARIABLES
  ref,       \* m_lua and m_ref of each reference
  registry,  \* the slots luaL_ref has given out and what they hold
  stack,     \* the stack of each lua_State
  heap,      \* the contents of the tables
  named,     \* what the one name C++ looks up stands for in each universe
  open,      \* the lua_States there are
  last       \* the call made: its name, its objects and what it returned

vars == <<ref, registry, stack, heap, named, open, last>>

Invalid(s) == [lua |-> s, ref |-> NOREF]
Valid(r) == ref[r].lua # NULL /\ ref[r].ref # NOREF
In(r) == Universe[ref[r].lua]

(* What a reference refers to.                                             *)
Held(r) == IF Valid(r) THEN registry[In(r)][ref[r].ref] ELSE Nil

(* luaL_unref of what the record x owns, in the registry reg               *)
Unref(reg, x) ==
  IF x.lua # NULL /\ x.ref # NOREF
  THEN [reg EXCEPT ![Universe[x.lua]][x.ref] = Free] ELSE reg

(* luaL_ref of v: the slot it takes, and the registry after it             *)
FreeSlot(reg, u) == CHOOSE i \in Slot : reg[u][i] = Free
RefOf(reg, s, v) ==
  IF v = Nil THEN Invalid(s)
  ELSE [lua |-> s, ref |-> FreeSlot(reg, Universe[s])]
Stored(reg, x, v) ==
  IF x.ref = NOREF THEN reg ELSE [reg EXCEPT ![Universe[x.lua]][x.ref] = v]

(* What a step reports, and the rest that stays as it is.                  *)
Did(op, rs, ok) == last' = [op |-> op, on |-> rs, ok |-> ok, raised |-> FALSE]

(* luaL_error, or an error of the Lua API: the frame of the C++ function   *)
(* is left.                                                                *)
Raise(op, rs, s) ==
  /\ last' = [op |-> op, on |-> rs, ok |-> FALSE, raised |-> TRUE]
  /\ stack' = [stack EXCEPT ![s] = <<>>]

(* Mutant: the old reference is forgotten. *)
SetRefLeak(r, x, reg) ==
  /\ ref' = [ref EXCEPT ![r] = x]
  /\ registry' = reg

(* set_ref: what r owned is released after x was taken.                    *)
SetRef(r, x, reg) ==
  /\ ref' = [ref EXCEPT ![r] = x]
  /\ registry' = Unref(reg, ref[r])

Usable(r) == ref[r].lua \in open \cup {NULL}
OnlyRefs == UNCHANGED <<stack, heap, named, open>>
OnlyStacks == UNCHANGED <<ref, registry, heap, named, open>>

Init ==
  /\ ref = [r \in Ref |-> Invalid(NULL)]
  /\ registry = [u \in Universes |-> [i \in Slot |-> Free]]
  /\ stack = [s \in State |-> <<>>]
  /\ heap = [t \in Tables |-> [k \in Value |-> Nil]]
  /\ named = [u \in Universes |-> Nil]
  /\ open = State
  /\ last = [op |-> "none", on |-> {}, ok |-> TRUE, raised |-> FALSE]

----------------------------------------------------------------------------
(* The life of a reference.                                                *)

(* The object ends and another one begins at its place: Lua_ref(), (vm).   *)
Construct(r, s) ==
  /\ Usable(r) /\ s \in open \cup {NULL}
  /\ SetRef(r, Invalid(s), registry)
  /\ Did("construct", {r}, TRUE) /\ OnlyRefs

(* Mutant: the members are copied. *)
CopiedShallow(reg, q) == ref[q]

(* The copy q gives: a slot of its own with the same value.                *)
Copied(reg, q) == IF Valid(q) THEN RefOf(reg, ref[q].lua, Held(q)) ELSE Invalid(NULL)

(* The copy constructor, in place of another object.                       *)
Copy(r, q) ==
  LET reg == Unref(registry, ref[r])
      x == Copied(reg, q)
  IN /\ r # q /\ Usable(r) /\ Usable(q)
     /\ ref' = [ref EXCEPT ![r] = x]
     /\ registry' = Stored(reg, x, Held(q))
     /\ Did("copy", {r}, TRUE) /\ OnlyRefs

(* operator=: a copy, swapped with r and destroyed as what r was.          *)
Assign(r, q) ==
  LET x == Copied(registry, q)
  IN /\ Usable(r) /\ Usable(q)
     /\ SetRef(r, x, Stored(registry, x, Held(q)))
     /\ Did("assign", {r}, TRUE) /\ OnlyRefs

Swap(r, q) ==
  /\ ref' = [ref EXCEPT ![r] = ref[q], ![q] = ref[r]]
  /\ Did("swap", {r, q}, TRUE)
  /\ OnlyRefs /\ UNCHANGED registry

(* set_ref(vm, luaL_ref(vm)) by the program: the type is not checked.      *)
TakeRef(r, s) ==
  LET v == Top(stack[s])
      x == RefOf(registry, s, v)
  IN /\ Usable(r) /\ s \in open /\ stack[s] # <<>> /\ v \in Taken
     /\ SetRef(r, x, Stored(registry, x, v))
     /\ stack' = [stack EXCEPT ![s] = Pop(@)]
     /\ Did("set_ref", {r}, TRUE) /\ UNCHANGED <<heap, named, open>>

(* bind_script, to another lua_State                                       *)
BindScript(r, s) ==
  /\ Usable(r) /\ s \in open /\ ref[r].lua # s
  /\ SetRef(r, Invalid(s), registry)
  /\ Did("bind_script", {r}, TRUE) /\ OnlyRefs

(* set_table(name): a failure leaves a Table without a lua_State.          *)
SetTable(r) ==
  LET s == ref[r].lua
      found == named[In(r)]
      x == IF found \in Tables THEN RefOf(registry, s, found) ELSE Invalid(NULL)
  IN /\ Usable(r) /\ s # NULL
     /\ SetRef(r, x, Stored(registry, x, found))
     /\ Did("set_table", {r}, TRUE) /\ OnlyRefs

(* The tables of u nothing refers to.                                      *)
Unreached(u) ==
  {t \in TableOf[u] :
     /\ \A w \in Universes : named[w] # t /\ \A i \in Slot : registry[w][i] # t
     /\ \A s \in State, i \in 1..MaxStack : i \in DOMAIN stack[s] => stack[s][i] # t
     /\ \A p \in Tables, k \in Value : heap[p][k] # t /\ (k = t => heap[p][k] = Nil)}

(* new_table(vm, t)                                                        *)
NewTable(r, s) ==
  \E t \in Unreached(Universe[s]) :
    LET x == RefOf(registry, s, t)
    IN /\ Usable(r) /\ s \in open
       /\ SetRef(r, x, Stored(registry, x, t))
       /\ heap' = [heap EXCEPT ![t] = [k \in Value |-> Nil]]
       /\ Did("new_table", {r}, TRUE) /\ UNCHANGED <<stack, named, open>>

----------------------------------------------------------------------------
(* Between references and stacks.                                          *)

Room(s) == Len(stack[s]) < MaxStack

(* can_xmove, or the same lua_State                                        *)
Related(s, t) == Universe[s] = Universe[t]

(* push_reference_if_possible: not to another universe.                    *)
CanPush(r, s) == Valid(r) => Related(ref[r].lua, s)

(* Lua_ref::push                                                           *)
Push(r, s) ==
  /\ Usable(r) /\ s \in open /\ Room(s)
  /\ stack' = [stack EXCEPT ![s] = IF CanPush(r, s) THEN Append(@, Held(r)) ELSE @]
  /\ Did("push", {r}, CanPush(r, s) /\ Held(r) \in Tables \cup {Nil}) /\ OnlyStacks

(* lua_push, a return of a function Lua has called                         *)
LuaPush(r, s) ==
  /\ Usable(r) /\ s \in open /\ Room(s)
  /\ IF Valid(r) /\ s # ref[r].lua THEN Raise("lua_push", {r}, s)
     ELSE /\ stack' = [stack EXCEPT ![s] = Append(@, Held(r))]
          /\ Did("lua_push", {r}, Held(r) \in Tables \cup {Nil})
  /\ OnlyStacks

(* pull_if_valid, pull: a nil releases and stays on the stack.             *)
Pull(r, s) ==
  LET v == Top(stack[s])
      x == RefOf(registry, s, v)
  IN /\ Usable(r) /\ s \in open
     /\ UNCHANGED <<heap, named, open>>
     /\ \/ /\ stack[s] # <<>> /\ v \in Tables
           /\ SetRef(r, x, Stored(registry, x, v))
           /\ stack' = [stack EXCEPT ![s] = Pop(@)]
           /\ Did("pull", {r}, TRUE)
        \/ /\ stack[s] # <<>> /\ v = Nil
           /\ SetRef(r, Invalid(ref[r].lua), registry)
           /\ Did("pull", {r}, TRUE) /\ UNCHANGED stack
        \/ /\ ~(stack[s] # <<>> /\ v \in Tables \cup {Nil})
           /\ Did("pull", {r}, FALSE) /\ UNCHANGED <<ref, registry, stack>>

(* lua_get of the argument at i of a function Lua has called               *)
LuaGet(r, s, i) ==
  LET v == stack[s][i]
      x == RefOf(registry, s, v)
  IN /\ Usable(r) /\ s \in open /\ i \in DOMAIN stack[s]
     /\ UNCHANGED <<heap, named, open>>
     /\ \/ /\ v \in Tables \cup {Nil}
           /\ SetRef(r, x, Stored(registry, x, v))
           /\ Did("lua_get", {r}, TRUE) /\ UNCHANGED stack
        \/ /\ v \notin Tables \cup {Nil}
           /\ Raise("lua_get", {r}, s) /\ UNCHANGED <<ref, registry>>

(* pull of a value that is no reference                                    *)
PullValue(ty, s) ==
  /\ s \in open
  /\ IF RaisesOnPull(ty, stack[s]) THEN Raise("pull", {}, s)
     ELSE /\ stack' = [stack EXCEPT ![s] = Pulled(ty, @)]
          /\ Did("pull", {}, PullOk(ty, stack[s]))
  /\ OnlyStacks

(* push of a value of the program's                                        *)
PushValue(v, s) ==
  /\ s \in open /\ Room(s)
  /\ stack' = [stack EXCEPT ![s] = Append(@, v)]
  /\ Did("push_value", {}, TRUE) /\ OnlyStacks

(* lua_pop by the program                                                  *)
PopOne(s) ==
  /\ s \in open /\ stack[s] # <<>>
  /\ stack' = [stack EXCEPT ![s] = Pop(@)]
  /\ Did("pop", {}, TRUE) /\ OnlyStacks

----------------------------------------------------------------------------
(* Table: reads and writes, through the stack of the lua_State it has.     *)

Pushes(a, s) == IF a \in Ref THEN CanPush(a, s) ELSE TRUE
Of(a) == IF a \in Ref THEN Held(a) ELSE a
WithArg(st, a, s) == IF Pushes(a, s) THEN Append(st, Of(a)) ELSE st

(* get_table: the table, or whatever the slot holds, is on the stack.      *)
GetTable(r) == Valid(r) /\ Held(r) \in Tables
Got(r) == IF Valid(r) THEN Append(stack[ref[r].lua], Held(r)) ELSE <<>>

(* Mutant: counted as if the value were still to come. *)
IndexOfTableBefore(st) == Len(st) - 3

(* The place -3, where a table, a key and a value end the stack.           *)
IndexOfTable(st) == Len(st) - 2

(* lua_settable(-3) on the stack st of s, then restore_stack               *)
SetAndRestore(op, r, s, st) ==
  LET n == Len(st)
      t == IndexOfTable(st)
      size == Len(stack[s])
  IN IF t > 0 /\ st[t] \in Tables /\ st[n - 1] # Nil
     THEN /\ heap' = [heap EXCEPT ![st[t]][st[n - 1]] = st[n]]
          /\ stack' = [stack EXCEPT ![s] = RestoredStack(SubSeq(st, 1, n - 2), size)]
          /\ Did(op, {r}, TRUE)
     ELSE Raise(op, {r}, s) /\ UNCHANGED heap

(* A reference that is not to a table stays on the stack.                  *)
NoTable(op, r) ==
  /\ stack' = IF Valid(r) THEN [stack EXCEPT ![ref[r].lua] = Got(r)] ELSE stack
  /\ Did(op, {r}, FALSE) /\ UNCHANGED heap

(* set: what push returns is not looked at.                                *)
Set(r, k, v) ==
  LET s == ref[r].lua
  IN /\ \A a \in {r, k, v} \cap Ref : Usable(a)
     /\ IF GetTable(r)
        THEN SetAndRestore("set", r, s, WithArg(WithArg(Got(r), k, s), v, s))
        ELSE NoTable("set", r)
     /\ UNCHANGED <<ref, registry, named, open>>

Remove(r, k) ==
  LET s == ref[r].lua
  IN /\ \A a \in {r, k} \cap Ref : Usable(a)
     /\ IF GetTable(r)
        THEN SetAndRestore("remove", r, s, Append(WithArg(Got(r), k, s), Nil))
        ELSE NoTable("remove", r)
     /\ UNCHANGED <<ref, registry, named, open>>

(* safe_at into a value of type ty: what pull returns is not looked at.    *)
SafeAt(r, k, ty) ==
  LET s == ref[r].lua
      v == heap[Held(r)][Of(k)]
      found == Pushes(k, s) /\ v # Nil
      st == Append(Got(r), v)
  IN /\ \A a \in {r, k} \cap Ref : Usable(a)
     /\ \/ ~GetTable(r) /\ NoTable("safe_at", r)
        \/ /\ GetTable(r) /\ ~found
           /\ Did("safe_at", {r}, FALSE) /\ UNCHANGED stack
        \/ /\ GetTable(r) /\ found
           /\ IF RaisesOnPull(ty, st) THEN Raise("safe_at", {r}, s)
              ELSE /\ stack' = [stack EXCEPT ![s] =
                                  RestoredStack(Pulled(ty, st), Len(@))]
                   /\ Did("safe_at", {r}, TRUE)
     /\ UNCHANGED <<ref, registry, heap, named, open>>

(* at, where its documentation defines it: the key is there and fits.      *)
At(r, k, ty) ==
  LET s == ref[r].lua
      st == Append(Got(r), heap[Held(r)][Of(k)])
  IN /\ \A a \in {r, k} \cap Ref : Usable(a)
     /\ GetTable(r) /\ Pushes(k, s) /\ PullOk(ty, st)
     /\ stack' = [stack EXCEPT ![s] = Pop(Pulled(ty, st))]
     /\ Did("at", {r}, TRUE) /\ OnlyStacks

----------------------------------------------------------------------------
(* The Lua program and the collector.                                      *)

(* The name becomes v, from the top of a stack.                            *)
Define(s) ==
  /\ s \in open /\ stack[s] # <<>>
  /\ named' = [named EXCEPT ![Universe[s]] = Top(stack[s])]
  /\ stack' = [stack EXCEPT ![s] = Pop(@)]
  /\ Did("define", {}, TRUE) /\ UNCHANGED <<ref, registry, heap, open>>

(* A coroutine Lua no longer refers to is freed; no Lua_ref keeps it.      *)
CollectCoroutine(s) ==
  /\ s \in open \cap Coroutine
  /\ open' = open \ {s}
  /\ stack' = [stack EXCEPT ![s] = <<>>]
  /\ Did("collect", {}, TRUE) /\ UNCHANGED <<ref, registry, heap, named>>

Next ==
  \/ \E r \in Ref :
       \/ \E s \in State \cup {NULL} : Construct(r, s)
       \/ \E q \in Ref : Copy(r, q) \/ Assign(r, q) \/ Swap(r, q)
       \/ \E s \in State :
            \/ TakeRef(r, s) \/ BindScript(r, s) \/ NewTable(r, s)
            \/ Push(r, s) \/ LuaPush(r, s) \/ Pull(r, s)
            \/ \E i \in 1..MaxStack : LuaGet(r, s, i)
       \/ SetTable(r)
       \/ \E k \in Arg :
            \/ \E v \in Arg : Set(r, k, v)
            \/ Remove(r, k)
            \/ \E ty \in Pulls : SafeAt(r, k, ty) \/ At(r, k, ty)
  \/ \E s \in State :
       \/ \E ty \in Pulls : PullValue(ty, s)
       \/ \E v \in Plain : PushValue(v, s)
       \/ PopOne(s) \/ Define(s) \/ CollectCoroutine(s)

Spec == Init /\ [][Next]_vars

----------------------------------------------------------------------------
(* Properties                                                              *)

TypeOK ==
  /\ ref \in [Ref -> [lua : State \cup {NULL}, ref : Slot \cup {NOREF}]]
  /\ registry \in [Universes -> [Slot -> Value \cup {Free}]]
  /\ stack \in [State -> Seq(Value)]
  /\ heap \in [Tables -> [Value -> Value]]
  /\ named \in [Universes -> Value] /\ open \subseteq State

(* A slot of the registry is taken exactly while one reference owns it, so *)
(* that none is freed twice, used after it is freed, or left behind by any *)
(* order of copies, assignments, swaps, pulls and failures.                *)
SlotsOwned ==
  \A u \in Universes, i \in Slot :
    LET owners == {r \in Ref : Valid(r) /\ In(r) = u /\ ref[r].ref = i}
    IN Cardinality(owners) = IF registry[u][i] = Free THEN 0 ELSE 1

(* A value stays in the universe it belongs to.                            *)
ValuesAtHome ==
  \A u \in Universes :
    LET foreign == Tables \ TableOf[u]
    IN /\ named[u] \notin foreign
       /\ \A i \in Slot : registry[u][i] \notin foreign
       /\ \A s \in State : Universe[s] = u =>
            \A i \in DOMAIN stack[s] : stack[s][i] \notin foreign
       /\ \A t \in TableOf[u], k \in Value :
            heap[t][k] \notin foreign /\ (k \in foreign => heap[t][k] = Nil)

(* References of the program are sound: typed, owned, and each universe's  *)
(* values apart from the others'.                                          *)
RefInv == TypeOK /\ SlotsOwned /\ ValuesAtHome

(* A call changes what its own objects refer to and nothing else: no other *)
(* reference follows, whatever slots are given back and taken again        *)
(* (Lua_ref owns its slot, oolua_ref.h:298).                               *)
OthersKeepTheirs == \A r \in Ref : Held(r)' # Held(r) => r \in last'.on
NoOtherFollows == [][OthersKeepTheirs]_vars

(* What the accesses to the table of r need of the program: r refers to a  *)
(* table, if to anything, and the tables it passes are of its universe.    *)
Proper(r) ==
  Valid(r) =>
    /\ Held(r) \in Tables
    /\ \A a \in Arg \cap Ref : Valid(a) => In(a) = In(r)

(* Reading or writing a table leaves every stack as it was                 *)
(* (oolua_table.h:47-49), unless a Lua error leaves the function, or at    *)
(* reads a void*, whose pull leaves it there (oolua_pull.cpp:104).         *)
StackAsBefore ==
  /\ last'.op \in {"set", "remove", "safe_at", "at", "new_table", "set_table"}
  /\ last'.op = "at" => "void*" \notin Pulls
  /\ ~last'.raised /\ \A r \in last'.on : Proper(r)
  => stack' = stack
StacksRestored == [][StackAsBefore]_vars

(* What set and remove write goes into the table of their reference.       *)
SetsItsTable ==
  last'.op \in {"set", "remove"} /\ (\A r \in last'.on : Proper(r)) =>
    \A t \in Tables : heap'[t] # heap[t] => \E r \in last'.on : t = Held(r)
WritesItsTable == [][SetsItsTable]_vars
=============================================================================

---------------------------- MODULE StackAccess ----------------------------
(***************************************************************************)
(* What OOLua's push and pull do to a Lua stack when C++ code calls them   *)
(* (src/src/lua/oolua/oolua_pull, oolua_push, oolua_string, oolua_error):  *)
(* a stack is a sequence of values, its last element the top.              *)
(***************************************************************************)
EXTENDS Naturals, Sequences

Seqs == INSTANCE SequencesExt

CONSTANTS
  Value,            \* the Lua values, Nil among them
  Nil,
  TypeOf,           \* lua_type of each
  Numeral,          \* the strings that read as numbers
  CFunction,        \* the functions that are C functions
  ConstUd           \* the userdata of OOLua whose object is const

LuaType == {"nil", "boolean", "number", "string", "table", "function",
            "userdata", "lightuserdata"}

(* The C++ types a value is pulled to; a class T stands for all classes.   *)
CppType == {"integral", "enum", "double", "bool", "string", "lua_CFunction",
            "void*", "T*", "T const*", "cpp_acquire_ptr<T>"}

ASSUME ValueAssumption ==
  /\ Nil \in Value
  /\ TypeOf \in [Value -> LuaType]
  /\ \A v \in Value : TypeOf[v] = "nil" <=> v = Nil
  /\ \A v \in Numeral : TypeOf[v] = "string"
  /\ \A v \in CFunction : TypeOf[v] = "function"
  /\ \A v \in ConstUd : TypeOf[v] = "userdata"

Top(st) == Seqs!Last(st)
Pop(st) == Seqs!Front(st)

(* The check a pull to ty makes of the top of the stack.                   *)
Accepts(ty, v) ==
  CASE ty \in {"integral", "enum"} -> TypeOf[v] = "number" \/ v \in Numeral
    [] ty = "double"               -> TypeOf[v] = "number"
    [] ty = "bool"                 -> TypeOf[v] = "boolean"
    [] ty = "string"               -> TypeOf[v] = "string"
    [] ty = "lua_CFunction"        -> v \in CFunction
    [] ty = "void*"                -> TypeOf[v] = "lightuserdata"
    [] OTHER                       -> TypeOf[v] = "userdata"

(* A pointer that is not const is refused for a const object by luaL_error *)
(* and not by a result.                                                    *)
RaisesOnPull(ty, st) ==
  st # <<>> /\ ty \in {"T*", "cpp_acquire_ptr<T>"} /\ Top(st) \in ConstUd

(* cpp_runtime_type_check_of_top; handle_cpp_pull_fail stores a message    *)
(* and leaves the value.                                                   *)
CheckOfTop(ty, st) == st # <<>> /\ Accepts(ty, Top(st))

PullOk(ty, st) == ~RaisesOnPull(ty, st) /\ CheckOfTop(ty, st)

(* pull; the overload for void* does not pop.                              *)
Pulled(ty, st) == IF PullOk(ty, st) /\ ty # "void*" THEN Pop(st) ELSE st

(* Mutant: a table that was read stays. *)
RestoredStackPlus(st, size) ==
  IF Len(st) > size THEN SubSeq(st, 1, size + 1) ELSE st

(* lua_pop to a size; a stack that has become too small is cut by a        *)
(* negative count, for which lua_settop counts from the bottom.            *)
RestoredStack(st, size) ==
  IF Len(st) >= size THEN SubSeq(st, 1, size)
  ELSE SubSeq(st, 1, size - Len(st) - 1)
=============================================================================

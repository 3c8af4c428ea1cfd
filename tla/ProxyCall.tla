----------------------------- MODULE ProxyCall -----------------------------
(***************************************************************************)
(* How Lua calls a C++ function through OOLua (src/src/lua/oolua): the     *)
(* generated wrapper checks self, pulls the arguments one after the other  *)
(* into locals, calls the function through a converter for each local, and *)
(* pushes the return value and the out parameters back.  Each parameter    *)
(* has a trait, which says its direction and who owns the object after the *)
(* call.  An argument that does not fit raises a Lua error: a longjmp out  *)
(* of the wrapper.  A constructor is first chosen among those of its class *)
(* by testing the arguments.                                               *)
(***************************************************************************)
EXTENDS Naturals, Sequences, FiniteSets

CONSTANTS
  Functions,   \* the proxied functions: [self, ret, params]
  Signatures,  \* the same for the minimal DSL, which ignores the traits
  PublicMembers, \* the types of public data members that Lua may get and set
  Blocks,      \* the OOLUA_CTORS blocks: [default, ctors]
  Ud,          \* the userdata of Lua's program; at first Lua owns their objects
  ConstUd,     \* those that stand for a constant object
  Values,      \* what Lua's program passes: [t |-> type] or [t |-> "userdata", u |-> ud]
  MaxArgs      \* bound: arguments of a call

----------------------------------------------------------------------------
(* A type is raw ("class", for one with a proxy, "int", "bool", "string",  *)
(* "char*" or "void*"), taken as ind ("T", "T&", "T*" or "T*&"), and const *)
(* or not.                                                                 *)
ByValue(s) == s.ind = "T"
Integral(s) == s.raw # "class"
ToConst(s) == s.const \/ ByValue(s)

ParamTraits == {"in_p", "in_out_p", "out_p", "cpp_in_p", "lua_out_p", "light_p",
                "calling_lua_state"}
ReturnTraits == {"void", "function_return", "lua_return", "light_return", "maybe_null",
                 "maybe_null<lua_return>"}
Type(traits) ==
  [trait : traits, raw : {"class", "int", "bool", "string", "char*", "void*"},
   ind : {"T", "T&", "T*", "T*&"}, const : BOOLEAN]
Parameter == Type(ParamTraits)
Function ==
  [self : {"none", "const", "mutable"}, ret : Type(ReturnTraits), params : Seq(Parameter)]

ASSUME TypeAssumption ==
  /\ Functions \cup Signatures \subseteq Function
  /\ PublicMembers \subseteq Parameter
  /\ \A b \in Blocks : b.ctors \in Seq(Seq(Parameter))
  /\ \A v \in Values : v.t = "userdata" => v.u \in Ud
  /\ MaxArgs \in Nat

(* The local a wrapper declares: a value, a pointer or a pointer to const. *)
Pull_type_(s) == IF Integral(s) THEN "T" ELSE IF ToConst(s) THEN "T const*" ELSE "T*"
Pull_type(s) == IF Integral(s) THEN "T" ELSE "T*"

(* The traits: direction, owner, the local, and what has to hold for the   *)
(* instantiation to compile.                                               *)
in_p(s) == [in |-> TRUE, out |-> FALSE, owner |-> "No_change",
            pull |-> Pull_type_(s), valid |-> TRUE]
in_out_p(s) == [in |-> TRUE, out |-> TRUE, owner |-> "No_change",
                pull |-> Pull_type(s), valid |-> ~ByValue(s)]
out_p(s) == [in |-> FALSE, out |-> TRUE,
             owner |-> IF Integral(s) THEN "No_change" ELSE "Lua",
             pull |-> "T", valid |-> ~ByValue(s)]
cpp_in_p(s) == [in |-> TRUE, out |-> FALSE, owner |-> "Cpp", pull |-> Pull_type(s),
                valid |-> ~Integral(s) /\ s.ind \in {"T*", "T*&"}]
lua_out_p(s) == [in |-> FALSE, out |-> TRUE, owner |-> "Lua", pull |-> Pull_type_(s),
                 valid |-> ~Integral(s) /\ s.ind = "T*&"]
light_p(s) == [in |-> TRUE, out |-> FALSE, owner |-> "No_change", pull |-> "T",
               valid |-> s.raw = "void*" /\ s.ind = "T"]
calling_lua_state == [in |-> TRUE, out |-> FALSE, owner |-> "No_change",
                      pull |-> "T", valid |-> TRUE]

(* param_type<P>                                                           *)
Param(p) ==
  CASE p.trait = "in_p" -> in_p(p)
    [] p.trait = "in_out_p" -> in_out_p(p)
    [] p.trait = "out_p" -> out_p(p)
    [] p.trait = "cpp_in_p" -> cpp_in_p(p)
    [] p.trait = "lua_out_p" -> lua_out_p(p)
    [] p.trait = "light_p" -> light_p(p)
    [] p.trait = "calling_lua_state" -> calling_lua_state

(* The traits of results; a class returned by value is copied to the heap. *)
void == [out |-> FALSE, owner |-> "No_change", null |-> FALSE, valid |-> TRUE]
function_return(s) == [out |-> TRUE, owner |-> "No_change", null |-> FALSE, valid |-> TRUE]
lua_return(s) == [out |-> TRUE, owner |-> "Lua", null |-> FALSE,
                  valid |-> ~Integral(s) /\ s.ind \in {"T*", "T*&"}]
light_return(s) == [out |-> TRUE, owner |-> "No_change", null |-> FALSE, valid |-> TRUE]
maybe_null(s) == [out |-> TRUE, owner |-> "No_change", null |-> TRUE,
                  valid |-> ~Integral(s) /\ s.ind = "T*"]
maybe_null_lua_return(s) == [lua_return(s) EXCEPT !.null = TRUE, !.valid = @ /\ s.ind = "T*"]

(* return_type_traits<R>                                                   *)
Return(r) ==
  CASE r.trait = "void" -> void
    [] r.trait = "function_return" -> function_return(r)
    [] r.trait = "lua_return" -> lua_return(r)
    [] r.trait = "light_return" -> light_return(r)
    [] r.trait = "maybe_null" -> maybe_null(r)
    [] r.trait = "maybe_null<lua_return>" -> maybe_null_lua_return(r)

OnStack(p) == Param(p).in /\ p.trait # "calling_lua_state"

(* The minimal DSL knows the signature alone: each parameter is an input.  *)
DefaultParam(p) == [p EXCEPT !.trait = "in_p"]
DefaultReturn(r) == IF r.trait = "void" THEN r ELSE [r EXCEPT !.trait = "function_return"]

(* default_traits_caller, default_traits_const_caller, default_c_traits_caller *)
WithDefaultTraits(f) ==
  [self |-> f.self, ret |-> DefaultReturn(f.ret),
   params |-> [i \in DOMAIN f.params |-> DefaultParam(f.params[i])]]

(* OOLUA_MGET: a member by value is passed out by its address, one that is *)
(* a pointer may be nil.                                                   *)
Getter(m) ==
  [self |-> "const", params |-> << >>,
   ret |-> [m EXCEPT !.trait = IF Integral(m) \/ ByValue(m) THEN "function_return" ELSE "maybe_null",
                     !.ind = IF Integral(m) THEN @ ELSE "T*"]]

(* OOLUA_MSET: a member by value is assigned from the object of another.   *)
Setter(m) ==
  [self |-> "mutable", ret |-> [m EXCEPT !.trait = "void"],
   params |-> <<[m EXCEPT !.trait = "in_p", !.ind = IF Integral(m) THEN @ ELSE "T*"]>>]

(* lua_equal, lua_less_than, lua_less_than_or_equal: bool of two objects;  *)
(* lua_add, lua_sub, lua_mul, lua_div: a new object, which is Lua's.       *)
Operand == [trait |-> "in_p", raw |-> "class", ind |-> "T*", const |-> TRUE]
Comparison ==
  [self |-> "none", params |-> <<Operand, Operand>>,
   ret |-> [trait |-> "function_return", raw |-> "bool", ind |-> "T", const |-> FALSE]]
Arithmetic ==
  [self |-> "none", params |-> <<Operand, Operand>>,
   ret |-> [trait |-> "lua_return", raw |-> "class", ind |-> "T*", const |-> FALSE]]

(* Everything a class or a program exports.                                *)
Exported ==
  Functions \cup {WithDefaultTraits(f) : f \in Signatures}
    \cup {Getter(m) : m \in PublicMembers} \cup {Setter(m) : m \in PublicMembers}
    \cup {Comparison, Arithmetic}

ASSUME FunctionsCompile ==
  \A f \in Exported : Return(f.ret).valid /\ \A i \in DOMAIN f.params : Param(f.params[i]).valid
ASSUME ConstructorsCompile ==
  \A b \in Blocks : \A k \in DOMAIN b.ctors : \A i \in DOMAIN b.ctors[k] :
    Param(b.ctors[k][i]).valid /\ Param(b.ctors[k][i]).in

----------------------------------------------------------------------------
(* What fits.  "numeral" is a string Lua converts to a number.             *)

(* LUA_CALLED::get for a value that is no object                           *)
PullsValue(raw, v) ==
  CASE raw = "int" -> v.t \in {"number", "numeral"}
    [] raw = "bool" -> v.t = "boolean"
    [] raw \in {"string", "char*"} -> v.t \in {"string", "numeral"}
    [] raw = "void*" -> v.t = "lightuserdata"

(* The proxied class is the only one: all of OOLua's userdata have its type. *)
index_is_userdata(v) == v.t = "userdata"
check_index(v) == index_is_userdata(v)
check_index_no_const(v) == index_is_userdata(v) /\ v.u \notin ConstUd

(* stack_class_type                                                        *)
ChecksIndex(v, const) == IF const THEN check_index(v) ELSE check_index_no_const(v)

(* For a cpp_in_p the type decides about const, for others the local.      *)
Pulls(p, v) ==
  IF Param(p).pull = "T" THEN PullsValue(p.raw, v)
  ELSE ChecksIndex(v, IF p.trait = "cpp_in_p" THEN p.const ELSE Param(p).pull = "T const*")

(* Mutant: the test of a constructor parameter forgets const userdata. *)
TestsAnyUserdata(p, v) ==
  IF Integral(p) THEN PullsValue(p.raw, v) ELSE ChecksIndex(v, TRUE)

(* Param_helper::param_is_of_type: the test of a constructor's parameter.  *)
(* raw_type<char*> is char, so that a number passes for a C string.        *)
IsOfType(p, v) ==
  IF Integral(p)
  THEN CASE v.t = "number" -> p.raw \in {"int", "char*"}
         [] v.t = "numeral" -> p.raw \in {"string", "char*"}
         [] OTHER -> v.t # "userdata" /\ PullsValue(p.raw, v)
  ELSE ChecksIndex(v, p.const)

(* The argument a parameter of the list gets when each one that is on the  *)
(* stack takes the next, from the first-th on.                             *)
IndexOf(params, i, first) == first + Cardinality({j \in 1 .. i - 1 : OnStack(params[j])})

(* OOLUA_CTOR: the number of arguments, then each of them.                 *)
CtorMatches(params, args) ==
  /\ Len(params) = Len(args) +
       IF \E i \in DOMAIN params : params[i].trait = "calling_lua_state" THEN 1 ELSE 0
  /\ \A i \in DOMAIN params :
       OnStack(params[i]) => IsOfType(params[i], args[IndexOf(params, i, 1)])

----------------------------------------------------------------------------
VARIABLES
  pc,       \* "lua", "pull", "push", "done" or "error"
  call,     \* the function called, or the constructor chosen
  args,     \* the Lua stack: self, if any, and the arguments
  rolling_param_index,
  pulled,   \* p1, p2, ... : the locals after the parameters were pulled
  local,    \* and after the call
  seen,     \* what the function left in its own view of each parameter
  pushed,   \* how many parameters the wrapper went through after the call
  results,  \* the values pushed after the call
  count,    \* the number of results the wrapper reports to Lua
  gc,       \* the userdata whose object Lua deletes
  kept      \* those whose object C++ took over

vars == <<pc, call, args, rolling_param_index, pulled, local, seen, pushed, results, count,
          gc, kept>>

NoCall == [self |-> "none", ret |-> [trait |-> "void"], params |-> << >>, new |-> FALSE]

(* The stack index of the first parameter: self has the first one.         *)
FirstParam(f) == IF f.self = "none" THEN 1 ELSE 2

Start(c, a, first, at) ==
  /\ pc' = at /\ call' = c /\ args' = a
  /\ rolling_param_index' = first
  /\ pulled' = << >> /\ local' = << >> /\ seen' = << >> /\ pushed' = 0
  /\ UNCHANGED <<gc, kept>>

Init ==
  /\ pc = "lua" /\ call = NoCall /\ args = << >>
  /\ rolling_param_index = 1
  /\ pulled = << >> /\ local = << >> /\ seen = << >> /\ pushed = 0
  /\ results = << >> /\ count = 0
  /\ gc = Ud /\ kept = {}

(* member_caller, const_member_caller                                      *)
SelfFits(f, a) == f.self = "none" \/ (a # << >> /\ ChecksIndex(a[1], f.self = "const"))

(* A member function, or a C function without a self                       *)
Call(f, a) ==
  /\ Start([self |-> f.self, ret |-> f.ret, params |-> f.params, new |-> FALSE],
           a, FirstParam(f), IF SelfFits(f, a) THEN "pull" ELSE "error")
  /\ results' = << >> /\ count' = 0

NewObject == [v |-> "new", lua |-> TRUE]

(* oolua_factory_function: the first constructor that matches, in the      *)
(* order of the block, else the default one if there is nothing to pass.   *)
New(b, a) ==
  LET matching == {k \in DOMAIN b.ctors : CtorMatches(b.ctors[k], a)}
      constructor(params) == [self |-> "none", ret |-> [trait |-> "void"],
                              params |-> params, new |-> TRUE]
  IN \/ \E k \in matching :
          /\ \A j \in matching : k <= j
          /\ Start(constructor(b.ctors[k]), a, 1, "pull")
          /\ results' = << >> /\ count' = 0
     \/ /\ matching = {} /\ a = << >> /\ b.default
        /\ Start(constructor(<< >>), a, 1, "done")
        /\ results' = <<NewObject>> /\ count' = 1
     \/ /\ matching = {} /\ ~(a = << >> /\ b.default)
        /\ Start(constructor(<< >>), a, 1, "error")
        /\ results' = << >> /\ count' = 0

(* Mutant: the calling state takes an argument, as every other input does. *)
AdvanceForAll(p) == IF Param(p).in THEN 1 ELSE 0

(* get(int& idx, ...) moves the index, but not for the calling state       *)
Advance(p) == IF OnStack(p) THEN 1 ELSE 0

(* OOLUA_INTERNAL_PARAM: the next parameter is pulled, unless it is only   *)
(* an output.  Taking an object over clears its gc flag at once.           *)
PullParam ==
  /\ pc = "pull" /\ Len(pulled) < Len(call.params)
  /\ LET p == call.params[Len(pulled) + 1]
         fits == rolling_param_index <= Len(args) /\ Pulls(p, args[rolling_param_index])
     IN \/ /\ ~OnStack(p)
           /\ pulled' = Append(pulled, [t |-> IF Param(p).in THEN "lua_State" ELSE "default"])
           /\ UNCHANGED <<pc, gc>>
        \/ /\ OnStack(p) /\ fits
           /\ pulled' = Append(pulled, args[rolling_param_index])
           /\ gc' = IF Param(p).owner = "Cpp" THEN gc \ {args[rolling_param_index].u} ELSE gc
           /\ UNCHANGED pc
        \/ /\ OnStack(p) /\ ~fits
           /\ pc' = "error"
           /\ UNCHANGED <<pulled, gc>>
  /\ rolling_param_index' =
       rolling_param_index + Advance(call.params[Len(pulled) + 1])
  /\ UNCHANGED <<call, args, local, seen, pushed, results, count, kept>>

(* Converter<Pull, Real>: whether the function's T*& is the local itself.  *)
(* It is for <T*, T*&> and <T const*, T const*&>; <T*, T const*&>,         *)
(* <T, T*&> and <T, T const*&> hand out a pointer of their own.            *)
SharesPointer(p) == Param(p).pull = IF p.const THEN "T const*" ELSE "T*"

(* What a function may do to a parameter Lua gets back: write through it   *)
(* into the local, or make it refer to something else.                     *)
Writable(p) == Param(p).pull = "T" /\ ~p.const /\ ~ByValue(p)
Reassignable(p) == p.ind = "T*&"

Value(v) == [v |-> v, lua |-> FALSE]

(* proxy_maybe_by_ref: a class held by value is copied to the heap for Lua, *)
(* other objects are pushed by address with the owner the trait gives.     *)
LuaOwned(s, owner) == owner = "Lua" \/ (~Integral(s) /\ ByValue(s))

(* Proxy_caller: the call and the push of what it returns; the function of *)
(* a lua_out_p has to set it.                                              *)
CallFunction ==
  LET params == call.params
      Written(i) == [t |-> "written", at |-> i]
  IN
  /\ pc = "pull" /\ Len(pulled) = Len(params)
  /\ \E W \in SUBSET {i \in DOMAIN params : Param(params[i]).out /\ Writable(params[i])} :
     \E R \in SUBSET {i \in DOMAIN params : Param(params[i]).out /\ Reassignable(params[i])} :
       /\ \A i \in DOMAIN params : params[i].trait = "lua_out_p" => i \in R
       /\ W \cap R = {}
       /\ seen' = [i \in DOMAIN params |-> IF i \in W \cup R THEN Written(i) ELSE pulled[i]]
       /\ local' = [i \in DOMAIN params |->
            IF i \in W \/ (i \in R /\ SharesPointer(params[i])) THEN Written(i) ELSE pulled[i]]
  /\ kept' = kept \cup {pulled[i].u : i \in {j \in DOMAIN params : Param(params[j]).owner = "Cpp"}}
  /\ LET r == Return(call.ret)
         value == [v |-> "return", lua |-> LuaOwned(call.ret, r.owner)]
     IN \/ call.new /\ results' = <<NewObject>> /\ count' = 1 /\ pc' = "done"
        \/ /\ ~call.new /\ pc' = "push" /\ UNCHANGED count
           /\ \/ ~r.out /\ results' = << >>
              \/ r.out /\ results' = <<value>>
              \/ r.null /\ results' = <<Value("nil")>>
  /\ UNCHANGED <<call, args, rolling_param_index, pulled, pushed, gc>>

(* Mutant: only the outputs are counted that did not come from Lua. *)
CountPureOutputs(params) ==
  Cardinality({i \in DOMAIN params : Param(params[i]).out /\ ~Param(params[i]).in})

(* lua_return_count of the parameters                                      *)
lua_return_count(params) == Cardinality({i \in DOMAIN params : Param(params[i]).out})

(* Proxy_stack_helper::push of a local; a pointer that Lua is to own is    *)
(* pushed as lua_acquire_ptr.                                              *)
Pushed(p, v) == [v |-> v, lua |-> LuaOwned(p, Param(p).owner)]

(* OOLUA_BACK_INTERNAL_NUM: the outputs in their order, after the return   *)
PushBack ==
  /\ pc = "push" /\ pushed < Len(call.params)
  /\ LET p == call.params[pushed + 1]
     IN \/ Param(p).out /\ results' = Append(results, Pushed(p, local[pushed + 1]))
        \/ ~Param(p).out /\ UNCHANGED results
  /\ pushed' = pushed + 1
  /\ UNCHANGED <<pc, call, args, rolling_param_index, pulled, local, seen, count, gc, kept>>

(* The wrapper returns the number of its results to Lua.                   *)
ReturnCount ==
  /\ pc = "push" /\ pushed = Len(call.params)
  /\ count' = (IF Return(call.ret).out THEN 1 ELSE 0) + lua_return_count(call.params)
  /\ pc' = "done"
  /\ UNCHANGED <<call, args, rolling_param_index, pulled, local, seen, pushed, results, gc, kept>>

(* The call returned or raised an error; Lua's program goes on.            *)
Continue ==
  /\ pc \in {"done", "error"}
  /\ pc' = "lua" /\ call' = NoCall /\ args' = << >>
  /\ rolling_param_index' = 1
  /\ pulled' = << >> /\ local' = << >> /\ seen' = << >>
  /\ pushed' = 0 /\ results' = << >> /\ count' = 0
  /\ UNCHANGED <<gc, kept>>

Args == UNION {[1 .. n -> Values] : n \in 0 .. MaxArgs}

Next ==
  \/ /\ pc = "lua"
     /\ \E a \in Args : \/ \E f \in Exported : Call(f, a)
                       \/ \E b \in Blocks : New(b, a)
  \/ PullParam
  \/ CallFunction
  \/ PushBack
  \/ ReturnCount
  \/ Continue

Spec == Init /\ [][Next]_vars

----------------------------------------------------------------------------
(* The function is called with Lua's arguments in their order: outputs and *)
(* the calling state between them take none.                               *)
ArgumentsInPlace ==
  pc \in {"push", "done"} =>
    \A i \in DOMAIN pulled : OnStack(call.params[i]) =>
      pulled[i] = args[IndexOf(call.params, i, FirstParam(call))]

(* The result that holds an output: behind the return value, in order.     *)
ResultOf(i) ==
  (IF call.ret.trait = "void" THEN 0 ELSE 1)
    + Cardinality({j \in 1 .. i : Param(call.params[j]).out})

(* A T*& to which the converter does not hand out the local: the function  *)
(* stores in a copy, and Lua gets back what was there before.              *)
StoresInCopy(p) == Reassignable(p) /\ ~SharesPointer(p)

(* in_out_p, oolua_traits.h:93-100: "the value of the parameter after the   *)
(* proxied call will be passed back"; out_p likewise.  Lua gets the return *)
(* value and then what the function left in each output, no more and no    *)
(* fewer, and owns the objects that were made for it.                      *)
ResultsAreTrue ==
  pc = "done" /\ ~call.new =>
    /\ count = Len(results)
    /\ count = ResultOf(Len(call.params))
    /\ \A i \in DOMAIN call.params :
         LET p == call.params[i]
             result == results[ResultOf(i)]
         IN Param(p).out =>
              /\ result.lua = (p.raw = "class" /\ ~Param(p).in)
              /\ StoresInCopy(p) \/ result.v = seen[i]

(* What a constructor is chosen for can be pulled, but for a C string, for *)
(* which a number is let through, and a const class passed in and out, for *)
(* which a const object is.                                                *)
TestedAsPulled(p) == p.raw # "char*" /\ ~(p.trait = "in_out_p" /\ p.raw = "class" /\ p.const)

(* A parameter that takes an object over is followed by none that may be   *)
(* refused: an argument after it was tested before any was pulled.         *)
TakesObjectsLast(params, tested) ==
  \A i, j \in DOMAIN params :
    i < j /\ params[i].trait = "cpp_in_p" /\ OnStack(params[j]) =>
      tested /\ TestedAsPulled(params[j])
ObjectsAreTakenLast ==
  /\ \A f \in Exported : TakesObjectsLast(f.params, FALSE)
  /\ \A b \in Blocks : \A k \in DOMAIN b.ctors : TakesObjectsLast(b.ctors[k], TRUE)

(* cpp_in_p, oolua_traits.h:103-106: "Parameter supplied via Lua changes   *)
(* ownership to C++".  Whether a call was made or refused, no object       *)
(* belongs both to Lua and to C++; and none is lost by a refused call when *)
(* every exported function takes objects last.                             *)
NeverUnowned ==
  pc \in {"lua", "done", "error"} =>
    /\ gc \cap kept = {}
    /\ ObjectsAreTakenLast => gc \cup kept = Ud

(* OOLUA_CTORS, proxy_constructor.h:269-272: OOLua matches "the number and *)
(* type of parameters on the stack" with those of each constructor.  The   *)
(* one it chose gets its arguments: only a parameter whose test lets more  *)
(* through than is pulled may refuse one.                                  *)
ChosenConstructorRuns ==
  pc = "error" /\ call.new =>
    call.params = << >> \/ ~TestedAsPulled(call.params[Len(pulled) + 1])
=============================================================================

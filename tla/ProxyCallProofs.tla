-------------------------- MODULE ProxyCallProofs --------------------------
(***************************************************************************)
(* Proofs about ProxyCall for every set of functions, constructors, values *)
(* and userdata.                                                           *)
(***************************************************************************)
EXTENDS ProxyCall, FiniteSetTheorems, TLAPS

----------------------------------------------------------------------------
(* Counting what stands before an index.                                   *)

LEMMA CountStep ==
  ASSUME NEW S, NEW n \in Nat
  PROVE  LET upTo(k) == {j \in 1 .. k : j \in S}
         IN /\ Cardinality(upTo(0)) = 0
            /\ Cardinality(upTo(n)) \in Nat
            /\ Cardinality(upTo(n + 1)) = Cardinality(upTo(n)) + IF n + 1 \in S THEN 1 ELSE 0
<1> DEFINE upTo(k) == {j \in 1 .. k : j \in S}
<1>1. /\ IsFiniteSet(1 .. n) /\ upTo(n) \subseteq 1 .. n
      /\ upTo(0) = {}
  BY FS_Interval
<1>2. /\ IsFiniteSet(upTo(n)) /\ Cardinality(upTo(n)) \in Nat
      /\ Cardinality(upTo(0)) = 0
  BY <1>1, FS_Subset, FS_EmptySet, FS_CardinalityType
<1>3. Cardinality(upTo(n + 1)) = Cardinality(upTo(n)) + IF n + 1 \in S THEN 1 ELSE 0
  <2>1. CASE n + 1 \in S
    <3>1. upTo(n + 1) = upTo(n) \cup {n + 1} /\ n + 1 \notin upTo(n)
      BY <2>1
    <3> HIDE DEF upTo
    <3> QED  BY <3>1, <1>2, <2>1, FS_AddElement
  <2>2. CASE n + 1 \notin S
    <3>1. upTo(n + 1) = upTo(n)
      BY <2>2
    <3> HIDE DEF upTo
    <3> QED  BY <3>1, <1>2, <2>2
  <2> QED  BY <2>1, <2>2
<1> QED  BY <1>2, <1>3

LEMMA CountMonotone ==
  ASSUME NEW S, NEW m \in Nat, NEW n \in Nat, m <= n
  PROVE  LET upTo(k) == {j \in 1 .. k : j \in S}
         IN /\ Cardinality(upTo(m)) \in Nat /\ Cardinality(upTo(n)) \in Nat
            /\ Cardinality(upTo(m)) <= Cardinality(upTo(n))
            /\ Cardinality(upTo(n)) <= n
            /\ \A k \in 1 .. n : k \notin S => Cardinality(upTo(n)) <= n - 1
<1> DEFINE upTo(k) == {j \in 1 .. k : j \in S}
<1>1. IsFiniteSet(1 .. n) /\ Cardinality(1 .. n) = n
  BY FS_Interval
<1>2. upTo(n) \subseteq 1 .. n /\ upTo(m) \subseteq upTo(n)
  OBVIOUS
<1>3. IsFiniteSet(upTo(n)) /\ IsFiniteSet(upTo(m))
  BY <1>1, <1>2, FS_Subset
<1>4. /\ Cardinality(upTo(m)) \in Nat /\ Cardinality(upTo(n)) \in Nat
      /\ Cardinality(upTo(m)) <= Cardinality(upTo(n)) /\ Cardinality(upTo(n)) <= n
  BY <1>1, <1>2, <1>3, FS_Subset, FS_CardinalityType
<1>5. ASSUME NEW k \in 1 .. n, k \notin S  PROVE Cardinality(upTo(n)) <= n - 1
  <2>1. upTo(n) \subseteq (1 .. n) \ {k}
    BY <1>5
  <2>2. IsFiniteSet((1 .. n) \ {k}) /\ Cardinality((1 .. n) \ {k}) = n - 1
    BY <1>1, FS_RemoveElement
  <2>3. Cardinality(upTo(n)) <= Cardinality((1 .. n) \ {k})
    BY <2>1, <2>2, FS_Subset
  <2> QED  BY <2>2, <2>3
<1> QED  BY <1>4, <1>5

(* The argument of a parameter is the next one after those of the           *)
(* parameters before it.                                                    *)
LEMMA IndexStep ==
  ASSUME NEW params \in Seq(Parameter), NEW first \in Nat, NEW n \in Nat
  PROVE  /\ IndexOf(params, n + 1, first) \in Nat
         /\ IndexOf(params, 1, first) = first
         /\ IndexOf(params, n + 2, first) =
              IndexOf(params, n + 1, first) + Advance(params[n + 1])
<1> DEFINE S == {j \in Nat : OnStack(params[j])}
           upTo(k) == {j \in 1 .. k : j \in S}
<1>1. \A k \in Nat : {j \in 1 .. k : OnStack(params[j])} = upTo(k)
  OBVIOUS
<1>2. /\ Cardinality(upTo(0)) = 0 /\ Cardinality(upTo(n)) \in Nat
      /\ Cardinality(upTo(n + 1)) = Cardinality(upTo(n)) + IF n + 1 \in S THEN 1 ELSE 0
  <2> HIDE DEF S
  <2> QED  BY CountStep
<1>3. n + 1 \in S <=> OnStack(params[n + 1])
  OBVIOUS
<1> HIDE DEF S
<1>4. \A k \in Nat : IndexOf(params, k + 1, first) = first + Cardinality(upTo(k))
  <2> TAKE k \in Nat
  <2>1. (k + 1) - 1 = k
    OBVIOUS
  <2> QED  BY <1>1, <2>1, Zenon DEF IndexOf
<1>5. /\ IndexOf(params, n + 1, first) = first + Cardinality(upTo(n))
      /\ IndexOf(params, 1, first) = first + Cardinality(upTo(0))
      /\ IndexOf(params, n + 2, first) = first + Cardinality(upTo(n + 1))
  <2> HIDE DEF upTo
  <2>1. (n + 1) + 1 = n + 2 /\ 0 + 1 = 1 /\ n + 1 \in Nat /\ 0 \in Nat
    OBVIOUS
  <2> QED  BY <1>4, <2>1
<1> QED  BY <1>2, <1>3, <1>5 DEF Advance

(* What an argument stands for is an argument, when their number is what   *)
(* OOLUA_CTOR asks for.                                                     *)
LEMMA IndexWithin ==
  ASSUME NEW params \in Seq(Parameter), NEW a \in Seq(Values), CtorMatches(params, a),
         NEW i \in DOMAIN params, OnStack(params[i])
  PROVE  IndexOf(params, i, 1) \in 1 .. Len(a)
<1> DEFINE S == {j \in Nat : OnStack(params[j])}
           upTo(k) == {j \in 1 .. k : j \in S}
<1>1. DOMAIN params = 1 .. Len(params) /\ Len(params) \in Nat /\ Len(a) \in Nat /\ i \in Nat
  OBVIOUS
<1>2. i \in S /\ i - 1 \in Nat
  BY <1>1
<1>3. IndexOf(params, i, 1) = 1 + Cardinality(upTo(i - 1))
  <2>1. {j \in 1 .. i - 1 : OnStack(params[j])} = upTo(i - 1)
    BY <1>2
  <2> QED  BY <2>1, Zenon DEF IndexOf
<1>4. \A k \in DOMAIN params : params[k].trait = "calling_lua_state" => k \notin S
  BY <1>1 DEF OnStack
<1> HIDE DEF S
<1>5. /\ Cardinality(upTo(i)) = Cardinality(upTo(i - 1)) + 1
      /\ Cardinality(upTo(i - 1)) \in Nat
  <2>1. (i - 1) + 1 = i
    BY <1>1
  <2>2. /\ Cardinality(upTo(i - 1)) \in Nat
        /\ Cardinality(upTo((i - 1) + 1)) =
             Cardinality(upTo(i - 1)) + IF (i - 1) + 1 \in S THEN 1 ELSE 0
    BY <1>2, CountStep
  <2> HIDE DEF upTo
  <2> QED  BY <2>1, <2>2, <1>2
<1>6. /\ Cardinality(upTo(i)) <= Cardinality(upTo(Len(params)))
      /\ Cardinality(upTo(Len(params))) \in Nat
      /\ Cardinality(upTo(Len(params))) <= Len(params)
      /\ \A k \in 1 .. Len(params) :
           k \notin S => Cardinality(upTo(Len(params))) <= Len(params) - 1
  <2>1. i <= Len(params)
    BY <1>1
  <2> QED  BY <1>1, <2>1, CountMonotone
<1> HIDE DEF upTo
<1>7. Cardinality(upTo(Len(params))) <= Len(a)
  <2>1. CASE \E k \in DOMAIN params : params[k].trait = "calling_lua_state"
    <3>1. Len(params) = Len(a) + 1
      BY <2>1 DEF CtorMatches
    <3> QED  BY <2>1, <3>1, <1>1, <1>4, <1>6
  <2>2. CASE ~ \E k \in DOMAIN params : params[k].trait = "calling_lua_state"
    <3>1. Len(params) = Len(a)
      BY <2>2, <1>1 DEF CtorMatches
    <3> QED  BY <3>1, <1>6
  <2> QED  BY <2>1, <2>2
<1> QED  BY <1>1, <1>3, <1>5, <1>6, <1>7

(* The results of the first n parameters.                                   *)
OutsTo(params, n) == Cardinality({j \in 1 .. n : Param(params[j]).out})

LEMMA OutStep ==
  ASSUME NEW params \in Seq(Parameter), NEW n \in Nat
  PROVE  /\ OutsTo(params, 0) = 0
         /\ OutsTo(params, n) \in Nat
         /\ OutsTo(params, n + 1) =
              OutsTo(params, n) + IF Param(params[n + 1]).out THEN 1 ELSE 0
         /\ \A m \in Nat : m <= n => OutsTo(params, m) <= OutsTo(params, n)
         /\ \A m \in Nat \ {0} : m <= n /\ Param(params[m]).out =>
              1 <= OutsTo(params, m) /\ OutsTo(params, m) \in Nat
<1> DEFINE S == {j \in Nat : Param(params[j]).out}
           upTo(k) == {j \in 1 .. k : j \in S}
<1>1. \A k \in Nat : OutsTo(params, k) = Cardinality(upTo(k))
  <2> TAKE k \in Nat
  <2>1. {j \in 1 .. k : Param(params[j]).out} = upTo(k)
    OBVIOUS
  <2> QED  BY <2>1, Zenon DEF OutsTo
<1>2. \A m \in Nat : m \in S <=> Param(params[m]).out
  OBVIOUS
<1> HIDE DEF S
<1>3. \A k \in Nat :
        /\ Cardinality(upTo(0)) = 0
        /\ Cardinality(upTo(k)) \in Nat
        /\ Cardinality(upTo(k + 1)) = Cardinality(upTo(k)) + IF k + 1 \in S THEN 1 ELSE 0
  BY CountStep
<1>4. \A m \in Nat : m <= n => Cardinality(upTo(m)) <= Cardinality(upTo(n))
  BY CountMonotone
<1> HIDE DEF upTo
<1>5. /\ OutsTo(params, 0) = 0
      /\ OutsTo(params, n) \in Nat
      /\ OutsTo(params, n + 1) = OutsTo(params, n) + IF Param(params[n + 1]).out THEN 1 ELSE 0
  <2>1. n + 1 \in Nat /\ 0 \in Nat
    OBVIOUS
  <2> QED  BY <1>1, <1>2, <1>3, <2>1
<1>6. \A m \in Nat : m <= n => OutsTo(params, m) <= OutsTo(params, n)
  BY <1>1, <1>4
<1>7. ASSUME NEW m \in Nat \ {0}, m <= n, Param(params[m]).out
      PROVE  1 <= OutsTo(params, m) /\ OutsTo(params, m) \in Nat
  <2>1. m - 1 \in Nat /\ (m - 1) + 1 = m
    OBVIOUS
  <2>2. /\ Cardinality(upTo(m - 1)) \in Nat
        /\ Cardinality(upTo(m)) = Cardinality(upTo(m - 1)) + 1
    BY <2>1, <1>2, <1>3, <1>7
  <2> QED  BY <1>1, <2>2
<1> QED  BY <1>5, <1>6, <1>7

----------------------------------------------------------------------------
(* The traits.                                                              *)

LEMMA ParamCases ==
  ASSUME NEW p \in Parameter
  PROVE  /\ p.trait \in ParamTraits
         /\ p.trait = "in_p" =>
              /\ Param(p).in = TRUE /\ Param(p).out = FALSE
              /\ Param(p).owner = "No_change"
              /\ Param(p).pull = Pull_type_(p) /\ Param(p).valid = TRUE
         /\ p.trait = "in_out_p" =>
              /\ Param(p).in = TRUE /\ Param(p).out = TRUE
              /\ Param(p).owner = "No_change"
              /\ Param(p).pull = Pull_type(p) /\ Param(p).valid = (~ByValue(p))
         /\ p.trait = "out_p" =>
              /\ Param(p).in = FALSE /\ Param(p).out = TRUE
              /\ Param(p).owner = IF Integral(p) THEN "No_change" ELSE "Lua"
              /\ Param(p).pull = "T" /\ Param(p).valid = (~ByValue(p))
         /\ p.trait = "cpp_in_p" =>
              /\ Param(p).in = TRUE /\ Param(p).out = FALSE
              /\ Param(p).owner = "Cpp"
              /\ Param(p).pull = Pull_type(p) /\ Param(p).valid = (~Integral(p) /\ p.ind \in {"T*", "T*&"})
         /\ p.trait = "lua_out_p" =>
              /\ Param(p).in = FALSE /\ Param(p).out = TRUE
              /\ Param(p).owner = "Lua"
              /\ Param(p).pull = Pull_type_(p) /\ Param(p).valid = (~Integral(p) /\ p.ind = "T*&")
         /\ p.trait = "light_p" =>
              /\ Param(p).in = TRUE /\ Param(p).out = FALSE
              /\ Param(p).owner = "No_change"
              /\ Param(p).pull = "T" /\ Param(p).valid = (p.raw = "void*" /\ p.ind = "T")
         /\ p.trait = "calling_lua_state" =>
              /\ Param(p).in = TRUE /\ Param(p).out = FALSE
              /\ Param(p).owner = "No_change"
              /\ Param(p).pull = "T" /\ Param(p).valid = TRUE
<1>1. ASSUME p.trait = "in_p"
      PROVE  /\ Param(p).in = TRUE /\ Param(p).out = FALSE
             /\ Param(p).owner = "No_change"
             /\ Param(p).pull = Pull_type_(p) /\ Param(p).valid = TRUE
  <2>1. Param(p) = in_p(p)
    BY <1>1 DEF Param
  <2> QED  BY <2>1 DEF in_p
<1>2. ASSUME p.trait = "in_out_p"
      PROVE  /\ Param(p).in = TRUE /\ Param(p).out = TRUE
             /\ Param(p).owner = "No_change"
             /\ Param(p).pull = Pull_type(p) /\ Param(p).valid = (~ByValue(p))
  <2>1. Param(p) = in_out_p(p)
    BY <1>2 DEF Param
  <2> QED  BY <2>1 DEF in_out_p
<1>3. ASSUME p.trait = "out_p"
      PROVE  /\ Param(p).in = FALSE /\ Param(p).out = TRUE
             /\ Param(p).owner = (IF Integral(p) THEN "No_change" ELSE "Lua")
             /\ Param(p).pull = "T" /\ Param(p).valid = (~ByValue(p))
  <2>1. Param(p) = out_p(p)
    BY <1>3 DEF Param
  <2> QED  BY <2>1 DEF out_p
<1>4. ASSUME p.trait = "cpp_in_p"
      PROVE  /\ Param(p).in = TRUE /\ Param(p).out = FALSE
             /\ Param(p).owner = "Cpp"
             /\ Param(p).pull = Pull_type(p) /\ Param(p).valid = (~Integral(p) /\ p.ind \in {"T*", "T*&"})
  <2>1. Param(p) = cpp_in_p(p)
    BY <1>4 DEF Param
  <2> QED  BY <2>1 DEF cpp_in_p
<1>5. ASSUME p.trait = "lua_out_p"
      PROVE  /\ Param(p).in = FALSE /\ Param(p).out = TRUE
             /\ Param(p).owner = "Lua"
             /\ Param(p).pull = Pull_type_(p) /\ Param(p).valid = (~Integral(p) /\ p.ind = "T*&")
  <2>1. Param(p) = lua_out_p(p)
    BY <1>5 DEF Param
  <2> QED  BY <2>1 DEF lua_out_p
<1>6. ASSUME p.trait = "light_p"
      PROVE  /\ Param(p).in = TRUE /\ Param(p).out = FALSE
             /\ Param(p).owner = "No_change"
             /\ Param(p).pull = "T" /\ Param(p).valid = (p.raw = "void*" /\ p.ind = "T")
  <2>1. Param(p) = light_p(p)
    BY <1>6 DEF Param
  <2> QED  BY <2>1 DEF light_p
<1>7. ASSUME p.trait = "calling_lua_state"
      PROVE  /\ Param(p).in = TRUE /\ Param(p).out = FALSE
             /\ Param(p).owner = "No_change"
             /\ Param(p).pull = "T" /\ Param(p).valid = TRUE
  <2>1. Param(p) = calling_lua_state
    BY <1>7 DEF Param
  <2> QED  BY <2>1 DEF calling_lua_state
<1>8. p.trait \in ParamTraits
  BY DEF Parameter, Type
<1> QED  BY <1>1, <1>2, <1>3, <1>4, <1>5, <1>6, <1>7, <1>8

LEMMA ParamIsBoolean ==
  ASSUME NEW p \in Parameter
  PROVE  Param(p).in \in BOOLEAN /\ Param(p).out \in BOOLEAN
  BY ParamCases DEF ParamTraits

(* A value that passes the test of a constructor's parameter can be pulled, *)
(* where the test lets no more through.                                     *)
LEMMA TestedIsPulled ==
  ASSUME NEW p \in Parameter, Param(p).valid, OnStack(p), TestedAsPulled(p),
         NEW v, IsOfType(p, v)
  PROVE  Pulls(p, v)
<1>1. p.trait \in {"in_p", "in_out_p", "cpp_in_p", "light_p"}
  BY ParamCases DEF ParamTraits, OnStack
<1>2. CASE Integral(p)
  <2>1. Param(p).pull = "T"
    BY <1>1, <1>2, ParamCases DEF Pull_type, Pull_type_
  <2>2. p.raw \in {"int", "bool", "string", "char*", "void*"}
    BY <1>2 DEF Integral, Parameter, Type
  <2>3. p.raw # "char*"
    BY DEF TestedAsPulled
  <2>4. PullsValue(p.raw, v)
    <3>1. CASE v.t = "number"
      BY <1>2, <2>2, <2>3, <3>1 DEF IsOfType, PullsValue
    <3>2. CASE v.t = "numeral"
      BY <1>2, <2>2, <2>3, <3>2 DEF IsOfType, PullsValue
    <3>3. CASE v.t # "number" /\ v.t # "numeral"
      BY <1>2, <3>3 DEF IsOfType
    <3> QED  BY <3>1, <3>2, <3>3
  <2> QED  BY <2>1, <2>4 DEF Pulls
<1>3. CASE ~Integral(p)
  <2>1. ChecksIndex(v, p.const)
    BY <1>3 DEF IsOfType
  <2>2. CASE p.trait = "cpp_in_p"
    <3>1. Param(p).pull = "T*"
      BY <2>2, <1>3, ParamCases DEF Pull_type
    <3> QED  BY <2>1, <2>2, <3>1 DEF Pulls
  <2>3. CASE p.trait = "in_p"
    <3>1. Param(p).pull = IF ToConst(p) THEN "T const*" ELSE "T*"
      BY <2>3, <1>3, ParamCases DEF Pull_type_
    <3>2. CASE ToConst(p)
      BY <2>1, <2>3, <3>1, <3>2 DEF Pulls, ChecksIndex, check_index, check_index_no_const
    <3>3. CASE ~ToConst(p)
      <4>1. p.const = FALSE
        BY <3>3 DEF ToConst, Parameter, Type
      <4> QED  BY <2>1, <2>3, <3>1, <3>3, <4>1 DEF Pulls
    <3> QED  BY <3>2, <3>3
  <2>4. CASE p.trait = "in_out_p"
    <3>1. Param(p).pull = "T*"
      BY <2>4, <1>3, ParamCases DEF Pull_type
    <3>2. p.const = FALSE
      BY <2>4, <1>3 DEF TestedAsPulled, Integral, Parameter, Type
    <3> QED  BY <2>1, <2>4, <3>1, <3>2 DEF Pulls
  <2>5. CASE p.trait = "light_p"
    BY <2>5, <1>3, ParamCases DEF Integral
  <2> QED  BY <1>1, <2>2, <2>3, <2>4, <2>5
<1> QED  BY <1>2, <1>3

(* Only a cpp_in_p takes an object over, and what it pulls is one.          *)
LEMMA CppTakesObjects ==
  ASSUME NEW p \in Parameter, Param(p).valid, Param(p).owner = "Cpp"
  PROVE  /\ p.trait = "cpp_in_p" /\ OnStack(p)
         /\ \A v \in Values : Pulls(p, v) => v.u \in Ud
<1>1. p.trait = "cpp_in_p"
  BY ParamCases DEF ParamTraits
<1>2. OnStack(p) /\ Param(p).pull = "T*"
  BY <1>1, ParamCases DEF OnStack, Pull_type
<1> QED  BY <1>1, <1>2, TypeAssumption
         DEF Pulls, ChecksIndex, check_index, check_index_no_const, index_is_userdata

(* What is pushed back is Lua's when it was made for Lua.                   *)
LEMMA OwnerOfResult ==
  ASSUME NEW p \in Parameter, Param(p).valid, Param(p).out, NEW v
  PROVE  /\ Pushed(p, v).v = v
         /\ Pushed(p, v).lua = (p.raw = "class" /\ ~Param(p).in)
         /\ Pushed(p, v).lua \in BOOLEAN
<1>1. p.trait \in {"in_out_p", "out_p", "lua_out_p"}
  BY ParamCases DEF ParamTraits
<1> QED  BY <1>1, ParamCases DEF Pushed, LuaOwned, Integral

LEMMA ExportedAreFunctions == Exported \subseteq Function
<1> SUFFICES ASSUME NEW f \in Exported  PROVE f \in Function
  OBVIOUS
<1>1. CASE f \in Functions
  BY <1>1, TypeAssumption
<1>2. ASSUME NEW g \in Signatures, f = WithDefaultTraits(g)  PROVE f \in Function
  <2>1. g \in Function
    BY TypeAssumption
  <2>2. DefaultReturn(g.ret) \in Type(ReturnTraits)
    BY <2>1 DEF Function, Type, DefaultReturn, ReturnTraits
  <2>3. [i \in DOMAIN g.params |-> DefaultParam(g.params[i])] \in Seq(Parameter)
    <3>1. g.params \in Seq(Parameter)
      BY <2>1 DEF Function
    <3>2. \A i \in 1 .. Len(g.params) : DefaultParam(g.params[i]) \in Parameter
      <4>1. \A i \in 1 .. Len(g.params) : g.params[i] \in Parameter
        BY <3>1
      <4> QED  BY <4>1 DEF DefaultParam, Parameter, Type, ParamTraits
    <3> QED  BY <3>1, <3>2
  <2> QED  BY <2>1, <2>2, <2>3, <1>2 DEF WithDefaultTraits, Function
<1>3. ASSUME NEW m \in PublicMembers, f = Getter(m)  PROVE f \in Function
  <2>1. m \in Parameter
    BY TypeAssumption
  <2>2. f.ret \in Type(ReturnTraits)
    BY <2>1, <1>3 DEF Getter, Parameter, Type, ReturnTraits
  <2>3. f.params \in Seq(Parameter)
    BY <1>3 DEF Getter
  <2> QED  BY <2>2, <2>3, <1>3 DEF Getter, Function
<1>4. ASSUME NEW m \in PublicMembers, f = Setter(m)  PROVE f \in Function
  <2>1. m \in Parameter
    BY TypeAssumption
  <2>2. f.ret \in Type(ReturnTraits)
    BY <2>1, <1>4 DEF Setter, Parameter, Type, ReturnTraits
  <2>3. f.params \in Seq(Parameter)
    <3>1. [m EXCEPT !.trait = "in_p", !.ind = IF Integral(m) THEN @ ELSE "T*"] \in Parameter
      BY <2>1 DEF Parameter, Type, ParamTraits
    <3> QED  BY <3>1, <1>4 DEF Setter
  <2> QED  BY <2>2, <2>3, <1>4 DEF Setter, Function
<1>5. Comparison \in Function /\ Arithmetic \in Function
  <2>1. Operand \in Parameter
    BY SMT DEF Operand, Parameter, Type, ParamTraits
  <2>2. <<Operand, Operand>> \in Seq(Parameter)
    BY <2>1
  <2> QED  BY <2>2 DEF Comparison, Arithmetic, Function, Type, ReturnTraits
<1> QED  BY <1>1, <1>2, <1>3, <1>4, <1>5 DEF Exported

----------------------------------------------------------------------------
(* What a call is made of.                                                  *)

Local == Values \cup {[t |-> "lua_State"], [t |-> "default"]}

Called ==
  [self : {"none", "const", "mutable"}, ret : Type(ReturnTraits) \cup {[trait |-> "void"]},
   params : Seq(Parameter), new : BOOLEAN]

TypeInv ==
  /\ pc \in {"lua", "pull", "push", "done", "error"}
  /\ call \in Called
  /\ \A i \in DOMAIN call.params : Param(call.params[i]).valid
  /\ args \in Seq(Values)
  /\ rolling_param_index \in Nat \ {0}
  /\ pulled \in Seq(Local) /\ Len(pulled) <= Len(call.params)

LEMMA StartsTyped ==
  ASSUME NEW a \in Args
  PROVE  /\ a \in Seq(Values)
         /\ \A f \in Exported :
              /\ [self |-> f.self, ret |-> f.ret, params |-> f.params, new |-> FALSE] \in Called
              /\ \A i \in DOMAIN f.params : Param(f.params[i]).valid
         /\ \A b \in Blocks : \A k \in DOMAIN b.ctors :
              /\ b.ctors[k] \in Seq(Parameter)
              /\ \A i \in DOMAIN b.ctors[k] :
                   Param(b.ctors[k][i]).valid /\ Param(b.ctors[k][i]).in
<1>1. a \in Seq(Values)
  <2>1. PICK n \in 0 .. MaxArgs : a \in [1 .. n -> Values]
    BY DEF Args
  <2> QED  BY <2>1, TypeAssumption
<1>2. \A f \in Exported :
        /\ [self |-> f.self, ret |-> f.ret, params |-> f.params, new |-> FALSE] \in Called
        /\ \A i \in DOMAIN f.params : Param(f.params[i]).valid
  BY ExportedAreFunctions, FunctionsCompile DEF Function, Called
<1>3. \A b \in Blocks : \A k \in DOMAIN b.ctors :
        /\ b.ctors[k] \in Seq(Parameter)
        /\ \A i \in DOMAIN b.ctors[k] : Param(b.ctors[k][i]).valid /\ Param(b.ctors[k][i]).in
  BY TypeAssumption, ConstructorsCompile
<1> QED  BY <1>1, <1>2, <1>3

(* How a constructor comes to run: it is one of the block, and it matches.  *)
Constructor(params) ==
  [self |-> "none", ret |-> [trait |-> "void"], params |-> params, new |-> TRUE]

LEMMA NewCases ==
  ASSUME NEW b \in Blocks, NEW a \in Args, New(b, a)
  PROVE  \/ \E k \in DOMAIN b.ctors :
              /\ CtorMatches(b.ctors[k], a)
              /\ Start(Constructor(b.ctors[k]), a, 1, "pull")
         \/ \E at \in {"done", "error"} : Start(Constructor(<< >>), a, 1, at)
  BY DEF New, Constructor

LEMMA ConstructorTyped ==
  ASSUME NEW params \in Seq(Parameter)
  PROVE  /\ Constructor(params) \in Called
         /\ Constructor(params).params = params /\ Constructor(params).new
         /\ Constructor(params).self = "none"
  BY DEF Constructor, Called

THEOREM TypeCorrect == Spec => []TypeInv
<1>1. Init => TypeInv
  BY DEF Init, TypeInv, NoCall, Called
<1>2. TypeInv /\ [Next]_vars => TypeInv'
  <2> SUFFICES ASSUME TypeInv, [Next]_vars  PROVE TypeInv'
    OBVIOUS
  <2>1. ASSUME NEW a \in Args, NEW f \in Exported, Call(f, a)  PROVE TypeInv'
    BY <2>1, StartsTyped DEF Call, Start, TypeInv, FirstParam
  <2>2. ASSUME NEW a \in Args, NEW b \in Blocks, New(b, a)  PROVE TypeInv'
    <3>1. CASE \E k \in DOMAIN b.ctors :
                 Start(Constructor(b.ctors[k]), a, 1, "pull")
      <4>1. PICK k \in DOMAIN b.ctors : Start(Constructor(b.ctors[k]), a, 1, "pull")
        BY <3>1
      <4>2. b.ctors[k] \in Seq(Parameter) /\ a \in Seq(Values)
            /\ \A i \in DOMAIN b.ctors[k] : Param(b.ctors[k][i]).valid
        BY StartsTyped
      <4> QED  BY <4>1, <4>2, ConstructorTyped DEF Start, TypeInv
    <3>2. CASE \E at \in {"done", "error"} : Start(Constructor(<< >>), a, 1, at)
      <4>1. a \in Seq(Values) /\ << >> \in Seq(Parameter)
        BY StartsTyped
      <4>2. /\ Constructor(<< >>) \in Called
            /\ Constructor(<< >>).params = << >>
        BY <4>1, ConstructorTyped
      <4> QED  BY <4>1, <4>2, <3>2 DEF Start, TypeInv
    <3> QED  BY <2>2, <3>1, <3>2, NewCases
  <2>3. CASE PullParam
    <3>1. /\ UNCHANGED <<call, args>> /\ pc' \in {pc, "error"}
          /\ Len(pulled) < Len(call.params)
          /\ rolling_param_index' \in Nat \ {0}
      BY <2>3 DEF PullParam, TypeInv, Advance
    <3>2. CASE UNCHANGED pulled
      BY <3>1, <3>2 DEF TypeInv
    <3>3. CASE \E v \in Local : pulled' = Append(pulled, v)
      BY <3>1, <3>3 DEF TypeInv
    <3>4. UNCHANGED pulled \/ \E v \in Local : pulled' = Append(pulled, v)
      <4>1. rolling_param_index <= Len(args) =>
              args[rolling_param_index] \in Local
        BY DEF TypeInv, Local
      <4> QED  BY <2>3, <4>1 DEF PullParam, Local
    <3> QED  BY <3>2, <3>3, <3>4
  <2>4. CASE CallFunction
    BY <2>4 DEF CallFunction, TypeInv
  <2>5. CASE PushBack
    BY <2>5 DEF PushBack, TypeInv
  <2>6. CASE ReturnCount
    BY <2>6 DEF ReturnCount, TypeInv
  <2>7. CASE Continue
    <3>1. NoCall \in Called /\ NoCall.params = << >>
      BY DEF NoCall, Called
    <3> QED  BY <2>7, <3>1 DEF Continue, TypeInv
  <2>8. CASE UNCHANGED vars
    BY <2>8 DEF vars, TypeInv
  <2> QED  BY <2>1, <2>2, <2>3, <2>4, <2>5, <2>6, <2>7, <2>8 DEF Next
<1> QED  BY <1>1, <1>2, PTL DEF Spec

----------------------------------------------------------------------------
(* Arguments in their places.                                               *)

InPlace(locals, params, a, first) ==
  \A i \in DOMAIN locals : OnStack(params[i]) =>
    /\ IndexOf(params, i, first) \in 1 .. Len(a)
    /\ locals[i] = a[IndexOf(params, i, first)]
    /\ Pulls(params[i], locals[i])

PullInv ==
  /\ InPlace(pulled, call.params, args, FirstParam(call))
  /\ pc = "pull" =>
       rolling_param_index = IndexOf(call.params, Len(pulled) + 1, FirstParam(call))
  /\ pc = "pull" /\ call.new => call.self = "none" /\ CtorMatches(call.params, args)
  /\ ChosenConstructorRuns

(* The three things that can happen to the next parameter.                  *)
LEMMA PullCases ==
  ASSUME TypeInv, PullParam
  PROVE  LET p == call.params[Len(pulled) + 1]
             v == args[rolling_param_index]
         IN /\ p \in Parameter /\ Param(p).valid
            /\ Len(pulled) + 1 \in DOMAIN call.params
            /\ pc = "pull" /\ UNCHANGED <<call, args, local, seen, pushed, results, count, kept>>
            /\ rolling_param_index' = rolling_param_index + Advance(p)
            /\ \/ /\ ~OnStack(p) /\ pc' = "pull" /\ UNCHANGED gc
                  /\ \E u \in Local : pulled' = Append(pulled, u)
               \/ /\ OnStack(p) /\ pc' = "pull"
                  /\ rolling_param_index \in 1 .. Len(args) /\ v \in Values /\ Pulls(p, v)
                  /\ pulled' = Append(pulled, v)
                  /\ gc' = IF Param(p).owner = "Cpp" THEN gc \ {v.u} ELSE gc
               \/ /\ OnStack(p) /\ pc' = "error" /\ UNCHANGED <<gc, pulled>>
                  /\ ~(rolling_param_index <= Len(args) /\ Pulls(p, v))
<1> DEFINE p == call.params[Len(pulled) + 1]
           v == args[rolling_param_index]
<1>1. /\ call.params \in Seq(Parameter) /\ Len(pulled) \in Nat
      /\ args \in Seq(Values) /\ rolling_param_index \in Nat \ {0}
  BY DEF TypeInv, Called
<1>2. Len(pulled) < Len(call.params) /\ pc = "pull"
      /\ UNCHANGED <<call, args, local, seen, pushed, results, count, kept>>
      /\ rolling_param_index' = rolling_param_index + Advance(p)
  BY DEF PullParam
<1>3. Len(pulled) + 1 \in DOMAIN call.params
  BY <1>1, <1>2
<1>4. p \in Parameter /\ Param(p).valid
  BY <1>1, <1>3 DEF TypeInv
<1>5. rolling_param_index <= Len(args) => rolling_param_index \in 1 .. Len(args) /\ v \in Values
  BY <1>1
<1>6. \/ /\ ~OnStack(p) /\ pc' = "pull" /\ UNCHANGED gc
         /\ pulled' = Append(pulled, [t |-> IF Param(p).in THEN "lua_State" ELSE "default"])
      \/ /\ OnStack(p) /\ pc' = "pull" /\ rolling_param_index <= Len(args) /\ Pulls(p, v)
         /\ pulled' = Append(pulled, v)
         /\ gc' = IF Param(p).owner = "Cpp" THEN gc \ {v.u} ELSE gc
      \/ /\ OnStack(p) /\ pc' = "error" /\ UNCHANGED <<gc, pulled>>
         /\ ~(rolling_param_index <= Len(args) /\ Pulls(p, v))
  BY DEF PullParam
<1>7. [t |-> IF Param(p).in THEN "lua_State" ELSE "default"] \in Local
  BY DEF Local
<1> HIDE DEF p, v
<1>8. \/ /\ ~OnStack(p) /\ pc' = "pull" /\ UNCHANGED gc
         /\ \E u \in Local : pulled' = Append(pulled, u)
      \/ /\ OnStack(p) /\ pc' = "pull"
         /\ rolling_param_index \in 1 .. Len(args) /\ v \in Values /\ Pulls(p, v)
         /\ pulled' = Append(pulled, v)
         /\ gc' = IF Param(p).owner = "Cpp" THEN gc \ {v.u} ELSE gc
      \/ /\ OnStack(p) /\ pc' = "error" /\ UNCHANGED <<gc, pulled>>
         /\ ~(rolling_param_index <= Len(args) /\ Pulls(p, v))
  BY <1>5, <1>6, <1>7
<1> QED  BY <1>2, <1>3, <1>4, <1>8 DEF p, v

LEMMA PullInvPulls == ASSUME TypeInv, PullInv, PullParam  PROVE PullInv'
<1> DEFINE n == Len(pulled)
           first == FirstParam(call)
           p == call.params[n + 1]
           v == args[rolling_param_index]
<1>1. /\ p \in Parameter /\ Param(p).valid /\ n + 1 \in DOMAIN call.params
      /\ pc = "pull" /\ UNCHANGED <<call, args>>
      /\ rolling_param_index' = rolling_param_index + Advance(p)
  BY PullCases
<1>2. n \in Nat /\ first \in Nat /\ call.params \in Seq(Parameter) /\ args \in Seq(Values)
      /\ pulled \in Seq(Local)
  BY DEF TypeInv, Called, FirstParam
<1>3. rolling_param_index = IndexOf(call.params, n + 1, first)
  BY <1>1 DEF PullInv
<1>4. FirstParam(call') = first
  BY <1>1
<1>5. ASSUME NEW u \in Local, pulled' = Append(pulled, u), pc' = "pull",
             OnStack(p) => rolling_param_index \in 1 .. Len(args) /\ u = v /\ Pulls(p, v)
      PROVE  PullInv'
  <2>1. Len(pulled') = n + 1 /\ DOMAIN pulled' = 1 .. n + 1
        /\ pulled'[n + 1] = u /\ \A i \in 1 .. n : pulled'[i] = pulled[i]
        /\ DOMAIN pulled = 1 .. n
    BY <1>2, <1>5
  <2>2. InPlace(pulled', call.params, args, first)
    <3> SUFFICES ASSUME NEW i \in 1 .. n + 1, OnStack(call.params[i])
                 PROVE  /\ IndexOf(call.params, i, first) \in 1 .. Len(args)
                        /\ pulled'[i] = args[IndexOf(call.params, i, first)]
                        /\ Pulls(call.params[i], pulled'[i])
      BY <2>1 DEF InPlace
    <3>1. CASE i = n + 1
      BY <2>1, <1>3, <1>5, <3>1
    <3>2. CASE i \in 1 .. n
      BY <2>1, <3>2 DEF PullInv, InPlace
    <3> QED  BY <3>1, <3>2, <1>2
  <2>3. rolling_param_index' = IndexOf(call.params, n + 2, first)
    BY <1>1, <1>2, <1>3, IndexStep
  <2>4. (n + 1) + 1 = n + 2
    BY <1>2
  <2>5. pc' # "error"
    BY <1>5
  <2> HIDE DEF n, first, p, v
  <2> QED  BY <1>1, <1>4, <1>5, <2>1, <2>2, <2>3, <2>4, <2>5 DEF PullInv, ChosenConstructorRuns
<1>6. ASSUME OnStack(p), pc' = "error", UNCHANGED pulled,
             ~(rolling_param_index <= Len(args) /\ Pulls(p, v))
      PROVE  PullInv'
  <2>1. ChosenConstructorRuns'
    <3> SUFFICES ASSUME call.new  PROVE ~TestedAsPulled(p)
      BY <1>1, <1>6 DEF ChosenConstructorRuns
    <3>1. call.self = "none" /\ CtorMatches(call.params, args)
      BY <1>1 DEF PullInv
    <3>2. first = 1
      BY <3>1 DEF FirstParam
    <3>3. IndexOf(call.params, n + 1, 1) \in 1 .. Len(args)
      <4> HIDE DEF n
      <4> QED  BY <1>1, <1>2, <1>6, <3>1, IndexWithin DEF n
    <3>4. rolling_param_index <= Len(args) /\ IsOfType(p, v)
      BY <1>1, <1>2, <1>3, <1>6, <3>1, <3>2, <3>3 DEF CtorMatches
    <3> HIDE DEF p, v
    <3>5. ~Pulls(p, v)
      BY <1>6, <3>4
    <3> QED  BY <1>1, <1>6, <3>4, <3>5, TestedIsPulled
  <2> QED  BY <1>1, <1>4, <1>6, <2>1 DEF PullInv
<1>7. Values \subseteq Local
  BY DEF Local
<1> QED  BY <1>5, <1>6, <1>7, PullCases

LEMMA PullInvStarts ==
  ASSUME NEW a, NEW c, NEW first, NEW at \in {"pull", "done", "error"}, Start(c, a, first, at),
         first = FirstParam(c),
         at = "pull" => /\ c.params \in Seq(Parameter)
                        /\ c.new => c.self = "none" /\ CtorMatches(c.params, a),
         at = "error" /\ c.new => c.params = << >>
  PROVE  PullInv'
<1>1. /\ pc' = at /\ call' = c /\ args' = a /\ rolling_param_index' = first /\ pulled' = << >>
  BY DEF Start
<1>2. first \in Nat
  BY DEF FirstParam
<1>3. InPlace(<< >>, c.params, a, first)
  BY DEF InPlace
<1>4. at = "pull" => rolling_param_index' = IndexOf(c.params, Len(<< >>) + 1, first)
  <2>1. Len(<< >>) + 1 = 1 /\ 0 \in Nat
    OBVIOUS
  <2>2. c.params \in Seq(Parameter) => IndexOf(c.params, 1, first) = first
    BY <1>2, <2>1, IndexStep
  <2> QED  BY <1>1, <2>1, <2>2
<1> QED  BY <1>1, <1>3, <1>4 DEF PullInv, ChosenConstructorRuns

(* The function is called with Lua's arguments in their order, and the      *)
(* constructor that was chosen gets its arguments.                          *)
THEOREM PullCorrect == Spec => []PullInv
<1>1. Init => PullInv
  BY DEF Init, PullInv, InPlace, ChosenConstructorRuns
<1>2. TypeInv /\ PullInv /\ [Next]_vars => PullInv'
  <2> SUFFICES ASSUME TypeInv, PullInv, [Next]_vars  PROVE PullInv'
    OBVIOUS
  <2>1. ASSUME NEW a \in Args, NEW f \in Exported, Call(f, a)  PROVE PullInv'
    <3> DEFINE c == [self |-> f.self, ret |-> f.ret, params |-> f.params, new |-> FALSE]
    <3>1. PICK at \in {"pull", "error"} : Start(c, a, FirstParam(f), at)
      BY <2>1 DEF Call
    <3>2. c \in Called
      BY StartsTyped
    <3>3. FirstParam(f) = FirstParam(c) /\ c.params \in Seq(Parameter) /\ ~c.new
      BY <3>2 DEF FirstParam, Called
    <3> HIDE DEF c
    <3> QED  BY <3>1, <3>3, PullInvStarts
  <2>2. ASSUME NEW a \in Args, NEW b \in Blocks, New(b, a)  PROVE PullInv'
    <3>1. ASSUME NEW k \in DOMAIN b.ctors, CtorMatches(b.ctors[k], a),
                 Start(Constructor(b.ctors[k]), a, 1, "pull")
          PROVE  PullInv'
      <4>1. b.ctors[k] \in Seq(Parameter)
        BY StartsTyped
      <4>2. /\ Constructor(b.ctors[k]).params = b.ctors[k]
            /\ Constructor(b.ctors[k]).self = "none"
            /\ FirstParam(Constructor(b.ctors[k])) = 1
        BY DEF Constructor, FirstParam
      <4> QED  BY <3>1, <4>1, <4>2, PullInvStarts
    <3>2. ASSUME NEW at \in {"done", "error"}, Start(Constructor(<< >>), a, 1, at)
          PROVE  PullInv'
      <4>1. /\ Constructor(<< >>).params = << >>
            /\ FirstParam(Constructor(<< >>)) = 1
        BY DEF Constructor, FirstParam
      <4> QED  BY <3>2, <4>1, PullInvStarts
    <3> QED  BY <2>2, <3>1, <3>2, NewCases
  <2>3. CASE PullParam
    BY <2>3, PullInvPulls
  <2>4. CASE CallFunction \/ PushBack \/ ReturnCount
    <3>1. UNCHANGED <<call, args, pulled>> /\ pc' \notin {"pull", "error"}
      BY <2>4 DEF CallFunction, PushBack, ReturnCount
    <3> QED  BY <3>1 DEF PullInv, FirstParam, ChosenConstructorRuns
  <2>5. CASE Continue
    <3>1. pc' = "lua" /\ pulled' = << >>
      BY <2>5 DEF Continue
    <3> QED  BY <3>1 DEF PullInv, InPlace, ChosenConstructorRuns
  <2>6. CASE UNCHANGED vars
    BY <2>6 DEF vars, PullInv, FirstParam, ChosenConstructorRuns
  <2> QED  BY <2>1, <2>2, <2>3, <2>4, <2>5, <2>6 DEF Next
<1> QED  BY <1>1, <1>2, TypeCorrect, PTL DEF Spec

(* The arguments are in their places when the function is called.           *)
THEOREM ArgumentsCorrect == Spec => []ArgumentsInPlace
<1>1. PullInv => ArgumentsInPlace
  BY DEF PullInv, InPlace, ArgumentsInPlace
<1> QED  BY <1>1, PullCorrect, PTL

(* The constructor that was chosen runs.                                    *)
THEOREM ChosenCorrect == Spec => []ChosenConstructorRuns
<1>1. PullInv => ChosenConstructorRuns
  BY DEF PullInv
<1> QED  BY <1>1, PullCorrect, PTL

----------------------------------------------------------------------------
(* Who owns the objects.                                                    *)

TakenOver(locals, params) ==
  {locals[i].u : i \in {j \in DOMAIN locals : Param(params[j]).owner = "Cpp"}}

OwnInv ==
  /\ gc \subseteq Ud /\ kept \subseteq Ud
  /\ gc \cap kept = {}
  /\ pc = "pull" => gc \cap TakenOver(pulled, call.params) = {}
  /\ ObjectsAreTakenLast /\ pc = "pull" =>
       /\ TakesObjectsLast(call.params, call.new)
       /\ Ud \subseteq gc \cup kept \cup TakenOver(pulled, call.params)
  /\ ObjectsAreTakenLast /\ pc # "pull" => Ud \subseteq gc \cup kept

LEMMA TakenAppend ==
  ASSUME NEW locals \in Seq(Local), NEW v \in Local, NEW params
  PROVE  TakenOver(Append(locals, v), params) =
           TakenOver(locals, params) \cup
             IF Param(params[Len(locals) + 1]).owner = "Cpp" THEN {v.u} ELSE {}
<1> DEFINE n == Len(locals)
           more == Append(locals, v)
<1>1. /\ DOMAIN more = 1 .. n + 1 /\ DOMAIN locals = 1 .. n /\ n \in Nat
      /\ more[n + 1] = v /\ \A i \in 1 .. n : more[i] = locals[i]
  OBVIOUS
<1> HIDE DEF n, more
<1>2. ASSUME NEW u \in TakenOver(more, params)
      PROVE  \/ u \in TakenOver(locals, params)
             \/ Param(params[n + 1]).owner = "Cpp" /\ u = v.u
  <2>1. PICK i \in 1 .. n + 1 : Param(params[i]).owner = "Cpp" /\ u = more[i].u
    BY <1>1 DEF TakenOver
  <2>2. CASE i = n + 1
    BY <1>1, <2>1, <2>2
  <2>3. CASE i \in 1 .. n
    <3>1. i \in {j \in DOMAIN locals : Param(params[j]).owner = "Cpp"} /\ locals[i].u = u
      BY <1>1, <2>1, <2>3
    <3> QED  BY <3>1, Zenon DEF TakenOver
  <2> QED  BY <1>1, <2>1, <2>2, <2>3
<1>3. TakenOver(locals, params) \subseteq TakenOver(more, params)
  <2> SUFFICES ASSUME NEW u \in TakenOver(locals, params)  PROVE u \in TakenOver(more, params)
    OBVIOUS
  <2>1. PICK i \in 1 .. n : Param(params[i]).owner = "Cpp" /\ u = locals[i].u
    BY <1>1 DEF TakenOver
  <2>2. i \in {j \in DOMAIN more : Param(params[j]).owner = "Cpp"} /\ u = more[i].u
    BY <1>1, <2>1
  <2> QED  BY <2>1, <2>2 DEF TakenOver
<1>4. Param(params[n + 1]).owner = "Cpp" => v.u \in TakenOver(more, params)
  <2> SUFFICES ASSUME Param(params[n + 1]).owner = "Cpp"  PROVE v.u \in TakenOver(more, params)
    OBVIOUS
  <2>1. n + 1 \in {j \in DOMAIN more : Param(params[j]).owner = "Cpp"} /\ more[n + 1].u = v.u
    BY <1>1
  <2> QED  BY <2>1 DEF TakenOver
<1> QED  BY <1>2, <1>3, <1>4 DEF n, more

(* A parameter is pulled: what it takes over is no longer Lua's, and one    *)
(* that is refused comes before any that takes.                             *)
LEMMA OwnInvPulls ==
  ASSUME TypeInv, PullInv', OwnInv, PullParam
  PROVE  OwnInv'
<1> DEFINE n == Len(pulled)
           p == call.params[n + 1]
           v == args[rolling_param_index]
<1>1. /\ p \in Parameter /\ Param(p).valid /\ n + 1 \in DOMAIN call.params
      /\ pc = "pull" /\ UNCHANGED <<call, kept>>
  BY PullCases
<1>2. n \in Nat /\ call.params \in Seq(Parameter) /\ pulled \in Seq(Local)
      /\ DOMAIN pulled = 1 .. n
  BY DEF TypeInv, Called
<1>3. ASSUME NEW u \in Local, pulled' = Append(pulled, u), pc' = "pull",
             gc' = IF Param(p).owner = "Cpp" THEN gc \ {u.u} ELSE gc,
             Param(p).owner = "Cpp" => u.u \in Ud
      PROVE  OwnInv'
  <2>1. TakenOver(pulled', call.params) =
          TakenOver(pulled, call.params) \cup IF Param(p).owner = "Cpp" THEN {u.u} ELSE {}
    BY <1>2, <1>3, TakenAppend
  <2> HIDE DEF n, p
  <2>2. /\ gc' \subseteq Ud /\ kept' \subseteq Ud /\ gc' \cap kept' = {}
        /\ gc' \cap TakenOver(pulled', call.params) = {}
    BY <1>1, <1>3, <2>1 DEF OwnInv
  <2>3. ASSUME ObjectsAreTakenLast
        PROVE  /\ TakesObjectsLast(call.params, call.new)
               /\ Ud \subseteq gc' \cup kept' \cup TakenOver(pulled', call.params)
    BY <1>1, <1>3, <2>1, <2>3 DEF OwnInv
  <2> QED  BY <1>1, <1>3, <2>2, <2>3 DEF OwnInv
<1>4. ASSUME OnStack(p), pc' = "error", UNCHANGED <<gc, pulled>>
      PROVE  OwnInv'
  <2> SUFFICES ASSUME ObjectsAreTakenLast  PROVE TakenOver(pulled, call.params) = {}
    BY <1>1, <1>4 DEF OwnInv
  <2> SUFFICES ASSUME NEW j \in 1 .. n, Param(call.params[j]).owner = "Cpp"  PROVE FALSE
    BY <1>2 DEF TakenOver
  <2>1. j \in DOMAIN call.params /\ j < n + 1
    BY <1>1, <1>2
  <2>2. call.params[j] \in Parameter /\ Param(call.params[j]).valid
    BY <1>2, <2>1 DEF TypeInv
  <2>3. call.params[j].trait = "cpp_in_p"
    BY <2>2, CppTakesObjects
  <2>4. call.new /\ TestedAsPulled(p)
    BY <1>1, <1>4, <2>1, <2>3 DEF OwnInv, TakesObjectsLast
  <2>5. call.params # << >>
    BY <2>1
  <2> QED  BY <1>1, <1>4, <2>4, <2>5 DEF PullInv, ChosenConstructorRuns
<1>5. \A w \in Values : Pulls(p, w) /\ Param(p).owner = "Cpp" => w.u \in Ud
  <2> HIDE DEF p
  <2> QED  BY <1>1, CppTakesObjects
<1>6. ~OnStack(p) => Param(p).owner # "Cpp"
  <2> HIDE DEF p
  <2> QED  BY <1>1, CppTakesObjects
<1>7. Values \subseteq Local
  BY DEF Local
<1>8. \/ /\ ~OnStack(p) /\ pc' = "pull" /\ UNCHANGED gc
         /\ \E u \in Local : pulled' = Append(pulled, u)
      \/ /\ OnStack(p) /\ pc' = "pull"
         /\ v \in Values /\ Pulls(p, v)
         /\ pulled' = Append(pulled, v)
         /\ gc' = IF Param(p).owner = "Cpp" THEN gc \ {v.u} ELSE gc
      \/ /\ OnStack(p) /\ pc' = "error" /\ UNCHANGED <<gc, pulled>>
  BY PullCases
<1> HIDE DEF p, v, n
<1> QED  BY <1>3, <1>4, <1>5, <1>6, <1>7, <1>8

LEMMA OwnInvCalls ==
  ASSUME TypeInv, PullInv, OwnInv, CallFunction
  PROVE  OwnInv'
<1>1. /\ pc = "pull" /\ Len(pulled) = Len(call.params) /\ pc' # "pull"
      /\ UNCHANGED gc
      /\ kept' = kept \cup
           {pulled[i].u : i \in {j \in DOMAIN call.params : Param(call.params[j]).owner = "Cpp"}}
  BY DEF CallFunction
<1>2. DOMAIN call.params = DOMAIN pulled
  BY <1>1 DEF TypeInv, Called
<1>3. kept' = kept \cup TakenOver(pulled, call.params)
  BY <1>1, <1>2 DEF TakenOver
<1>4. TakenOver(pulled, call.params) \subseteq Ud
  <2> SUFFICES ASSUME NEW i \in DOMAIN pulled, Param(call.params[i]).owner = "Cpp"
               PROVE  pulled[i].u \in Ud
    BY DEF TakenOver
  <2>1. call.params[i] \in Parameter /\ Param(call.params[i]).valid
    BY <1>2 DEF TypeInv, Called
  <2>2. OnStack(call.params[i])
    BY <2>1, CppTakesObjects
  <2>3. Pulls(call.params[i], pulled[i]) /\ pulled[i] \in Values
    BY <2>2 DEF PullInv, InPlace, TypeInv
  <2> QED  BY <2>1, <2>3, CppTakesObjects
<1> QED  BY <1>1, <1>3, <1>4 DEF OwnInv

THEOREM OwnCorrect == Spec => []OwnInv
<1>1. Init => OwnInv
  BY DEF Init, OwnInv
<1>2. TypeInv /\ PullInv /\ PullInv' /\ OwnInv /\ [Next]_vars => OwnInv'
  <2> SUFFICES ASSUME TypeInv, PullInv, PullInv', OwnInv, [Next]_vars  PROVE OwnInv'
    OBVIOUS
  <2>1. ASSUME NEW a, NEW c, NEW first, NEW at, Start(c, a, first, at), pc = "lua",
               at = "pull" /\ ObjectsAreTakenLast => TakesObjectsLast(c.params, c.new)
        PROVE  OwnInv'
    <3>1. pc' = at /\ call' = c /\ pulled' = << >> /\ UNCHANGED <<gc, kept>>
      BY <2>1 DEF Start
    <3>2. TakenOver(<< >>, c.params) = {}
      BY DEF TakenOver
    <3> QED  BY <2>1, <3>1, <3>2 DEF OwnInv
  <2>2. ASSUME NEW a \in Args, NEW f \in Exported, pc = "lua", Call(f, a)  PROVE OwnInv'
    <3> DEFINE c == [self |-> f.self, ret |-> f.ret, params |-> f.params, new |-> FALSE]
    <3>1. PICK at \in {"pull", "error"} : Start(c, a, FirstParam(f), at)
      BY <2>2 DEF Call
    <3>2. ObjectsAreTakenLast => TakesObjectsLast(c.params, c.new)
      BY DEF ObjectsAreTakenLast
    <3> HIDE DEF c
    <3> QED  BY <2>1, <2>2, <3>1, <3>2
  <2>3. ASSUME NEW a \in Args, NEW b \in Blocks, pc = "lua", New(b, a)  PROVE OwnInv'
    <3>1. ASSUME NEW k \in DOMAIN b.ctors, Start(Constructor(b.ctors[k]), a, 1, "pull")
          PROVE  OwnInv'
      <4>1. ObjectsAreTakenLast =>
              TakesObjectsLast(Constructor(b.ctors[k]).params, Constructor(b.ctors[k]).new)
        BY DEF ObjectsAreTakenLast, Constructor
      <4> QED  BY <2>1, <2>3, <3>1, <4>1
    <3>2. ASSUME NEW at \in {"done", "error"}, Start(Constructor(<< >>), a, 1, at)
          PROVE  OwnInv'
      BY <2>1, <2>3, <3>2
    <3> QED  BY <2>3, <3>1, <3>2, NewCases
  <2>4. CASE PullParam
    BY <2>4, OwnInvPulls
  <2>5. CASE CallFunction
    BY <2>5, OwnInvCalls
  <2>6. CASE PushBack \/ ReturnCount \/ Continue
    <3>1. pc # "pull" /\ pc' # "pull" /\ UNCHANGED <<gc, kept>>
      BY <2>6 DEF PushBack, ReturnCount, Continue
    <3> QED  BY <3>1 DEF OwnInv
  <2>7. CASE UNCHANGED vars
    BY <2>7 DEF vars, OwnInv
  <2> QED  BY <2>2, <2>3, <2>4, <2>5, <2>6, <2>7 DEF Next
<1>3. Spec => [](TypeInv /\ PullInv)
  BY TypeCorrect, PullCorrect, PTL
<1> QED  BY <1>1, <1>2, <1>3, PTL DEF Spec

(* No object belongs to both sides, and none is lost by a refused call      *)
(* where objects are taken last.                                            *)
THEOREM OwnershipCorrect == Spec => []NeverUnowned
<1>1. OwnInv => NeverUnowned
  BY DEF OwnInv, NeverUnowned
<1> QED  BY <1>1, OwnCorrect, PTL

----------------------------------------------------------------------------
(* What comes back.                                                         *)

Stored == Local \cup [t : {"written"}, at : Nat]
Result == [v : {"return", "nil", "new"} \cup Stored, lua : BOOLEAN]

LEMMA ReturnCases ==
  ASSUME NEW r, r.trait \in ReturnTraits
  PROVE  Return(r).out = (r.trait # "void") /\ (Return(r).null => r.trait # "void")
<1>1. CASE r.trait = "void"
  BY <1>1 DEF Return, void
<1>2. CASE r.trait = "function_return"
  BY <1>2 DEF Return, function_return
<1>3. CASE r.trait = "lua_return"
  BY <1>3 DEF Return, lua_return
<1>4. CASE r.trait = "light_return"
  BY <1>4 DEF Return, light_return
<1>5. CASE r.trait = "maybe_null"
  BY <1>5 DEF Return, maybe_null
<1>6. CASE r.trait = "maybe_null<lua_return>"
  BY <1>6 DEF Return, maybe_null_lua_return, lua_return
<1> QED  BY <1>1, <1>2, <1>3, <1>4, <1>5, <1>6 DEF ReturnTraits

(* The return value, and then the outputs of the first n parameters.        *)
Base(c) == IF c.ret.trait = "void" THEN 0 ELSE 1

BackTo(res, c, loc, n) ==
  /\ Len(res) = Base(c) + OutsTo(c.params, n)
  /\ \A i \in 1 .. n : Param(c.params[i]).out =>
       res[Base(c) + OutsTo(c.params, i)] = Pushed(c.params[i], loc[i])

LeftIn(loc, sn, c) ==
  \A i \in DOMAIN c.params : StoresInCopy(c.params[i]) \/ loc[i] = sn[i]

ResultInv ==
  /\ pc = "pull" => pushed = 0
  /\ pc = "push" => ~call.new
  /\ pc \in {"push", "done"} /\ ~call.new =>
       /\ results \in Seq(Result) /\ pushed \in 0 .. Len(call.params)
       /\ local \in [DOMAIN call.params -> Stored]
       /\ LeftIn(local, seen, call)
       /\ BackTo(results, call, local, pushed)
  /\ pc = "done" /\ ~call.new =>
       /\ pushed = Len(call.params)
       /\ count = Base(call) + OutsTo(call.params, pushed)

(* The function is called: it leaves in a parameter what the local holds,   *)
(* unless it stored in a copy.                                              *)
LEMMA ResultInvCalls ==
  ASSUME TypeInv, ResultInv, CallFunction
  PROVE  ResultInv'
<1>1. /\ pc = "pull" /\ Len(pulled) = Len(call.params) /\ UNCHANGED <<call, pushed>>
      /\ pushed = 0
  BY DEF CallFunction, ResultInv
<1>2. /\ call.params \in Seq(Parameter) /\ call.ret.trait \in ReturnTraits
      /\ pulled \in Seq(Local) /\ DOMAIN call.params = 1 .. Len(call.params)
      /\ DOMAIN pulled = DOMAIN call.params
  BY <1>1 DEF TypeInv, Called, Type, ReturnTraits
<1>3. CASE call.new
  BY <1>1, <1>3 DEF CallFunction, ResultInv
<1>4. CASE ~call.new
  <2>1. /\ pc' = "push"
        /\ LET r == Return(call.ret)
               value == [v |-> "return", lua |-> LuaOwned(call.ret, r.owner)]
           IN \/ ~r.out /\ results' = << >>
              \/ r.out /\ results' = <<value>>
              \/ r.null /\ results' = <<Value("nil")>>
    BY <1>4 DEF CallFunction
  <2>2. results' \in Seq(Result) /\ Len(results') = Base(call)
    <3> DEFINE value == [v |-> "return", lua |-> LuaOwned(call.ret, Return(call.ret).owner)]
    <3>1. value \in Result /\ Value("nil") \in Result
      BY DEF Result, LuaOwned, Value
    <3>2. \/ call.ret.trait = "void" /\ results' = << >>
          \/ call.ret.trait # "void" /\ results' = <<value>>
          \/ call.ret.trait # "void" /\ results' = <<Value("nil")>>
      BY <1>2, <2>1, ReturnCases
    <3> HIDE DEF value
    <3>3. \A x \in Result : <<x>> \in Seq(Result) /\ Len(<<x>>) = 1
      OBVIOUS
    <3>4. << >> \in Seq(Result) /\ Len(<< >>) = 0
      OBVIOUS
    <3>5. CASE call.ret.trait = "void" /\ results' = << >>
      BY <3>4, <3>5 DEF Base
    <3>6. ASSUME NEW x \in Result, call.ret.trait # "void", results' = <<x>>
          PROVE  results' \in Seq(Result) /\ Len(results') = Base(call)
      BY <3>3, <3>6 DEF Base
    <3> QED  BY <3>1, <3>2, <3>5, <3>6
  <2>3. BackTo(results', call, local', 0)
    <3>1. OutsTo(call.params, 0) = 0
      BY <1>2, OutStep
    <3>2. Base(call) \in Nat
      BY DEF Base
    <3> QED  BY <2>2, <3>1, <3>2 DEF BackTo
  <2>4. PICK W \in SUBSET {i \in DOMAIN call.params :
                              Param(call.params[i]).out /\ Writable(call.params[i])},
             R \in SUBSET {i \in DOMAIN call.params :
                              Param(call.params[i]).out /\ Reassignable(call.params[i])} :
          /\ seen' = [i \in DOMAIN call.params |->
               IF i \in W \cup R THEN [t |-> "written", at |-> i] ELSE pulled[i]]
          /\ local' = [i \in DOMAIN call.params |->
               IF i \in W \/ (i \in R /\ SharesPointer(call.params[i]))
               THEN [t |-> "written", at |-> i] ELSE pulled[i]]
    BY Zenon DEF CallFunction
  <2>5. local' \in [DOMAIN call.params -> Stored]
    <3> SUFFICES ASSUME NEW i \in DOMAIN call.params  PROVE local'[i] \in Stored
      BY <2>4
    <3>1. [t |-> "written", at |-> i] \in Stored /\ pulled[i] \in Stored
      BY <1>2 DEF Stored
    <3> QED  BY <2>4, <3>1
  <2>6. LeftIn(local', seen', call)
    <3> SUFFICES ASSUME NEW i \in DOMAIN call.params, ~StoresInCopy(call.params[i])
                 PROVE  local'[i] = seen'[i]
      BY DEF LeftIn
    <3>1. i \in R => SharesPointer(call.params[i])
      BY DEF StoresInCopy
    <3> QED  BY <2>4, <3>1
  <2> QED  BY <1>1, <1>2, <1>4, <2>1, <2>2, <2>3, <2>5, <2>6 DEF ResultInv
<1> QED  BY <1>3, <1>4

(* One more parameter is gone through.                                      *)
LEMMA ResultInvPushes ==
  ASSUME TypeInv, ResultInv, PushBack
  PROVE  ResultInv'
<1> DEFINE n == pushed
           p == call.params[n + 1]
           o(k) == Base(call) + OutsTo(call.params, k)
<1>1. /\ pc = "push" /\ n < Len(call.params) /\ pushed' = n + 1
      /\ UNCHANGED <<pc, call, local, seen>>
      /\ \/ Param(p).out /\ results' = Append(results, Pushed(p, local[n + 1]))
         \/ ~Param(p).out /\ results' = results
  BY DEF PushBack
<1>2. /\ ~call.new /\ results \in Seq(Result) /\ n \in Nat
      /\ local \in [DOMAIN call.params -> Stored] /\ LeftIn(local, seen, call)
      /\ BackTo(results, call, local, n)
  BY <1>1 DEF ResultInv
<1>3. /\ call.params \in Seq(Parameter) /\ n + 1 \in DOMAIN call.params
      /\ Base(call) \in Nat
  BY <1>1, <1>2 DEF TypeInv, Called, Base
<1>4. p \in Parameter /\ Param(p).valid /\ Param(p).out \in BOOLEAN
  BY <1>3, ParamIsBoolean DEF TypeInv
<1>5. /\ o(n) \in Nat /\ o(n + 1) = o(n) + IF Param(p).out THEN 1 ELSE 0
      /\ \A i \in 1 .. n : Param(call.params[i]).out => o(i) \in 1 .. o(n)
  <2>1. /\ OutsTo(call.params, n) \in Nat
        /\ OutsTo(call.params, n + 1) = OutsTo(call.params, n) + IF Param(p).out THEN 1 ELSE 0
    BY <1>2, <1>3, OutStep
  <2>2. ASSUME NEW i \in 1 .. n, Param(call.params[i]).out  PROVE o(i) \in 1 .. o(n)
    <3>1. i \in Nat \ {0} /\ i \in Nat /\ i <= n
      BY <1>2
    <3>2. /\ 1 <= OutsTo(call.params, i) /\ OutsTo(call.params, i) \in Nat
          /\ OutsTo(call.params, i) <= OutsTo(call.params, n)
      BY <1>2, <1>3, <2>2, <3>1, OutStep
    <3> QED  BY <1>3, <2>1, <3>2
  <2> QED  BY <1>3, <2>1, <2>2
<1>6. Len(results) = o(n)
      /\ \A i \in 1 .. n : Param(call.params[i]).out =>
           results[o(i)] = Pushed(call.params[i], local[i])
  BY <1>2 DEF BackTo
<1>7. Param(p).out => Pushed(p, local[n + 1]) \in Result
  <2>1. local[n + 1] \in Stored
    BY <1>2, <1>3
  <2>2. Param(p).out => Pushed(p, local[n + 1]).lua \in BOOLEAN
    <3> HIDE DEF p
    <3> QED  BY <1>4, OwnerOfResult
  <2> QED  BY <2>1, <2>2 DEF Pushed, Result
<1> HIDE DEF o, p, n
<1>8. /\ results' \in Seq(Result) /\ Len(results') = o(n + 1)
      /\ \A i \in 1 .. n + 1 : Param(call.params[i]).out =>
           results'[o(i)] = Pushed(call.params[i], local[i])
  <2>1. CASE Param(p).out
    <3>1. results' = Append(results, Pushed(p, local[n + 1])) /\ Pushed(p, local[n + 1]) \in Result
      BY <1>1, <1>7, <2>1
    <3>2. /\ results' \in Seq(Result) /\ Len(results') = o(n) + 1
          /\ \A k \in 1 .. o(n) : results'[k] = results[k]
          /\ results'[o(n) + 1] = Pushed(p, local[n + 1])
      BY <1>2, <1>5, <1>6, <3>1
    <3>3. o(n + 1) = o(n) + 1
      BY <1>5, <2>1
    <3>4. ASSUME NEW i \in 1 .. n + 1, Param(call.params[i]).out
          PROVE  results'[o(i)] = Pushed(call.params[i], local[i])
      <4>1. CASE i = n + 1
        BY <3>2, <3>3, <4>1 DEF p
      <4>2. CASE i \in 1 .. n
        BY <1>5, <1>6, <3>2, <3>4, <4>2
      <4> QED  BY <1>2, <4>1, <4>2
    <3> QED  BY <3>2, <3>3, <3>4
  <2>2. CASE ~Param(p).out
    <3>1. results' = results /\ o(n + 1) = o(n)
      BY <1>1, <1>5, <2>2
    <3>2. \A i \in 1 .. n + 1 : Param(call.params[i]).out => i \in 1 .. n
      BY <1>2, <2>2 DEF p
    <3> QED  BY <1>2, <1>6, <3>1, <3>2
  <2> QED  BY <2>1, <2>2
<1>9. BackTo(results', call, local, n + 1)
  BY <1>8 DEF BackTo, o
<1> QED  BY <1>1, <1>2, <1>3, <1>8, <1>9 DEF ResultInv, n

LEMMA ResultInvReturns ==
  ASSUME TypeInv, ResultInv, ReturnCount
  PROVE  ResultInv'
<1>1. /\ pc = "push" /\ pc' = "done" /\ pushed = Len(call.params)
      /\ count' = (IF Return(call.ret).out THEN 1 ELSE 0) + lua_return_count(call.params)
      /\ UNCHANGED <<call, local, seen, pushed, results>>
  BY DEF ReturnCount
<1>2. call.ret.trait \in ReturnTraits /\ call.params \in Seq(Parameter)
  BY DEF TypeInv, Called, Type, ReturnTraits
<1>3. (IF Return(call.ret).out THEN 1 ELSE 0) = Base(call)
  <2>1. Return(call.ret).out = (call.ret.trait # "void")
    BY <1>2, ReturnCases
  <2> QED  BY <2>1 DEF Base
<1>4. lua_return_count(call.params) = OutsTo(call.params, Len(call.params))
  <2>1. DOMAIN call.params = 1 .. Len(call.params)
    BY <1>2
  <2> QED  BY <2>1 DEF lua_return_count, OutsTo
<1> QED  BY <1>1, <1>3, <1>4 DEF ResultInv

THEOREM ResultCorrect == Spec => []ResultInv
<1>1. Init => ResultInv
  BY DEF Init, ResultInv
<1>2. TypeInv /\ ResultInv /\ [Next]_vars => ResultInv'
  <2> SUFFICES ASSUME TypeInv, ResultInv, [Next]_vars  PROVE ResultInv'
    OBVIOUS
  <2>1. ASSUME NEW a, NEW c, NEW first, NEW at \in {"pull", "done", "error"},
               Start(c, a, first, at), at = "done" => c.new
        PROVE  ResultInv'
    BY <2>1 DEF Start, ResultInv
  <2>2. ASSUME NEW a \in Args, NEW f \in Exported, Call(f, a)  PROVE ResultInv'
    BY <2>1, <2>2 DEF Call
  <2>3. ASSUME NEW a \in Args, NEW b \in Blocks, New(b, a)  PROVE ResultInv'
    BY <2>1, <2>3, NewCases DEF Constructor
  <2>4. CASE PullParam
    <3>1. pc = "pull" /\ pc' \in {"pull", "error"} /\ UNCHANGED pushed
      BY <2>4 DEF PullParam
    <3> QED  BY <3>1 DEF ResultInv
  <2>5. CASE CallFunction
    BY <2>5, ResultInvCalls
  <2>6. CASE PushBack
    BY <2>6, ResultInvPushes
  <2>7. CASE ReturnCount
    BY <2>7, ResultInvReturns
  <2>8. CASE Continue
    BY <2>8 DEF Continue, ResultInv
  <2>9. CASE UNCHANGED vars
    BY <2>9 DEF vars, ResultInv
  <2> QED  BY <2>2, <2>3, <2>4, <2>5, <2>6, <2>7, <2>8, <2>9 DEF Next
<1> QED  BY <1>1, <1>2, TypeCorrect, PTL DEF Spec

(* Lua gets the return value and what the function left in each output,     *)
(* as many as the wrapper reports, and owns what was made for it.           *)
THEOREM ResultsCorrect == Spec => []ResultsAreTrue
<1>1. ASSUME TypeInv, ResultInv  PROVE ResultsAreTrue
  <2> SUFFICES ASSUME pc = "done", ~call.new
               PROVE  /\ count = Len(results) /\ count = ResultOf(Len(call.params))
                      /\ \A i \in DOMAIN call.params :
                           Param(call.params[i]).out =>
                             /\ results[ResultOf(i)].lua =
                                  (call.params[i].raw = "class" /\ ~Param(call.params[i]).in)
                             /\ \/ StoresInCopy(call.params[i])
                                \/ results[ResultOf(i)].v = seen[i]
    BY DEF ResultsAreTrue
  <2>1. \A k : ResultOf(k) = Base(call) + OutsTo(call.params, k)
    BY DEF ResultOf, Base, OutsTo
  <2>2. /\ count = Base(call) + OutsTo(call.params, Len(call.params))
        /\ BackTo(results, call, local, Len(call.params)) /\ LeftIn(local, seen, call)
    BY <1>1 DEF ResultInv
  <2>3. count = Len(results) /\ count = ResultOf(Len(call.params))
    BY <2>1, <2>2 DEF BackTo
  <2>4. ASSUME NEW i \in DOMAIN call.params, Param(call.params[i]).out
        PROVE  /\ results[ResultOf(i)].lua =
                    (call.params[i].raw = "class" /\ ~Param(call.params[i]).in)
               /\ StoresInCopy(call.params[i]) \/ results[ResultOf(i)].v = seen[i]
    <3>1. /\ i \in 1 .. Len(call.params)
          /\ call.params[i] \in Parameter /\ Param(call.params[i]).valid
      BY <1>1 DEF TypeInv, Called
    <3>2. results[ResultOf(i)] = Pushed(call.params[i], local[i])
      BY <2>1, <2>2, <2>4, <3>1 DEF BackTo
    <3>3. StoresInCopy(call.params[i]) \/ local[i] = seen[i]
      BY <2>2 DEF LeftIn
    <3> QED  BY <2>4, <3>1, <3>2, <3>3, OwnerOfResult
  <2> QED  BY <2>3, <2>4
<1> QED  BY <1>1, TypeCorrect, ResultCorrect, PTL
=============================================================================

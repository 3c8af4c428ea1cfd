-------------------------- MODULE ScriptHostProofs --------------------------
(***************************************************************************)
(* HostInv and the contract of the scripts for every source, stepSize and   *)
(* number of failing calls, whatever addresses the source gives more than   *)
(* once.  The inductive invariant adds to HostInv that the constructor      *)
(* starts with no error stored, that a context at step "end" may be         *)
(* yielded, that one which was not taken is new, and that the executor of   *)
(* an address has the context of a miner of that address which was taken.   *)
(* After it, for every hierarchy of classes: what a lookup by name finds.   *)
(***************************************************************************)
EXTENDS MCScriptHost, WellFoundedInduction, TLAPS

Fresh ==
  /\ pc \in {"new", "exported"} => lastError = "none" /\ message = "none" /\ cause = "none" /\ stack <= 1
  /\ pc = "new" => stack = 0

Untaken == \A x \in Items : x >= next => context[x] = newContext

EndYields == \A x \in Items : context[x].stepName = "end" => context[x].canYield

ExecutorsByAddress ==
  \A ip \in Ips : executors[ip] # 0 =>
    executors[ip] \in 1 .. next - 1 /\ ipOf[executors[ip]] = ip

HInv ==
  /\ TypeOK
  /\ StackIsLevel
  /\ ThrownIsTheCause
  /\ Fresh
  /\ Untaken
  /\ EndYields
  /\ ExecutorsByAddress
  /\ DeletedForRepeatsOnly
  /\ DeletedAtEnd
  /\ EndsAreHeard
  /\ ContextsInUse

\* An item of the source that has not been taken is one of the miners.
LEMMA MoreIsItem == ASSUME TypeOK, More PROVE next \in Items /\ next + 1 \in 1 .. N + 1
  BY HostAssumption DEF TypeOK, More, Items

\* The executor that acts for x acts on x or on the context of another miner of the
\* same address, which was taken.
LEMMA OwnerHasAddress ==
  ASSUME TypeOK, ExecutorsByAddress, NEW x \in Items
  PROVE  /\ Owner(x) \in Items /\ ipOf[Owner(x)] = ipOf[x]
         /\ Owner(x) # x => Owner(x) \in 1 .. next - 1
<1>1. ipOf[x] \in Ips
  BY IpAssumption
<1>2. CASE executors[ipOf[x]] = 0
  BY <1>2 DEF Owner
<1>3. CASE executors[ipOf[x]] # 0
  <2>1. executors[ipOf[x]] \in 1 .. next - 1 /\ ipOf[executors[ipOf[x]]] = ipOf[x]
    BY <1>1, <1>3 DEF ExecutorsByAddress
  <2>2. Owner(x) = executors[ipOf[x]]
    BY <1>3 DEF Owner
  <2>3. executors[ipOf[x]] \in Items
    BY <2>1, HostAssumption DEF TypeOK, Items
  <2> QED BY <2>1, <2>2, <2>3
<1> QED BY <1>2, <1>3

\* What a step of an executor leaves is a context, with something to yield at "end".
LEMMA StepsOfContext ==
  ASSUME NEW c \in Contexts
  PROVE  /\ \A d \in Steps(c) : /\ d \in Contexts /\ (c.canYield => d.canYield)
                                /\ (d.stepName = "end" => d.canYield)
         /\ End(c) \in Contexts /\ End(c).stepName = "end" /\ End(c).canYield
         /\ \A d \in Partly(c) : d = c \/ d \in Steps(c)
  BY DEF Contexts, Steps, Partly, End, setStepName, setCanYield

\* What a failing call leaves of the Lua state.
LEMMA FailsIsLevel ==
  ASSUME TypeOK, StackIsLevel, NEW error \in Errors, Fails(error), stack < StackLimit
  PROVE  /\ stack' \in 0 .. StackLimit /\ memory' \in 0 .. MaxMemory /\ stack' = memory'
         /\ stack' <= stack + 1
         /\ lastError' \in Errors
         /\ lastError' = (IF error = "memory" THEN lastError ELSE error)
  BY HostAssumption, StackAssumption DEF Fails, Stored, TypeOK, StackIsLevel

\* The effect of a call of the script about x: of the other contexts it changes at
\* most one, that of another miner of the address, in use or ended but not deleted.
CallEffect(x) ==
  /\ stack' \in 0 .. StackLimit /\ memory' \in 0 .. MaxMemory /\ stack' = memory'
  /\ lastError' \in Errors
  /\ context' \in [Items -> Contexts]
  /\ \A y \in Items : context[y].canYield => context'[y].canYield
  /\ \A y \in Items : context'[y].stepName = "end" => context'[y].canYield
  /\ \A y \in Items \ {x} : context'[y] # context[y] =>
       y \notin ended /\ ipOf[y] = ipOf[x] /\ y \in 1 .. next - 1
  /\ executors' \in [Ips -> 0 .. N]
  /\ \A ip \in Ips : \/ executors'[ip] = executors[ip]
                     \/ ip = ipOf[x] /\ executors'[ip] = Owner(x)

LEMMA CallHasEffect ==
  ASSUME TypeOK, StackIsLevel, EndYields, ExecutorsByAddress, NEW x \in Items, Call(x)
  PROVE  CallEffect(x)
<1> DEFINE o == Owner(x)
<1>1. /\ context \in [Items -> Contexts] /\ executors \in [Ips -> 0 .. N]
      /\ o \in Items /\ ipOf[o] = ipOf[x] /\ (o # x => o \in 1 .. next - 1)
  BY OwnerHasAddress DEF TypeOK
<1>2. ASSUME NEW c \in Contexts
      PROVE  /\ \A d \in Steps(c) : /\ d \in Contexts /\ (c.canYield => d.canYield)
                                    /\ (d.stepName = "end" => d.canYield)
             /\ End(c) \in Contexts /\ End(c).stepName = "end" /\ End(c).canYield
             /\ \A d \in Partly(c) : d = c \/ d \in Steps(c)
  BY StepsOfContext
<1> DEFINE Kept == /\ executors' \in [Ips -> 0 .. N]
                   /\ \A ip \in Ips : \/ executors'[ip] = executors[ip]
                                      \/ ip = ipOf[x] /\ executors'[ip] = o
           Good(y, d) == /\ d \in Contexts /\ (context[y].canYield => d.canYield)
                         /\ (d.stepName = "end" => d.canYield)
           Fine == /\ context' \in [Items -> Contexts]
                   /\ \A y \in Items : context[y].canYield => context'[y].canYield
                   /\ \A y \in Items : context'[y].stepName = "end" => context'[y].canYield
                   /\ \A y \in Items \ {x} : context'[y] # context[y] =>
                        y \notin ended /\ ipOf[y] = ipOf[x] /\ y \in 1 .. next - 1
<1>3. \A y \in Items : Good(y, context[y])
  BY <1>1 DEF EndYields
<1>4. /\ \A d \in Steps(context[o]) : Good(o, d)
      /\ \A d \in Partly(context[o]) : Good(o, d)
      /\ Good(x, End(context[x]))
  <2>1. context[o] \in Contexts /\ context[x] \in Contexts
    BY <1>1
  <2> QED BY <1>2, <1>3, <1>1, <2>1
<1> HIDE DEF Good
<1>5. ASSUME executors' \in {executors, [executors EXCEPT ![ipOf[x]] = o]}
      PROVE  Kept
  <2>1. o \in 0 .. N
    BY <1>1, HostAssumption DEF Items
  <2>2. CASE executors' = executors
    BY <1>1, <2>2
  <2>3. CASE executors' = [executors EXCEPT ![ipOf[x]] = o]
    <3> HIDE DEF o
    <3>1. /\ executors' \in [Ips -> 0 .. N]
          /\ \A ip \in Ips : executors'[ip] = IF ip = ipOf[x] THEN o ELSE executors[ip]
      BY <1>1, <2>1, <2>3
    <3> QED BY <3>1
  <2> QED BY <1>5, <2>2, <2>3
<1>6. ASSUME NEW d, Good(o, d), context' = [context EXCEPT ![o] = d], o \notin ended
      PROVE  Fine
  BY <1>1, <1>3, <1>6 DEF Good
<1>7. ASSUME NEW d, Good(o, d), Good(x, End(context[x])), o \notin ended,
             context' = [context EXCEPT ![o] = d, ![x] = End(context[x])]
      PROVE  Fine
  <2>1. /\ context'[x] = End(context[x])
        /\ o # x => context'[o] = d
        /\ \A y \in Items \ {x, o} : context'[y] = context[y]
        /\ context' \in [Items -> Contexts]
    BY <1>1, <1>7 DEF Good
  <2> QED BY <1>1, <1>3, <1>7, <2>1 DEF Good
<1>8. CASE HasRoom /\ o \notin ended /\ Helper(x) /\ UNCHANGED script
  <2>1. stack' \in 0 .. StackLimit /\ memory' \in 0 .. MaxMemory /\ stack' = memory' /\ lastError' \in Errors
    BY <1>8 DEF script, TypeOK, StackIsLevel
  <2>2. Fine
    <3>1. CASE \E d \in Steps(context[o]) : context' = [context EXCEPT ![o] = d]
      BY <1>4, <1>6, <1>8, <3>1
    <3>2. CASE \E d \in Partly(context[o]) :
                 context' = [context EXCEPT ![o] = d, ![x] = End(context[x])]
      BY <1>4, <1>7, <1>8, <3>2
    <3> QED BY <1>8, <3>1, <3>2 DEF Helper
  <2>3. Kept
    BY <1>5, <1>8 DEF Helper
  <2> QED BY <2>1, <2>2, <2>3 DEF CallEffect
<1>9. CASE HasRoom /\ o \notin ended /\ Escapes(x)
  <2>1. stack' \in 0 .. StackLimit /\ memory' \in 0 .. MaxMemory /\ stack' = memory' /\ lastError' \in Errors
    BY <1>9, FailsIsLevel DEF Escapes, HasRoom, Errors
  <2>2. Fine
    BY <1>4, <1>6, <1>9 DEF Escapes
  <2>3. Kept
    BY <1>5, <1>9 DEF Escapes
  <2> QED BY <2>1, <2>2, <2>3 DEF CallEffect
<1>10. CASE ~HasRoom /\ Stored("stack") /\ UNCHANGED <<context, executors>>
  <2>1. stack' \in 0 .. StackLimit /\ memory' \in 0 .. MaxMemory /\ stack' = memory' /\ lastError' \in Errors
    BY <1>10 DEF Stored, TypeOK, StackIsLevel, Errors
  <2>2. context' = context /\ executors' = executors
    BY <1>10
  <2>3. Fine
    BY <1>1, <1>3, <2>2 DEF Good
  <2>4. Kept
    BY <1>1, <2>2
  <2> QED BY <2>1, <2>3, <2>4 DEF CallEffect
<1> QED BY <1>8, <1>9, <1>10 DEF Call

\* A call about a context that is then yielded, and deleted or submitted: what every
\* action of the driver with a call does.
Handled(x) ==
  /\ CallEffect(x) /\ Yielded(x)
  /\ IF Ends(x) THEN ended' = ended \cup {x} ELSE UNCHANGED ended

\* The miner of a call comes before the next one of the source.
LEMMA BeforeNext ==
  ASSUME NEW x \in Items, NEW n \in 1 .. N + 1, n > x
  PROVE  x \in 1 .. n - 1
BY HostAssumption DEF Items

LEMMA HandledKeeps ==
  ASSUME HInv, NEW x \in Items, x \notin ended, Handled(x),
         next' \in 1 .. N + 1, next' >= next, next' > x
  PROVE  /\ StackIsLevel' /\ DeletedAtEnd' /\ Untaken' /\ EndYields' /\ ExecutorsByAddress'
         /\ EndsAreHeard'
         /\ stack' \in 0 .. StackLimit /\ memory' \in 0 .. MaxMemory /\ lastError' \in Errors
         /\ context' \in [Items -> Contexts] /\ executors' \in [Ips -> 0 .. N]
         /\ ended' \subseteq Items /\ heard' \subseteq Items /\ stopped' \in BOOLEAN
<1>1. CallEffect(x) /\ Yielded(x) /\ (IF Ends(x) THEN ended' = ended \cup {x} ELSE UNCHANGED ended)
  BY DEF Handled
<1>2. StackIsLevel' /\ EndYields'
  BY <1>1 DEF CallEffect, StackIsLevel, EndYields
<1>3. DeletedAtEnd'
  <2> SUFFICES ASSUME NEW y \in Items
               PROVE  /\ y \in ended' => context'[y].stepName = "end"
                      /\ Single(y) /\ context'[y].stepName = "end" => y \in ended'
    BY DEF DeletedAtEnd, Single
  <2>1. CASE y = x
    BY <1>1, <2>1 DEF Ends
  <2>2. CASE y # x
    <3>1. y \in ended' <=> y \in ended
      BY <1>1, <2>2
    <3>2. context'[y] # context[y] => y \notin ended /\ ~Single(y)
      BY <1>1, <2>2 DEF CallEffect, Single
    <3>3. /\ y \in ended => context[y].stepName = "end"
          /\ Single(y) /\ context[y].stepName = "end" => y \in ended
      BY Zenon DEF HInv, DeletedAtEnd
    <3>4. CASE context'[y] = context[y]
      BY <3>1, <3>3, <3>4
    <3>5. CASE context'[y] # context[y]
      BY <3>1, <3>2, <3>5
    <3> QED BY <3>4, <3>5
  <2> QED BY <2>1, <2>2
<1>6. ExecutorsByAddress'
  <2> SUFFICES ASSUME NEW ip \in Ips, executors'[ip] # 0
               PROVE  executors'[ip] \in 1 .. next' - 1 /\ ipOf[executors'[ip]] = ip
    BY DEF ExecutorsByAddress
  <2>1. next \in 1 .. N + 1 /\ x \in 1 .. next' - 1
    BY BeforeNext DEF HInv, TypeOK
  <2>2. CASE executors'[ip] = executors[ip]
    BY <2>1, <2>2, HostAssumption DEF HInv, ExecutorsByAddress
  <2>3. CASE ip = ipOf[x] /\ executors'[ip] = Owner(x)
    BY <2>1, <2>3, OwnerHasAddress, HostAssumption DEF HInv
  <2> QED BY <1>1, <2>2, <2>3 DEF CallEffect
<1>4. Untaken'
  <2> SUFFICES ASSUME NEW y \in Items, y >= next' PROVE context'[y] = newContext
    BY DEF Untaken, newContext
  <2>1. y >= next /\ y # x /\ y \notin 1 .. next - 1
    BY HostAssumption DEF HInv, TypeOK, Items
  <2> QED BY <1>1, <2>1 DEF CallEffect, HInv, Untaken
<1>5. EndsAreHeard' /\ heard' \subseteq Items /\ ended' \subseteq Items /\ stopped' \in BOOLEAN
  <2>1. ended = heard /\ ended \subseteq Items /\ heard \subseteq Items /\ stopped \in BOOLEAN
    BY DEF HInv, TypeOK, EndsAreHeard
  <2>2. stopped' \in BOOLEAN /\ heard' = IF context'[x].canYield /\ Ends(x) THEN heard \cup {x} ELSE heard
    BY <1>1, <2>1 DEF Yielded
  <2>3. Ends(x) => context'[x].canYield
    BY <1>1 DEF Ends, CallEffect
  <2> QED BY <1>1, <2>1, <2>2, <2>3 DEF EndsAreHeard
<1> QED BY <1>1, <1>2, <1>3, <1>4, <1>5, <1>6 DEF CallEffect

\* The parts of HInv that the actions with a call share.
LEMMA CallKeepsHInv ==
  ASSUME HInv, NEW x \in Items, x \notin ended, Handled(x),
         pc \in {"fill", "run", "again", "next"},
         pc' \in {"fill", "run", "again", "next", "thrown"},
         UNCHANGED setUp,
         next' \in 1 .. N + 1, next' >= next, next' > x,
         i' \in 0 .. stepSize, client' \in BOOLEAN, current' \in 0 .. N,
         inflight' \subseteq Items, ContextsInUse'
  PROVE  HInv'
<1>1. /\ StackIsLevel' /\ DeletedAtEnd' /\ Untaken' /\ EndYields' /\ ExecutorsByAddress'
      /\ EndsAreHeard'
      /\ stack' \in 0 .. StackLimit /\ memory' \in 0 .. MaxMemory /\ lastError' \in Errors
      /\ context' \in [Items -> Contexts] /\ executors' \in [Ips -> 0 .. N]
      /\ ended' \subseteq Items /\ heard' \subseteq Items /\ stopped' \in BOOLEAN
  BY HandledKeeps
<1>2. TypeOK'
  BY <1>1 DEF TypeOK, HInv, setUp
<1>3. ThrownIsTheCause' /\ Fresh' /\ DeletedForRepeatsOnly'
  BY DEF HInv, ThrownIsTheCause, Fresh, DeletedForRepeatsOnly, setUp
<1> QED BY <1>1, <1>2, <1>3 DEF HInv

LEMMA HInit == Init => HInv
  <1> SUFFICES ASSUME Init PROVE HInv
    OBVIOUS
  <1>1. newContext \in Contexts /\ newContext.stepName # "end"
    BY DEF newContext, Contexts
  <1>2. TypeOK
    <2>1. /\ stack \in 0 .. StackLimit /\ memory \in 0 .. MaxMemory
          /\ next \in 1 .. N + 1 /\ i \in 0 .. stepSize /\ current \in 0 .. N
      BY HostAssumption, StackAssumption DEF Init, NewScript
    <2>2. /\ pc \in {"new", "exported", "fill", "run", "again", "next", "done", "thrown", "undefined"}
          /\ lastError \in Errors /\ message \in Errors /\ cause \in Errors
          /\ loader \in BOOLEAN /\ client \in BOOLEAN /\ stopped \in BOOLEAN
          /\ inflight \subseteq Items /\ ended \subseteq Items /\ heard \subseteq Items
      BY DEF Init, NewScript, Errors
    <2>3. context \in [Items -> Contexts]
      BY <1>1 DEF Init
    <2>4. executors \in [Ips -> 0 .. N]
      BY HostAssumption DEF Init
    <2> QED BY <2>1, <2>2, <2>3, <2>4 DEF TypeOK
  <1>3. ExecutorsByAddress /\ EndYields /\ DeletedForRepeatsOnly
    BY <1>1 DEF Init, ExecutorsByAddress, EndYields, DeletedForRepeatsOnly
  <1>4. ContextsInUse
    <2>1. next = 1 /\ inflight = {} /\ ended = {} /\ pc # "again"
      BY DEF Init
    <2>2. 1 .. next - 1 = {}
      BY <2>1
    <2> QED BY <2>1, <2>2 DEF ContextsInUse
  <1>5. StackIsLevel /\ ThrownIsTheCause /\ Fresh
    BY DEF Init, NewScript, StackIsLevel, ThrownIsTheCause, Fresh
  <1>6. Untaken /\ DeletedAtEnd /\ EndsAreHeard
    BY <1>1 DEF Init, Untaken, DeletedAtEnd, EndsAreHeard
  <1> QED
    BY <1>2, <1>3, <1>4, <1>5, <1>6 DEF HInv

\* The actions that make or break the script.
LEMMA SetUpStep ==
  ASSUME HInv, setScriptLoader \/ exportAll \/ runFile
  PROVE  HInv'
<1>1. TypeOK /\ StackIsLevel /\ ThrownIsTheCause /\ Fresh
  BY DEF HInv
<1>2. UNCHANGED <<driver, context, executors, heard>>
  BY DEF setScriptLoader, exportAll, runFile
<1>3. Untaken' /\ DeletedAtEnd' /\ EndYields' /\ ExecutorsByAddress' /\ EndsAreHeard'
  BY <1>2 DEF HInv, driver, Untaken, DeletedAtEnd, Single, EndYields, ExecutorsByAddress,
              EndsAreHeard
<1>7. DeletedForRepeatsOnly'
  BY DEF setScriptLoader, exportAll, runFile, Thrown, DeletedForRepeatsOnly
<1>4. CASE setScriptLoader
  BY <1>1, <1>2, <1>3, <1>4, <1>7 DEF setScriptLoader, HInv, TypeOK, StackIsLevel, ThrownIsTheCause,
                                Fresh, ContextsInUse, script, driver
<1>5. CASE exportAll
  <2>1. pc = "new" /\ pc' = "exported" /\ UNCHANGED setUp
    BY <1>5 DEF exportAll
  <2>2. /\ stack' \in 0 .. StackLimit /\ memory' \in 0 .. MaxMemory /\ stack' = memory'
        /\ stack' <= 1 /\ lastError' = lastError /\ lastError' \in Errors
    <3>1. CASE UNCHANGED script
      BY <1>1, <2>1, <3>1 DEF script, TypeOK, StackIsLevel, Fresh
    <3>2. CASE Fails("memory")
      <4>1. stack = 0 /\ stack < StackLimit /\ "memory" \in Errors
        BY <1>1, <2>1, StackAssumption DEF Errors, Fresh
      <4>2. /\ stack' \in 0 .. StackLimit /\ memory' \in 0 .. MaxMemory /\ stack' = memory'
            /\ stack' <= stack + 1 /\ lastError' \in Errors
            /\ lastError' = IF "memory" = "memory" THEN lastError ELSE "memory"
        BY <1>1, <3>2, <4>1, FailsIsLevel
      <4> QED BY <4>1, <4>2
    <3> QED BY <1>5, <3>1, <3>2 DEF exportAll
  <2>3. TypeOK'
    BY <1>1, <1>2, <2>1, <2>2 DEF TypeOK, setUp, driver
  <2>4. ContextsInUse'
    BY <1>2, <2>1 DEF HInv, ContextsInUse, driver
  <2> QED BY <1>1, <1>3, <1>7, <2>1, <2>2, <2>3, <2>4 DEF HInv, StackIsLevel, ThrownIsTheCause, Fresh, setUp
<1>6. CASE runFile
  <2>1. pc = "exported" /\ pc' \in {"fill", "thrown"} /\ UNCHANGED loader
    BY <1>6 DEF runFile, Thrown, setUp
  <2>2. /\ stack' \in 0 .. StackLimit /\ memory' \in 0 .. MaxMemory /\ stack' = memory'
        /\ lastError' \in Errors /\ message' \in Errors /\ cause' \in Errors /\ ThrownIsTheCause'
    <3>1. CASE pc' = "fill" /\ UNCHANGED <<script, setUp>>
      BY <1>1, <3>1 DEF TypeOK, StackIsLevel, ThrownIsTheCause, script, setUp
    <3>2. CASE Thrown("loader", "loader") /\ UNCHANGED script
      BY <1>1, <3>2 DEF TypeOK, StackIsLevel, ThrownIsTheCause, script, Thrown, Errors
    <3>3. CASE \E error \in run_file : Fails(error) /\ Thrown(LastError', error)
      <4>1. PICK error \in run_file : Fails(error) /\ Thrown(LastError', error)
        BY <3>3
      <4>2. error \in Errors /\ error # "none" /\ stack < StackLimit /\ lastError = "none"
        <5>1. error \in Errors /\ error # "none"
          BY <4>1 DEF run_file, run_chunk, Errors
        <5>2. stack \in Nat /\ stack <= 1 /\ lastError = "none"
          BY <1>1, <2>1, StackAssumption DEF Fresh, TypeOK
        <5> QED BY <5>1, <5>2, StackAssumption
      <4>3. /\ stack' \in 0 .. StackLimit /\ memory' \in 0 .. MaxMemory /\ stack' = memory'
            /\ lastError' \in Errors
            /\ lastError' = (IF error = "memory" THEN lastError ELSE error)
        BY <1>1, <4>1, <4>2, FailsIsLevel
      <4> QED BY <4>1, <4>2, <4>3 DEF Thrown, LastError, ThrownIsTheCause
    <3> QED BY <1>6, <3>1, <3>2, <3>3 DEF runFile, run_file
  <2>3. TypeOK'
    BY <1>1, <1>2, <2>1, <2>2 DEF TypeOK, driver
  <2>4. ContextsInUse' /\ Fresh'
    BY <1>2, <2>1 DEF HInv, ContextsInUse, Fresh, driver
  <2> QED BY <1>3, <1>7, <2>2, <2>3, <2>4 DEF HInv, StackIsLevel
<1> QED BY <1>4, <1>5, <1>6

LEMMA UnchangedKeeps ==
  ASSUME HInv, UNCHANGED <<script, setUp, next, i, stopped, inflight, ended, current,
                           context, executors, heard>>,
         client' \in BOOLEAN, pc' \in {"run", "done", "thrown"}
  PROVE  HInv'
<1>1. TypeOK' /\ ContextsInUse'
  BY DEF HInv, TypeOK, ContextsInUse, script, setUp
<1> QED
  BY <1>1 DEF HInv, StackIsLevel, ThrownIsTheCause, Fresh, Untaken, DeletedAtEnd, Single, EndYields,
              ExecutorsByAddress, DeletedForRepeatsOnly, EndsAreHeard, script, setUp

\* A new context: fill and doNextWork.
LEMMA TakeStep ==
  ASSUME HInv, More, pc \in {"fill", "next"}, Call(next), Yielded(next), next' = next + 1,
         UNCHANGED <<setUp, current>>, i' \in 0 .. stepSize, client' \in BOOLEAN,
         NEW then \in {"fill", "run", "next"}, NEW on \in {"fill", "run", "next"},
         IF Ends(next) THEN Delete(next, on) ELSE Submit(next, then)
  PROVE  HInv'
<1>1. /\ TypeOK /\ StackIsLevel /\ EndYields /\ ExecutorsByAddress
      /\ next \in Items /\ next + 1 \in 1 .. N + 1
  BY MoreIsItem DEF HInv
<1>2. /\ next \notin ended /\ next \notin inflight
      /\ inflight \cap ended = {} /\ inflight \cup ended = 1 .. next - 1
  <2>1. inflight \cap ended = {} /\ inflight \cup ended = 1 .. next - 1
    BY DEF HInv, ContextsInUse
  <2> QED BY <1>1, <2>1 DEF Items
<1>3. CallEffect(next)
  BY <1>1, CallHasEffect
<1>4. Handled(next)
  BY <1>3 DEF Handled, Delete, Submit
<1>5. \/ ended' = ended \cup {next} /\ inflight' = inflight \ {next}
      \/ ended' = ended /\ inflight' = inflight \cup {next}
  BY DEF Delete, Submit
<1>6. pc' \in {"fill", "run", "next", "thrown"}
  BY DEF Delete, Submit
<1>7. ContextsInUse'
  <2>1. 1 .. next' - 1 = (1 .. next - 1) \cup {next}
    BY <1>1, HostAssumption DEF Items
  <2> QED BY <1>2, <1>5, <1>6, <2>1 DEF ContextsInUse
<1>8. inflight' \subseteq Items
  BY <1>1, <1>5 DEF TypeOK
<1>9. next' >= next /\ next' > next /\ current' \in 0 .. N
  BY <1>1, HostAssumption DEF Items, TypeOK
<1> QED BY <1>1, <1>2, <1>4, <1>6, <1>7, <1>8, <1>9, CallKeepsHInv

\* A context that has a session: onResponse and askAgain.
LEMMA SessionStep ==
  ASSUME HInv, NEW x \in inflight, pc \in {"run", "again"}, Call(x), Yielded(x),
         current' = x, UNCHANGED <<setUp, next, i, client>>,
         \/ Ends(x) /\ Delete(x, "next")
         \/ ~Ends(x) /\ pc' = "again" /\ UNCHANGED <<inflight, ended>>
         \/ ~Ends(x) /\ Submit(x, "run")
  PROVE  HInv'
<1>1. TypeOK /\ StackIsLevel /\ EndYields /\ ExecutorsByAddress
  BY DEF HInv
<1>2. /\ x \in Items /\ x \notin ended /\ x < next
      /\ inflight \cap ended = {} /\ inflight \cup ended = 1 .. next - 1
  BY <1>1, HostAssumption DEF HInv, ContextsInUse, TypeOK, Items
<1>4. CallEffect(x)
  BY <1>1, <1>2, CallHasEffect
<1>5. Handled(x)
  BY <1>4 DEF Handled, Delete, Submit
<1>6. \/ ended' = ended \cup {x} /\ inflight' = inflight \ {x} /\ pc' = "next"
      \/ ended' = ended /\ inflight' = inflight /\ pc' \in {"again", "run", "thrown"}
  BY DEF Delete, Submit
<1>7. ContextsInUse' /\ inflight' \subseteq Items
  BY <1>1, <1>2, <1>6 DEF ContextsInUse, TypeOK
<1>8. next' \in 1 .. N + 1 /\ next' >= next /\ next' > x /\ i' \in 0 .. stepSize
  BY <1>1, <1>2, HostAssumption DEF TypeOK, Items
<1>9. client' \in BOOLEAN /\ current' \in 0 .. N /\ pc' \in {"fill", "run", "again", "next", "thrown"}
  BY <1>1, <1>2, <1>6, HostAssumption DEF TypeOK, Items
<1> QED BY <1>2, <1>5, <1>7, <1>8, <1>9, CallKeepsHInv

\* The miner of a call is not deleted when the driver makes the call.
LEMMA CallerInUse ==
  ASSUME HInv, NEW x \in Items,
         \/ pc \in {"fill", "next"} /\ More /\ x = next
         \/ pc = "run" /\ x \in inflight
         \/ pc = "again" /\ x = current
  PROVE  x \notin ended
<1>1. inflight \cap ended = {} /\ ended \subseteq 1 .. next - 1 /\ (pc = "again" => current \in inflight)
  BY DEF HInv, ContextsInUse
<1>2. next \in Nat
  BY HostAssumption DEF HInv, TypeOK
<1> QED
  BY <1>1, <1>2

\* A deleted context is used: its miner ended and has the address of the caller.
LEMMA DeletedStep ==
  ASSUME HInv, NEW x \in Items, useDeleted(x)
  PROVE  HInv'
<1>1. /\ Owner(x) \in ended /\ pc' = "undefined" /\ current' = x
      /\ pc \in {"fill", "next", "run", "again"}
      /\ UNCHANGED <<script, setUp, next, i, client, stopped, inflight, ended,
                     context, executors, heard>>
  BY DEF useDeleted, UsesDeleted
<1>2. x \notin ended
  BY CallerInUse DEF useDeleted
<1>3. Owner(x) # x /\ ipOf[Owner(x)] = ipOf[x]
  BY <1>1, <1>2, OwnerHasAddress DEF HInv
<1>4. DeletedForRepeatsOnly'
  BY <1>1, <1>3 DEF DeletedForRepeatsOnly
<1>5. TypeOK' /\ ContextsInUse'
  BY <1>1, HostAssumption DEF HInv, TypeOK, ContextsInUse, script, setUp, Items
<1> QED
  BY <1>1, <1>4, <1>5 DEF HInv, StackIsLevel, ThrownIsTheCause, Fresh, Untaken, DeletedAtEnd, Single,
              EndYields, ExecutorsByAddress, EndsAreHeard, script, setUp

LEMMA HStep == HInv /\ [Next]_vars => HInv'
<1> SUFFICES ASSUME HInv, [Next]_vars PROVE HInv'
  OBVIOUS
<1>1. CASE setScriptLoader \/ exportAll \/ runFile
  BY <1>1, SetUpStep
<1>2. CASE fill
  <2>1. CASE i < stepSize /\ More
    <3>1. /\ Call(next) /\ Yielded(next) /\ next' = next + 1 /\ UNCHANGED <<setUp, current>>
          /\ IF Ends(next) THEN Delete(next, "fill") ELSE Submit(next, "fill")
      BY <1>2, <2>1 DEF fill, makeRequest
    <3>2. i' \in 0 .. stepSize /\ client' \in BOOLEAN
      <4>1. i \in 0 .. stepSize /\ client \in BOOLEAN
        BY DEF HInv, TypeOK
      <4>2. UNCHANGED <<i, client>> \/ (i' = i + 1 /\ client' = TRUE)
        BY <1>2, <2>1, Zenon DEF fill, Delete, Submit
      <4>3. i' \in 0 .. stepSize
        BY <2>1, <4>1, <4>2, HostAssumption
      <4>4. client' \in BOOLEAN
        BY <4>1, <4>2, Zenon
      <4> QED BY <4>3, <4>4
    <3>3. pc = "fill"
      BY <1>2 DEF fill
    <3> QED BY <2>1, <3>1, <3>2, <3>3, TakeStep
  <2>2. CASE ~(i < stepSize /\ More)
    BY <1>2, <2>2, UnchangedKeeps DEF fill
  <2> QED BY <2>1, <2>2
<1>3. CASE \E x \in Items : onResponse(x)
  <2>1. PICK x \in Items : onResponse(x)
    BY <1>3
  <2> QED BY <2>1, SessionStep DEF onResponse, makeResult, AfterResult
<1>4. CASE askAgain
  <2>1. current \in inflight /\ pc = "again" /\ current' = current
    BY <1>4 DEF askAgain, HInv, ContextsInUse
  <2> QED BY <1>4, <2>1, SessionStep DEF askAgain, makeRequest
<1>5. CASE doNextWork
  <2>1. CASE More
    <3>1. /\ Call(next) /\ Yielded(next) /\ next' = next + 1 /\ UNCHANGED <<setUp, current>>
          /\ IF Ends(next) THEN Delete(next, "next") ELSE Submit(next, "run")
          /\ pc = "next"
      BY <1>5, <2>1 DEF doNextWork, makeRequest
    <3>2. i' \in 0 .. stepSize /\ client' \in BOOLEAN
      BY <1>5 DEF doNextWork, HInv, TypeOK
    <3> QED BY <2>1, <3>1, <3>2, TakeStep
  <2>2. CASE ~More
    <3>1. client' \in BOOLEAN
      BY <1>5 DEF doNextWork, HInv, TypeOK
    <3> QED BY <1>5, <2>2, <3>1, UnchangedKeeps DEF doNextWork
  <2> QED BY <2>1, <2>2
<1>6. CASE runReturns
  BY <1>6, UnchangedKeeps DEF runReturns
<1>9. CASE delayedThrows
  BY <1>9, UnchangedKeeps DEF delayedThrows, driver, HInv, TypeOK
<1>8. CASE \E x \in Items : useDeleted(x)
  BY <1>8, DeletedStep
<1>7. CASE UNCHANGED vars
  BY <1>7 DEF vars, script, setUp, driver, HInv, TypeOK, StackIsLevel, ThrownIsTheCause, Fresh,
              Untaken, DeletedAtEnd, Single, EndYields, ExecutorsByAddress, DeletedForRepeatsOnly,
              EndsAreHeard, ContextsInUse
<1> QED
  BY <1>1, <1>2, <1>3, <1>4, <1>5, <1>6, <1>7, <1>8, <1>9 DEF Next, Finished

\* HInv is an invariant.
THEOREM HInvCorrect == Spec => []HInv
  BY HInit, HStep, PTL DEF Spec

LEMMA HostParts == HInv => HostInv
  BY DEF HInv, HostInv

\* HostInv for every source, any addresses and any number of failing calls: nothing but
\* memory errors piles up on the Lua stack, the constructor throws its own error, no
\* miner ends unheard, and a deleted context is used only in a call for a miner whose
\* address another had that has ended.
THEOREM HostCorrect == Spec => []HostInv
  BY HInvCorrect, HostParts, PTL

-----------------------------------------------------------------------------
\* What one step may do to the contract's view of a context.
Asked(x) == Contract(x)!MakeRequest \/ Contract(x)!MakeResult
Same(x) == Phase(x)' = Phase(x) /\ context'[x].canYield = context[x].canYield

\* A call about x leaves the view of a context of another address alone, if the
\* driver does.
LEMMA OthersSame ==
  ASSUME HInv, NEW x \in Items, CallEffect(x), NEW y \in Items \ {x}, Single(y),
         y \in inflight' <=> y \in inflight,
         pc = "again" => current = x, pc' = "again" => current' = x
  PROVE  Same(y)
<1>1. context'[y] = context[y]
  BY DEF CallEffect, Single
<1> QED
  BY <1>1 DEF Same, Phase

\* makeRequest for a context without a session: it gets one or ends.
LEMMA RequestAsked ==
  ASSUME HInv, NEW x \in Items, CallEffect(x), context[x].stepName # "end",
         x \notin inflight \/ (pc = "again" /\ current = x),
         Ends(x) \/ (x \in inflight' /\ pc' # "again")
  PROVE  Contract(x)!MakeRequest
<1>1. Phase(x) = "request"
  BY DEF Phase
<1>2. Phase(x)' \in {"session", "over"} /\ (Phase(x)' = "over" => context'[x].stepName = "end")
  BY DEF Phase, Ends
<1>3. /\ context'[x].canYield \in BOOLEAN /\ (context[x].canYield => context'[x].canYield)
      /\ context'[x].stepName = "end" => context'[x].canYield
  BY DEF CallEffect, Contexts
<1> QED
  BY <1>1, <1>2, <1>3 DEF Contract!MakeRequest, Contract!After

\* makeResult for a context with a session: it asks again or ends.
LEMMA ResultAsked ==
  ASSUME HInv, NEW x \in Items, CallEffect(x), context[x].stepName # "end",
         x \in inflight, pc = "run",
         Ends(x) \/ (pc' = "again" /\ current' = x)
  PROVE  Contract(x)!MakeResult
<1>1. Phase(x) = "session"
  BY DEF Phase
<1>2. Phase(x)' \in {"request", "over"} /\ (Phase(x)' = "over" => context'[x].stepName = "end")
  BY DEF Phase, Ends
<1>3. /\ context'[x].canYield \in BOOLEAN /\ (context[x].canYield => context'[x].canYield)
      /\ context'[x].stepName = "end" => context'[x].canYield
  BY DEF CallEffect, Contexts
<1> QED
  BY <1>1, <1>2, <1>3 DEF Contract!MakeResult, Contract!After

\* A new context, in fill and doNextWork.
LEMMA TakeAsked ==
  ASSUME HInv, More, pc \in {"fill", "next"}, Call(next),
         NEW then \in {"fill", "run", "next"}, NEW on \in {"fill", "run", "next"},
         IF Ends(next) THEN Delete(next, on) ELSE Submit(next, then)
  PROVE  \A y \in Items : Single(y) => Asked(y) \/ Same(y)
<1>1. TypeOK /\ StackIsLevel /\ EndYields /\ ExecutorsByAddress /\ next \in Items
  BY MoreIsItem DEF HInv
<1>2. context[next].stepName # "end" /\ next \notin inflight
  <2>1. context[next] = newContext
    BY <1>1 DEF HInv, Untaken, Items
  <2> QED BY <1>1, <2>1 DEF newContext, HInv, ContextsInUse, Items
<1>3. CallEffect(next)
  BY <1>1, CallHasEffect
<1>4. /\ pc' # "again" /\ \A y \in Items \ {next} : y \in inflight' <=> y \in inflight
      /\ Ends(next) \/ next \in inflight'
  BY DEF Delete, Submit
<1>5. Contract(next)!MakeRequest
  BY <1>1, <1>2, <1>3, <1>4, RequestAsked
<1>6. \A y \in Items \ {next} : Single(y) => Same(y)
  BY <1>1, <1>3, <1>4, OthersSame
<1> QED
  BY <1>5, <1>6 DEF Asked

\* A response, its two calls.
LEMMA SessionAsked ==
  ASSUME HInv, NEW x \in inflight, Call(x), current' = x,
         pc = "run" \/ (pc = "again" /\ current = x),
         \/ Ends(x) /\ Delete(x, "next")
         \/ pc = "run" /\ pc' = "again" /\ UNCHANGED <<inflight, ended>>
         \/ pc = "again" /\ Submit(x, "run")
  PROVE  \A y \in Items : Single(y) => Asked(y) \/ Same(y)
<1>1. TypeOK /\ StackIsLevel /\ EndYields /\ ExecutorsByAddress
  BY DEF HInv
<1>2. x \in Items /\ (Single(x) => context[x].stepName # "end")
  <2>1. x \in Items /\ x \notin ended
    BY <1>1 DEF HInv, ContextsInUse, TypeOK
  <2> QED BY <2>1, Zenon DEF HInv, DeletedAtEnd
<1>3. CallEffect(x)
  BY <1>1, <1>2, CallHasEffect
<1>4. \A y \in Items \ {x} : y \in inflight' <=> y \in inflight
  BY DEF Delete, Submit
<1>5. \A y \in Items \ {x} : Single(y) => Same(y)
  BY <1>2, <1>3, <1>4, OthersSame
<1>6. CASE pc = "run"
  BY <1>2, <1>3, <1>5, <1>6, ResultAsked DEF Asked
<1>7. CASE pc = "again" /\ current = x
  <2>1. Ends(x) \/ (x \in inflight' /\ pc' # "again")
    BY <1>7 DEF Submit
  <2> QED
    BY <1>2, <1>3, <1>5, <1>7, <2>1, RequestAsked DEF Asked
<1> QED
  BY <1>6, <1>7

\* A step without a call.
LEMMA NoCallSame ==
  ASSUME UNCHANGED <<context, inflight>>, pc # "again", pc' # "again"
  PROVE  \A y \in Items : Same(y)
BY DEF Same, Phase

\* Every step is, for the context of a miner alone at its address, a step of the
\* contract or invisible to it.
LEMMA StepAsked ==
  ASSUME HInv, [Next]_vars
  PROVE  \A y \in Items : Single(y) => Asked(y) \/ Same(y)
<1>1. CASE setScriptLoader \/ exportAll \/ runFile \/ delayedThrows \/ runReturns
  BY <1>1, NoCallSame DEF setScriptLoader, exportAll, runFile, delayedThrows, runReturns, Thrown, driver
<1>2. CASE fill
  <2>1. CASE i < stepSize /\ More
    <3>1. /\ Call(next) /\ pc = "fill"
          /\ IF Ends(next) THEN Delete(next, "fill") ELSE Submit(next, "fill")
      BY <1>2, <2>1 DEF fill, makeRequest
    <3> QED BY <2>1, <3>1, TakeAsked
  <2>2. CASE ~(i < stepSize /\ More)
    BY <1>2, <2>2, NoCallSame DEF fill
  <2> QED BY <2>1, <2>2
<1>3. CASE \E x \in Items : onResponse(x)
  <2>1. PICK x \in Items : onResponse(x)
    BY <1>3
  <2> QED BY <2>1, SessionAsked DEF onResponse, makeResult, AfterResult
<1>4. CASE askAgain
  <2>1. current \in inflight /\ pc = "again" /\ current' = current
    BY <1>4 DEF askAgain, HInv, ContextsInUse
  <2> QED BY <1>4, <2>1, SessionAsked DEF askAgain, makeRequest
<1>5. CASE doNextWork
  <2>1. CASE More
    <3>1. /\ Call(next) /\ pc = "next"
          /\ IF Ends(next) THEN Delete(next, "next") ELSE Submit(next, "run")
      BY <1>5, <2>1 DEF doNextWork, makeRequest
    <3> QED BY <2>1, <3>1, TakeAsked
  <2>2. CASE ~More
    BY <1>5, <2>2, NoCallSame DEF doNextWork
  <2> QED BY <2>1, <2>2
<1>6. CASE \E x \in Items : useDeleted(x)
  <2>1. PICK x \in Items : useDeleted(x)
    BY <1>6
  <2>2. /\ Owner(x) \in ended /\ pc' = "undefined" /\ UNCHANGED <<context, inflight>>
        /\ pc = "again" => current = x
    BY <2>1 DEF useDeleted, UsesDeleted
  <2>3. ~Single(x)
    BY <2>1, <2>2, CallerInUse, OwnerHasAddress DEF useDeleted, Single, HInv
  <2> QED BY <2>2, <2>3 DEF Same, Phase
<1>7. CASE UNCHANGED vars
  BY <1>7 DEF vars, driver, Same, Phase
<1> QED
  BY <1>1, <1>2, <1>3, <1>4, <1>5, <1>6, <1>7 DEF Next, Finished

\* HostKeepsContract for every source and any number of failing calls: whatever
\* fails, and whatever becomes of miners that share an address, the driver calls the
\* two functions of the context of any other miner in turn, none at step "end", and
\* what the consumer may see is never taken back.
THEOREM ContractCorrect == Spec => HostKeepsContract
<1>1. Init => \A x \in Items : Single(x) => Contract(x)!SInit
  BY DEF Init, newContext, Contract!SInit, Phase
<1>2. HInv /\ [Next]_vars =>
        [\A x \in Items : Single(x) => [Contract(x)!MakeRequest \/ Contract(x)!MakeResult]_(Contract(x)!scriptVars)]_vars
  BY StepAsked DEF Asked, Same, Contract!scriptVars
<1> QED
  BY <1>1, <1>2, HInvCorrect, PTL DEF Spec, HostKeepsContract

-----------------------------------------------------------------------------
(***************************************************************************)
(* ClassTables: what registration, the host and scripts leave in the tables *)
(* of functions, and what a lookup through the bases makes of them.         *)
(***************************************************************************)

LEMMA AllBasesType ==
  /\ Tables!AllBases \in [Classes -> SUBSET Classes]
  /\ \A C \in Classes : Tables!Hierarchy(C) \subseteq Classes
BY DEF Tables!AllBases, Tables!Hierarchy

LEMMA DirectBasesType ==
  ASSUME NEW C \in Classes
  PROVE  /\ Bases[C] \in Seq(Classes)
         /\ Tables!DirectBases(C) \subseteq Classes
         /\ DOMAIN Bases[C] \subseteq Nat
         /\ \A e \in DOMAIN Bases[C] :
              Bases[C][e] \in Classes /\ Bases[C][e] \in Tables!DirectBases(C)
<1>1. Bases[C] \in Seq(Classes)
  BY HierarchyAssumption
<1>2. \A e \in DOMAIN Bases[C] : e \in Nat /\ Bases[C][e] \in Classes
  BY <1>1
<1> QED
  BY <1>1, <1>2 DEF Tables!DirectBases

(* Among any classes is one with no base among them.                        *)
LEMMA Minimal ==
  ASSUME NEW S \in SUBSET Classes, S # {}
  PROVE  \E C \in S : Tables!DirectBases(C) \cap S = {}
BY HierarchyAssumption DEF DirectBases, Tables!DirectBases

(* A closed set that has the direct bases has all.                          *)
LEMMA AllBasesLeast ==
  ASSUME NEW C \in Classes, NEW S \in SUBSET Classes,
         Tables!DirectBases(C) \subseteq S, \A D \in S : Tables!DirectBases(D) \subseteq S
  PROVE  Tables!AllBases[C] \subseteq S
BY DEF Tables!AllBases

LEMMA AllBasesClosed ==
  ASSUME NEW C \in Classes
  PROVE  /\ Tables!DirectBases(C) \subseteq Tables!AllBases[C]
         /\ \A D \in Tables!Hierarchy(C) :
              Tables!DirectBases(D) \subseteq Tables!AllBases[C]
<1>1. Tables!DirectBases(C) \subseteq Tables!AllBases[C]
  BY DirectBasesType DEF Tables!AllBases
<1>2. ASSUME NEW D \in Tables!AllBases[C], NEW B \in Tables!DirectBases(D)
      PROVE  B \in Tables!AllBases[C]
  <2>1. D \in Classes /\ B \in Classes
    BY <1>2, AllBasesType, DirectBasesType
  <2>2. ASSUME NEW S \in SUBSET Classes, Tables!DirectBases(C) \subseteq S,
               \A E \in S : Tables!DirectBases(E) \subseteq S
        PROVE  B \in S
    BY <1>2, <2>2, AllBasesLeast
  <2> QED
    BY <2>1, <2>2 DEF Tables!AllBases
<1> QED
  BY <1>1, <1>2 DEF Tables!Hierarchy

LEMMA HierarchyWithin ==
  ASSUME NEW C \in Classes, NEW D \in Tables!Hierarchy(C)
  PROVE  Tables!Hierarchy(D) \subseteq Tables!Hierarchy(C)
<1>1. D \in Classes
  BY AllBasesType
<1>2. \A E \in Tables!Hierarchy(C) : Tables!DirectBases(E) \subseteq Tables!Hierarchy(C)
  BY AllBasesClosed DEF Tables!Hierarchy
<1>3. Tables!AllBases[D] \subseteq Tables!Hierarchy(C)
  BY <1>1, <1>2, AllBasesType, AllBasesLeast
<1> QED
  BY <1>3 DEF Tables!Hierarchy

(* Whatever is a base is one by way of a direct base.                       *)
LEMMA ByDirectBases ==
  ASSUME NEW C \in Classes, NEW D \in Tables!AllBases[C]
  PROVE  \E B \in Tables!DirectBases(C) : D \in Tables!Hierarchy(B)
<1> DEFINE S == UNION {Tables!Hierarchy(B) : B \in Tables!DirectBases(C)}
<1>1. S \in SUBSET Classes
  BY AllBasesType, DirectBasesType
<1>2. Tables!DirectBases(C) \subseteq S
  BY DEF Tables!Hierarchy
<1>3. ASSUME NEW E \in S PROVE Tables!DirectBases(E) \subseteq S
  <2>1. PICK B \in Tables!DirectBases(C) : E \in Tables!Hierarchy(B)
    BY <1>3
  <2>2. Tables!DirectBases(E) \subseteq Tables!Hierarchy(B)
    BY <2>1, DirectBasesType, AllBasesClosed DEF Tables!Hierarchy
  <2> QED
    BY <2>1, <2>2
<1>4. Tables!AllBases[C] \subseteq S
  <2> HIDE DEF S
  <2> QED
    BY <1>1, <1>2, <1>3, AllBasesLeast
<1> QED
  BY <1>4

First(S) == CHOOSE e \in S : \A j \in S : e <= j

LEMMA FirstOf ==
  ASSUME NEW S \in SUBSET Nat, S # {}
  PROVE  First(S) \in S
<1> DEFINE R == {r \in Nat \X Nat : r[1] < r[2]}
<1>1. IsWellFoundedOn(R, Nat)
  BY NatLessThanWellFounded, Zenon DEF OpToRel
<1>2. PICK e \in S : \A j \in S : <<j, e>> \notin R
  BY <1>1, WFMin
<1>3. ASSUME NEW j \in S PROVE e <= j
  <2>1. j \in Nat /\ e \in Nat /\ <<j, e>> \in Nat \X Nat
    OBVIOUS
  <2>2. ~(j < e)
    BY <1>2, <2>1
  <2> QED
    BY <2>1, <2>2
<1> QED
  BY <1>3 DEF First

-----------------------------------------------------------------------------
(* The lookup is a recursion over the bases, which ends as there are always *)
(* classes without any.                                                     *)

(* What a lookup in C is, when those in its bases are f.                    *)
Answer(f, B, n) ==
  CASE global[B] = "nil" -> Tables!Error
    [] global[B] = "table" -> Tables!Nil
    [] OTHER -> f[B][n]

Answering(f, C, n) == {e \in DOMAIN Bases[C] : Answer(f, Bases[C][e], n) # Tables!Nil}

Step(f, C) ==
  [n \in Tables!Names |->
     IF n \in DOMAIN methods[C] THEN methods[C][n]
     ELSE IF ~Tables!SearchesBases(C, n) \/ Answering(f, C, n) = {} THEN Tables!Nil
     ELSE Answer(f, Bases[C][First(Answering(f, C, n))], n)]

LEMMA StepIsLocal ==
  ASSUME NEW f, NEW g, NEW C \in Classes, \A B \in Tables!DirectBases(C) : f[B] = g[B]
  PROVE  Step(f, C) = Step(g, C)
<1>1. ASSUME NEW n, NEW e \in DOMAIN Bases[C]
      PROVE  Answer(f, Bases[C][e], n) = Answer(g, Bases[C][e], n)
  BY DirectBasesType DEF Answer
<1>2. ASSUME NEW n PROVE Answering(f, C, n) = Answering(g, C, n)
  BY <1>1 DEF Answering
<1>3. ASSUME NEW n, Answering(f, C, n) # {}
      PROVE  First(Answering(f, C, n)) \in DOMAIN Bases[C]
  <2>1. Answering(f, C, n) \in SUBSET Nat
    BY DirectBasesType DEF Answering
  <2> QED
    BY <1>3, <2>1, FirstOf DEF Answering
<1>4. ASSUME NEW n \in Tables!Names PROVE Step(f, C)[n] = Step(g, C)[n]
  BY <1>1, <1>2, <1>3 DEF Step
<1> QED
  BY <1>4 DEF Step

(* f is the lookup in S, a set that has all it needs.                       *)
Works(f, S) ==
  /\ S \subseteq Classes
  /\ \A D \in S : Tables!DirectBases(D) \subseteq S /\ f[D] = Step(f, D)

LEMMA WorksAlike ==
  ASSUME NEW f, NEW S, Works(f, S), NEW g, NEW T, Works(g, T), NEW D \in S \cap T
  PROVE  f[D] = g[D]
<1> DEFINE Differ == {E \in S \cap T : f[E] # g[E]}
<1>1. SUFFICES ASSUME Differ # {} PROVE FALSE
  OBVIOUS
<1>2. PICK C \in Differ : Tables!DirectBases(C) \cap Differ = {}
  BY <1>1, Minimal DEF Works
<1>3. \A B \in Tables!DirectBases(C) : f[B] = g[B]
  BY <1>2 DEF Works
<1>4. Step(f, C) = Step(g, C)
  BY <1>2, <1>3, StepIsLocal DEF Works
<1> QED
  BY <1>2, <1>4 DEF Works

LEMMA LookupExists == \E f : f = [C \in Classes |-> Step(f, C)]
<1> DEFINE One(D) == CHOOSE f : Works(f, Tables!Hierarchy(D))
           U == {D \in Classes : \E f : Works(f, Tables!Hierarchy(D))}
           g == [D \in U |-> One(D)[D]]
<1>1. ASSUME NEW D \in U PROVE Works(One(D), Tables!Hierarchy(D))
  OBVIOUS
<1>2. ASSUME NEW D \in U, NEW B \in Tables!DirectBases(D)
      PROVE  /\ B \in U
             /\ B \in Tables!Hierarchy(D) /\ B \in Tables!Hierarchy(B)
  <2>1. B \in Classes /\ B \in Tables!Hierarchy(D)
    BY DirectBasesType, AllBasesClosed DEF Tables!Hierarchy
  <2>2. Tables!Hierarchy(B) \subseteq Tables!Hierarchy(D)
    BY <2>1, HierarchyWithin
  <2>3. \A E \in Tables!Hierarchy(B) : Tables!DirectBases(E) \subseteq Tables!Hierarchy(B)
    BY <2>1, AllBasesClosed DEF Tables!Hierarchy
  <2>4. Works(One(D), Tables!Hierarchy(B))
    BY <1>1, <2>2, <2>3 DEF Works
  <2> QED
    BY <2>1, <2>4 DEF Tables!Hierarchy
<1> HIDE DEF One, U
<1>3. U \subseteq Classes
  BY DEF U
<1>4. ASSUME NEW D \in U PROVE g[D] = Step(g, D)
  <2>1. \A B \in Tables!DirectBases(D) : g[B] = One(D)[B]
    <3> TAKE B \in Tables!DirectBases(D)
    <3>1. /\ B \in U /\ B \in Tables!Hierarchy(D) /\ B \in Tables!Hierarchy(B)
      BY <1>2
    <3>2. One(B)[B] = One(D)[B]
      BY <3>1, <1>1, WorksAlike
    <3> QED
      BY <3>1, <3>2
  <2>2. Step(g, D) = Step(One(D), D)
    <3> HIDE DEF g
    <3> QED
      BY <2>1, <1>3, StepIsLocal
  <2>3. One(D)[D] = Step(One(D), D)
    BY <1>1 DEF Works, Tables!Hierarchy
  <2> QED
    BY <2>2, <2>3
<1>5. U = Classes
  <2>1. SUFFICES ASSUME Classes \ U # {} PROVE FALSE
    BY <1>3
  <2>2. PICK C \in Classes \ U : Tables!DirectBases(C) \cap (Classes \ U) = {}
    BY <2>1, Minimal
  <2>3. Tables!DirectBases(C) \subseteq U
    BY <2>2, DirectBasesType
  <2>4. Tables!AllBases[C] \subseteq U
    BY <2>3, <1>2, <1>3, AllBasesLeast
  <2> DEFINE h == [D \in U \cup {C} |-> IF D = C THEN Step(g, C) ELSE g[D]]
  <2>5. /\ \A D \in U : h[D] = g[D]
        /\ h[C] = Step(g, C)
    BY <2>2
  <2> HIDE DEF h, g
  <2>6. ASSUME NEW D \in U \cup {C} PROVE h[D] = Step(h, D)
    <3>1. \A B \in Tables!DirectBases(D) : h[B] = g[B]
      BY <1>2, <2>3, <2>5
    <3>2. Step(h, D) = Step(g, D)
      BY <3>1, <1>3, <2>2, StepIsLocal
    <3> QED
      BY <3>2, <2>5, <1>4
  <2>7. Works(h, Tables!Hierarchy(C))
    <3>1. \A E \in Tables!Hierarchy(C) : Tables!DirectBases(E) \subseteq Tables!Hierarchy(C)
      BY <2>2, AllBasesClosed DEF Tables!Hierarchy
    <3>2. Tables!Hierarchy(C) \subseteq U \cup {C}
      BY <2>4 DEF Tables!Hierarchy
    <3>3. Tables!Hierarchy(C) \subseteq Classes
      BY <2>2, AllBasesType
    <3> QED
      BY <3>1, <3>2, <3>3, <2>6 DEF Works
  <2> QED
    BY <2>2, <2>7 DEF U
<1>6. g = [C \in Classes |-> Step(g, C)]
  BY <1>4, <1>5
<1> QED
  BY <1>6

LEMMA LookupSteps ==
  ASSUME NEW C \in Classes
  PROVE  Tables!Lookup[C] = Step(Tables!Lookup, C)
<1> DEFINE Is(f) == f = [D \in Classes |-> Step(f, D)]
<1>1. Tables!Lookup = CHOOSE f : Is(f)
  BY DEF Tables!Lookup, Step, Answering, Answer, First
<1>2. Is(Tables!Lookup)
  BY <1>1, LookupExists
<1> QED
  BY <1>2

-----------------------------------------------------------------------------
(* The inductive invariant.                                                 *)

Kinds == {"member", "static", "lua"}

(* A table of functions has the functions exported in its hierarchy, by     *)
(* some class or by what took the name since; the constructor and           *)
(* set_owner where no tag forbids them; and what was added.                 *)
Filled(C, table) ==
  /\ Tables!Exported(Tables!Hierarchy(C)) \subseteq DOMAIN table
  /\ "new" \in DOMAIN table <=> ~Tables!HasNoNew(C)
  /\ \A n \in DOMAIN table :
       \/ n \in Added /\ table[n][1] \in {"static", "lua"}
       \/ n \in Tables!Exported(Tables!Hierarchy(C)) /\ table[n][1] = "member"
       \/ n \in {"new", "set_owner"} /\ n \notin Tables!Exported(Tables!Hierarchy(C))
            /\ table[n] = <<n, C>>

(* A class is registered with its bases, and before its name holds a table. *)
WithBases ==
  /\ \A C \in Tables!Registered : Tables!AllBases[C] \subseteq Tables!Registered
  /\ \A C \in Classes : global[C] = "methods" => C \in Tables!Registered

(* What was added is in the class' own table.                               *)
AddedIsKept ==
  \A a \in added :
    /\ a[1] \in Tables!Registered /\ a[2] \in Added
    /\ a[2] \in DOMAIN methods[a[1]] /\ methods[a[1]][a[2]][1] \in {"static", "lua"}

LInv ==
  /\ Tables!TypeOK
  /\ WithBases
  /\ \A C \in Tables!Registered : Filled(C, methods[C])
  /\ AddedIsKept

LEMMA LInit == Tables!Init => LInv
<1> SUFFICES ASSUME Tables!Init PROVE LInv
  OBVIOUS
<1>1. DOMAIN methods = {} /\ DOMAIN meta = {} /\ added = {}
      /\ global = [C \in Classes |-> "nil"]
  BY DEF Tables!Init, Tables!Empty
<1> QED
  BY <1>1 DEF LInv, Tables!TypeOK, WithBases, AddedIsKept, Tables!Registered

(* The table of a new class.                                                *)
LEMMA NewTable ==
  ASSUME NEW C \in Classes
  PROVE  /\ Filled(C, Tables!MethodTable(C))
         /\ DOMAIN Tables!MethodTable(C) \subseteq Tables!Names
<1> DEFINE own == Tables!OwnFunctions(C)
           mem == Tables!Members(C)
           inh == Tables!Inherited(C)
           table == Tables!MethodTable(C)
           all == Tables!Exported(Tables!Hierarchy(C))
<1>1. /\ DOMAIN inh = Tables!Exported(Tables!AllBases[C])
      /\ \A n \in DOMAIN inh : inh[n][1] = "member"
  BY DEF Tables!Inherited
<1>2. /\ DOMAIN mem = Methods[C]
      /\ \A n \in DOMAIN mem : mem[n][1] = "member"
  BY DEF Tables!Members
<1>3. /\ DOMAIN own \subseteq {"new", "set_owner"}
      /\ "new" \in DOMAIN own <=> ~Tables!HasNoNew(C)
      /\ \A n \in DOMAIN own : own[n] = <<n, C>>
  BY DEF Tables!OwnFunctions
<1>4. all = DOMAIN inh \cup DOMAIN mem
  BY <1>1, <1>2 DEF Tables!Exported, Tables!Hierarchy
<1>5. "new" \notin all /\ all \subseteq Tables!Names
  BY HierarchyAssumption, AllBasesType DEF Tables!Exported, Tables!Names, Exported
<1> HIDE DEF own, mem, inh
<1>6. /\ DOMAIN table = all \cup DOMAIN own
      /\ \A n \in all : table[n][1] = "member"
      /\ \A n \in DOMAIN own \ all : table[n] = <<n, C>>
  <2> DEFINE rest == Tables!Over(mem, own)
  <2>1. /\ DOMAIN rest = DOMAIN mem \cup DOMAIN own
        /\ \A n \in DOMAIN mem : rest[n] = mem[n]
        /\ \A n \in DOMAIN own \ DOMAIN mem : rest[n] = own[n]
    BY DEF Tables!Over
  <2>2. table = Tables!Over(inh, rest)
    BY DEF Tables!MethodTable, inh, mem, own
  <2> HIDE DEF rest, table
  <2>3. /\ DOMAIN table = DOMAIN inh \cup DOMAIN rest
        /\ \A n \in DOMAIN inh : table[n] = inh[n]
        /\ \A n \in DOMAIN rest \ DOMAIN inh : table[n] = rest[n]
    BY <2>2 DEF Tables!Over
  <2> HIDE DEF all
  <2> QED
    BY <2>1, <2>3, <1>1, <1>2, <1>3, <1>4
<1> HIDE DEF table
<1>8. DOMAIN table \subseteq Tables!Names
  <2>1. {"new", "set_owner"} \subseteq Tables!Names
    BY DEF Tables!Names
  <2> HIDE DEF all
  <2> QED
    BY <2>1, <1>3, <1>5, <1>6
<1>9. Filled(C, table)
  BY <1>3, <1>5, <1>6 DEF Filled
<1> QED
  BY <1>8, <1>9 DEF table

LEMMA RegisterLInv ==
  ASSUME LInv, NEW C \in Classes, Tables!register_class(C)
  PROVE  LInv'
<1> DEFINE new == Tables!Hierarchy(C) \ Tables!Registered
           fresh == [D \in new |-> Tables!MethodTable(D)]
           freshMeta == [D \in new |-> Tables!MetaTable(D)]
<1>1. /\ methods' = Tables!Over(methods, fresh)
      /\ meta' = Tables!Over(meta, freshMeta)
      /\ global' = [D \in Classes |-> IF D \in new THEN "methods" ELSE global[D]]
      /\ added' = added
  BY DEF Tables!register_class
<1>2. /\ DOMAIN fresh = new /\ DOMAIN freshMeta = new
      /\ \A D \in new : fresh[D] = Tables!MethodTable(D)
  OBVIOUS
<1>3. Tables!Hierarchy(C) \subseteq Classes
  BY AllBasesType
<1> HIDE DEF fresh, freshMeta
<1>4. /\ DOMAIN methods' = DOMAIN methods \cup new
      /\ \A D \in DOMAIN methods : methods'[D] = methods[D]
      /\ \A D \in new : methods'[D] = Tables!MethodTable(D)
      /\ DOMAIN meta' = DOMAIN meta \cup new
  <2>1. new \cap DOMAIN methods = {}
    BY DEF Tables!Registered
  <2> HIDE DEF new
  <2> QED
    BY <2>1, <1>1, <1>2 DEF Tables!Over
<1>5. (DOMAIN methods)' = DOMAIN methods \cup Tables!Hierarchy(C)
  BY <1>4 DEF Tables!Registered
<1> HIDE DEF new
<1>6. new \subseteq Tables!Hierarchy(C) /\ new \subseteq Classes
  BY <1>3 DEF new
<1>7. Tables!TypeOK'
  <2>1. (DOMAIN meta)' = (DOMAIN methods)' /\ (DOMAIN methods)' \subseteq Classes
    BY <1>4, <1>6 DEF LInv, Tables!TypeOK, Tables!Registered
  <2>2. ASSUME NEW D \in DOMAIN methods' PROVE DOMAIN methods'[D] \subseteq Tables!Names
    BY <2>2, <1>4, <1>6, NewTable DEF LInv, Tables!TypeOK, Tables!Registered
  <2>3. global' \in [Classes -> {"nil", "methods", "table"}]
    BY <1>1 DEF LInv, Tables!TypeOK
  <2> QED
    BY <2>1, <2>2, <2>3 DEF Tables!TypeOK, Tables!Registered, Tables!Names, Tables!Exported
<1>8. WithBases'
  <2>1. ASSUME NEW D \in DOMAIN methods' PROVE Tables!AllBases[D] \subseteq DOMAIN methods'
    <3>1. CASE D \in DOMAIN methods
      BY <3>1, <1>5 DEF LInv, WithBases, Tables!Registered
    <3>2. CASE D \in Tables!Hierarchy(C)
      <4>1. Tables!Hierarchy(D) \subseteq Tables!Hierarchy(C)
        BY <3>2, HierarchyWithin
      <4> QED
        BY <4>1, <1>5 DEF Tables!Hierarchy
    <3> QED
      BY <2>1, <3>1, <3>2, <1>5
  <2>2. ASSUME NEW D \in Classes, global'[D] = "methods" PROVE D \in DOMAIN methods'
    BY <2>2, <1>1, <1>4 DEF LInv, WithBases, Tables!Registered
  <2> QED
    BY <2>1, <2>2 DEF WithBases, Tables!Registered, Tables!AllBases, Tables!DirectBases
<1>9. (\A D \in Tables!Registered : Filled(D, methods[D]))'
  <2>1. ASSUME NEW D \in DOMAIN methods' PROVE Filled(D, methods'[D])
    BY <2>1, <1>4, <1>6, NewTable DEF LInv, Tables!Registered
  <2> QED
    BY <2>1 DEF Tables!Registered, Filled
<1>10. AddedIsKept'
  BY <1>1, <1>4 DEF LInv, AddedIsKept, Tables!Registered
<1> QED
  BY <1>7, <1>8, <1>9, <1>10 DEF LInv

(* One more entry in the table of a registered class.                       *)
LEMMA PutLInv ==
  ASSUME LInv, NEW C \in Tables!Registered, NEW n \in Added, NEW kind \in {"static", "lua"},
         methods' = Tables!Put(methods, C, n, kind), added' = added \cup {<<C, n>>},
         UNCHANGED <<meta, global>>
  PROVE  LInv'
<1> DEFINE one == [m \in {n} |-> <<kind, C>>]
<1>1. C \in Classes /\ C \in DOMAIN methods
  BY DEF LInv, Tables!TypeOK, Tables!Registered
<1>2. DOMAIN one = {n} /\ one[n] = <<kind, C>>
  OBVIOUS
<1>3. methods' = [methods EXCEPT ![C] = Tables!Over(one, @)]
  BY DEF Tables!Put
<1> HIDE DEF one
<1>4. /\ DOMAIN methods' = DOMAIN methods
      /\ \A D \in DOMAIN methods : D # C => methods'[D] = methods[D]
      /\ methods'[C] = Tables!Over(one, methods[C])
  BY <1>1, <1>3
<1>5. /\ DOMAIN methods'[C] = {n} \cup DOMAIN methods[C]
      /\ methods'[C][n] = <<kind, C>>
      /\ \A m \in DOMAIN methods[C] : m # n => methods'[C][m] = methods[C][m]
  BY <1>2, <1>4 DEF Tables!Over
<1>6. n \notin {"new", "set_owner"} /\ n \in Tables!Names
  BY HierarchyAssumption DEF Tables!Names
<1>7. Tables!TypeOK'
  <2>1. ASSUME NEW D \in DOMAIN methods' PROVE DOMAIN methods'[D] \subseteq Tables!Names
    BY <2>1, <1>4, <1>5, <1>6 DEF LInv, Tables!TypeOK, Tables!Registered
  <2> QED
    BY <2>1, <1>4 DEF LInv, Tables!TypeOK, Tables!Registered, Tables!Names, Tables!Exported
<1>8. WithBases'
  BY <1>4 DEF LInv, WithBases, Tables!Registered, Tables!AllBases, Tables!DirectBases
<1>9. Filled(C, methods'[C])
  <2>1. Filled(C, methods[C])
    BY DEF LInv
  <2>2. ASSUME NEW m \in DOMAIN methods'[C]
        PROVE  \/ m \in Added /\ methods'[C][m][1] \in {"static", "lua"}
               \/ m \in Tables!Exported(Tables!Hierarchy(C)) /\ methods'[C][m][1] = "member"
               \/ m \in {"new", "set_owner"} /\ m \notin Tables!Exported(Tables!Hierarchy(C))
                    /\ methods'[C][m] = <<m, C>>
    BY <2>1, <2>2, <1>5 DEF Filled
  <2> QED
    BY <2>1, <2>2, <1>5, <1>6 DEF Filled
<1>10. (\A D \in Tables!Registered : Filled(D, methods[D]))'
  <2>1. ASSUME NEW D \in DOMAIN methods' PROVE Filled(D, methods'[D])
    BY <2>1, <1>4, <1>9 DEF LInv, Tables!Registered
  <2> QED
    BY <2>1 DEF Tables!Registered, Filled
<1>11. AddedIsKept'
  <2>1. ASSUME NEW a \in added'
        PROVE  /\ a[1] \in DOMAIN methods /\ a[2] \in Added
               /\ a[2] \in DOMAIN methods'[a[1]]
               /\ methods'[a[1]][a[2]][1] \in {"static", "lua"}
    <3>1. CASE a = <<C, n>>
      BY <3>1, <1>1, <1>5
    <3>2. CASE a \in added /\ a # <<C, n>>
      <4>1. /\ a[1] \in DOMAIN methods /\ a[2] \in Added
            /\ a[2] \in DOMAIN methods[a[1]] /\ methods[a[1]][a[2]][1] \in {"static", "lua"}
        BY <3>2 DEF LInv, AddedIsKept, Tables!Registered
      <4>2. CASE a[1] = C /\ a[2] = n
        BY <4>1, <4>2, <1>5
      <4>3. CASE ~(a[1] = C /\ a[2] = n)
        BY <4>1, <4>3, <1>4, <1>5
      <4> QED
        BY <4>2, <4>3
    <3> QED
      BY <2>1, <3>1, <3>2
  <2> QED
    BY <2>1, <1>4 DEF AddedIsKept, Tables!Registered
<1> QED
  BY <1>7, <1>8, <1>10, <1>11 DEF LInv

LEMMA OthersLInv ==
  ASSUME LInv, UNCHANGED <<methods, added>>, (DOMAIN meta)' = DOMAIN meta,
         \/ UNCHANGED global
         \/ \E C \in Classes : \E g \in {"nil", "table"} : global' = [global EXCEPT ![C] = g]
  PROVE  LInv'
<1>1. Tables!TypeOK'
  BY DEF LInv, Tables!TypeOK, Tables!Registered, Tables!Names, Tables!Exported
<1>2. \A C \in Classes : global'[C] = "methods" => global[C] = "methods"
  BY DEF LInv, Tables!TypeOK
<1>3. WithBases'
  BY <1>2 DEF LInv, WithBases, Tables!Registered, Tables!AllBases, Tables!DirectBases
<1>4. (\A D \in Tables!Registered : Filled(D, methods[D]))'
  BY DEF LInv, Tables!Registered, Filled
<1>5. AddedIsKept'
  BY DEF LInv, AddedIsKept, Tables!Registered
<1> QED
  BY <1>1, <1>3, <1>4, <1>5 DEF LInv

LEMMA LStep == LInv /\ [Tables!Next]_(Tables!vars) => LInv'
<1> SUFFICES ASSUME LInv, [Tables!Next]_(Tables!vars) PROVE LInv'
  OBVIOUS
<1>1. ASSUME NEW C \in Classes, Tables!register_class(C) PROVE LInv'
  BY <1>1, RegisterLInv
<1>2. ASSUME NEW C \in Classes, NEW n \in Added, Tables!register_class_static(C, n) PROVE LInv'
  <2>1. CASE Tables!TableOf(C) = "methods"
    <3>1. C \in Tables!Registered
      BY <2>1 DEF Tables!TableOf, LInv, WithBases
    <3> QED
      BY <1>2, <2>1, <3>1, PutLInv DEF Tables!register_class_static
  <2>2. CASE Tables!TableOf(C) # "methods"
    <3>1. UNCHANGED <<methods, added, global>> /\ DOMAIN meta' = DOMAIN meta
      BY <1>2, <2>2 DEF Tables!register_class_static, Tables!Put
    <3> QED
      BY <3>1, OthersLInv
  <2> QED
    BY <2>1, <2>2
<1>3. ASSUME NEW C \in Classes, NEW n \in Added, Tables!ScriptAdds(C, n) PROVE LInv'
  BY <1>3, PutLInv DEF Tables!ScriptAdds
<1>4. ASSUME NEW C \in Classes, Tables!ScriptReplaces(C) PROVE LInv'
  BY <1>4, OthersLInv DEF Tables!ScriptReplaces
<1>5. CASE UNCHANGED Tables!vars
  BY <1>5, OthersLInv DEF Tables!vars
<1> QED
  BY <1>1, <1>2, <1>3, <1>4, <1>5 DEF Tables!Next

-----------------------------------------------------------------------------
(* What the lookup then finds.                                              *)

LEMMA OwnEntry ==
  ASSUME NEW C \in Classes, NEW n \in Tables!Names, n \in DOMAIN methods[C]
  PROVE  Tables!Lookup[C][n] = methods[C][n]
<1>1. Tables!Lookup[C] = Step(Tables!Lookup, C)
  BY LookupSteps
<1> QED
  BY <1>1 DEF Step

(* A name that is not in the class' own table is looked up in the bases;    *)
(* while their globals are as they were, the answer is that of one of them. *)
LEMMA FromBases ==
  ASSUME NEW C \in Classes, NEW n \in Tables!Names, n \notin DOMAIN methods[C], n # "new",
         \A B \in Tables!DirectBases(C) : global[B] = "methods"
  PROVE  \/ /\ Tables!Lookup[C][n] = Tables!Nil
            /\ \A B \in Tables!DirectBases(C) : Tables!Lookup[B][n] = Tables!Nil
         \/ /\ Tables!Lookup[C][n] # Tables!Nil
            /\ \E B \in Tables!DirectBases(C) : Tables!Lookup[C][n] = Tables!Lookup[B][n]
<1> DEFINE L == Tables!Lookup
           answering == Answering(L, C, n)
<1>1. \A B \in Tables!DirectBases(C) : Answer(L, B, n) = L[B][n]
  BY DEF Answer
<1>2. Tables!SearchesBases(C, n)
  BY DEF Tables!SearchesBases
<1>3. L[C][n] = IF answering = {} THEN Tables!Nil ELSE Answer(L, Bases[C][First(answering)], n)
  <2>1. L[C] = Step(L, C)
    BY LookupSteps
  <2> QED
    BY <2>1, <1>2 DEF Step
<1>4. CASE answering = {}
  <2>1. ASSUME NEW B \in Tables!DirectBases(C) PROVE L[B][n] = Tables!Nil
    <3>1. PICK e \in DOMAIN Bases[C] : B = Bases[C][e]
      BY DEF Tables!DirectBases
    <3> QED
      BY <3>1, <1>1, <1>4 DEF Answering
  <2> QED
    BY <2>1, <1>3, <1>4
<1>5. CASE answering # {}
  <2>1. answering \in SUBSET Nat
    BY DirectBasesType DEF Answering
  <2>2. First(answering) \in answering
    BY <1>5, <2>1, FirstOf
  <2>3. /\ Bases[C][First(answering)] \in Tables!DirectBases(C)
        /\ Answer(L, Bases[C][First(answering)], n) # Tables!Nil
    BY <2>2, DirectBasesType DEF Answering
  <2> QED
    BY <2>3, <1>1, <1>3, <1>5
<1> QED
  BY <1>4, <1>5

LEMMA MembersFound == ASSUME LInv PROVE Tables!MembersStay
<1> SUFFICES ASSUME NEW C \in Tables!Registered, NEW D \in Tables!Hierarchy(C),
                    NEW n \in Methods[D]
             PROVE  Tables!Lookup[C][n][1] \in Kinds
  BY DEF Tables!MembersStay, Kinds
<1>1. C \in Classes /\ D \in Classes
  BY AllBasesType DEF LInv, Tables!TypeOK
<1>2. n \in Tables!Exported(Tables!Hierarchy(C)) /\ n \in Tables!Names
  BY <1>1 DEF Tables!Exported, Tables!Names
<1>3. Filled(C, methods[C])
  BY DEF LInv
<1>4. n \in DOMAIN methods[C]
  BY <1>2, <1>3 DEF Filled, Exported, Tables!Exported
<1>5. methods[C][n][1] \in Kinds
  BY <1>2, <1>3, <1>4 DEF Filled, Kinds
<1> QED
  BY <1>1, <1>2, <1>4, <1>5, OwnEntry

LEMMA ConstructorFound == ASSUME LInv PROVE Tables!OwnConstructor
<1> SUFFICES ASSUME NEW C \in Tables!Registered
             PROVE  Tables!Lookup[C]["new"] =
                      IF Tables!HasNoNew(C) THEN Tables!Nil ELSE <<"new", C>>
  BY DEF Tables!OwnConstructor, Tables!HasNoNew, Tables!HasTag
<1>1. C \in Classes /\ "new" \in Tables!Names
  BY DEF LInv, Tables!TypeOK, Tables!Names
<1>2. Filled(C, methods[C])
  BY DEF LInv
<1>3. "new" \notin Added
  BY HierarchyAssumption
<1>4. "new" \notin Tables!Exported(Tables!Hierarchy(C))
  BY <1>1, HierarchyAssumption, AllBasesType DEF Tables!Exported, Exported
<1>5. CASE Tables!HasNoNew(C)
  <2>1. "new" \notin DOMAIN methods[C] /\ ~Tables!SearchesBases(C, "new")
    BY <1>2, <1>5 DEF Filled, Tables!SearchesBases
  <2>2. Tables!Lookup[C] = Step(Tables!Lookup, C)
    BY <1>1, LookupSteps
  <2> QED
    BY <2>1, <2>2, <1>1, <1>5 DEF Step
<1>6. CASE ~Tables!HasNoNew(C)
  <2>1. "new" \in DOMAIN methods[C] /\ methods[C]["new"] = <<"new", C>>
    BY <1>2, <1>3, <1>4, <1>6 DEF Filled
  <2> QED
    BY <2>1, <1>1, <1>6, OwnEntry
<1> QED
  BY <1>5, <1>6

LEMMA AdditionsFound == ASSUME LInv PROVE Tables!AdditionsStay
<1> SUFFICES ASSUME NEW a \in added, NEW C \in Tables!Registered, a[1] \in Tables!Hierarchy(C),
                    \/ C = a[1]
                    \/ /\ \A D \in Tables!AllBases[C] : global[D] = "methods"
                       /\ a[2] \notin Tables!Exported(Tables!Hierarchy(C))
             PROVE  Tables!Lookup[C][a[2]][1] \in {"static", "lua"}
  BY DEF Tables!AdditionsStay
<1> DEFINE n == a[2]
           L == Tables!Lookup
<1>1. /\ a[1] \in Tables!Registered /\ n \in Added
      /\ n \in DOMAIN methods[a[1]] /\ methods[a[1]][n][1] \in {"static", "lua"}
  BY DEF LInv, AddedIsKept
<1>2. C \in Classes /\ a[1] \in Classes
  BY <1>1 DEF LInv, Tables!TypeOK
<1>3. n \in Tables!Names /\ n \notin {"new", "set_owner"}
  BY <1>1, HierarchyAssumption DEF Tables!Names
<1>4. CASE C = a[1]
  BY <1>1, <1>2, <1>3, <1>4, OwnEntry
<1>5. CASE /\ \A D \in Tables!AllBases[C] : global[D] = "methods"
           /\ n \notin Tables!Exported(Tables!Hierarchy(C))
  <2> DEFINE Right(D) ==
        \/ L[D][n][1] \in {"static", "lua"}
        \/ L[D][n] = Tables!Nil /\ a[1] \notin Tables!Hierarchy(D)
      Wrong == {D \in Tables!Hierarchy(C) : ~Right(D)}
  <2>1. SUFFICES ASSUME Wrong # {} PROVE FALSE
    BY DEF Tables!Hierarchy
  <2>2. Wrong \in SUBSET Classes
    BY <1>2, AllBasesType
  <2>3. PICK D \in Wrong : Tables!DirectBases(D) \cap Wrong = {}
    <3> HIDE DEF Wrong
    <3> QED
      BY <2>1, <2>2, Minimal
  <2>4. D \in Classes /\ D \in Tables!Hierarchy(C)
    BY <2>2, <2>3
  <2>5. D \in Tables!Registered
    BY <2>4 DEF LInv, WithBases, Tables!Hierarchy
  <2>6. Tables!DirectBases(D) \subseteq Tables!AllBases[C]
    BY <1>2, <2>4, AllBasesClosed
  <2>7. \A B \in Tables!DirectBases(D) : Right(B)
    BY <2>3, <2>6 DEF Tables!Hierarchy
  <2>8. n \notin Tables!Exported(Tables!Hierarchy(D))
    BY <1>2, <1>5, <2>4, HierarchyWithin DEF Tables!Exported
  <2> HIDE DEF n
  <2>9. CASE n \in DOMAIN methods[D]
    <3>1. methods[D][n][1] \in {"static", "lua"}
      BY <2>5, <2>8, <2>9, <1>3 DEF LInv, Filled
    <3>2. L[D][n] = methods[D][n]
      BY <2>4, <2>9, <1>3, OwnEntry
    <3> HIDE DEF L
    <3> QED
      BY <3>1, <3>2, <2>3
  <2>10. CASE n \notin DOMAIN methods[D]
    <3>1. \/ /\ L[D][n] = Tables!Nil
             /\ \A B \in Tables!DirectBases(D) : L[B][n] = Tables!Nil
          \/ /\ L[D][n] # Tables!Nil
             /\ \E B \in Tables!DirectBases(D) : L[D][n] = L[B][n]
      <4>1. \A B \in Tables!DirectBases(D) : global[B] = "methods"
        BY <2>6, <1>5
      <4> QED
        BY <4>1, <2>4, <2>10, <1>3, FromBases
    <3> HIDE DEF L
    <3>2. CASE L[D][n] # Tables!Nil
      BY <3>1, <3>2, <2>3, <2>7
    <3>3. CASE L[D][n] = Tables!Nil
      <4>1. \A B \in Tables!DirectBases(D) : a[1] \notin Tables!Hierarchy(B)
        BY <3>1, <3>3, <2>7 DEF Tables!Nil
      <4>2. a[1] # D
        BY <1>1, <2>10
      <4>3. a[1] \notin Tables!Hierarchy(D)
        BY <4>1, <4>2, <2>4, ByDirectBases DEF Tables!Hierarchy
      <4> QED
        BY <3>3, <4>3, <2>3
    <3> QED
      BY <3>2, <3>3
  <2> QED
    BY <2>9, <2>10
<1> QED
  BY <1>4, <1>5

\* For any hierarchy of classes, in whatever order they are registered, extended and
\* hidden: a class offers what it and its bases export, no constructor but its own
\* and that only where no tag forbids it, and what was added to a class is found there
\* and on the classes derived from it.
THEOREM LookupCorrect == MCSpec => []LookupIsSound
<1>1. MCInit => LInv
  BY LInit DEF MCInit
<1>2. LInv /\ [MCNext]_<<vars, tables, program>> => LInv'
  <2>1. UNCHANGED tables => UNCHANGED Tables!vars
    BY DEF tables, Tables!vars
  <2> QED
    BY <2>1, LStep DEF MCNext, tables
<1>3. LInv => LookupIsSound
  BY MembersFound, ConstructorFound, AdditionsFound
     DEF LookupIsSound, Tables!LookupIsSound, LInv
<1> QED
  BY <1>1, <1>2, <1>3, PTL DEF MCSpec
=============================================================================

----------------------------- MODULE ScriptHost -----------------------------
(***************************************************************************)
(* The native side of the scripts: a MinerConfigurator (the rebooter and    *)
(* the upgrader are the same class with another script) with the            *)
(* ScriptLoader that owns its Lua state, from the constructor, which runs   *)
(* the script's file, to the calls of makeRequest and makeResult for each   *)
(* work context.                                                            *)
(*                                                                          *)
(* Any of these calls may fail: the error goes to the registry (oolua_      *)
(* last_error) or, if it is that memory ran out, stays on the Lua stack.    *)
(* The constructor throws what it finds in the registry; the driver ignores *)
(* the results of its calls, so after a failing one it goes on with the     *)
(* context as the script left it.                                           *)
(*                                                                          *)
(* The scripts keep their executors by address and for ever, each with the  *)
(* context it was made for, and the source may give an address again: its   *)
(* executor then acts on the old context, which may be deleted.  Nothing    *)
(* can be said of the program after it used a deleted context: behaviours   *)
(* end there.  One run is modelled; in a second one over the same scripts   *)
(* every address of the first would be such a repeated one.                 *)
(*                                                                          *)
(* MinerScanner is the driver over ideal scripts; here a response is        *)
(* handled in two steps, one for each call.                                 *)
(***************************************************************************)
EXTENDS Integers, FiniteSets

CONSTANTS N,          \* miners of the source
          stepSize,
          Ips, ipOf,  \* ip_ of each miner
          StackLimit, \* values the Lua stack can take before lua_checkstack refuses
          MaxMemory   \* bound: calls that run out of memory

Items == 1 .. N

ASSUME HostAssumption == N \in Nat /\ stepSize \in Nat \ {0} /\ MaxMemory \in Nat
ASSUME StackAssumption == StackLimit \in Nat /\ StackLimit > 2

ASSUME IpAssumption == ipOf \in [Items -> Ips]

VARIABLES
  pc,        \* new, exported, fill, run, again (between the two calls), next, done,
             \* thrown, undefined (a deleted context was used)
  loader,    \* scriptLoader_ # nullptr
  stack,     \* values left on the Lua stack
  lastError, \* oolua_last_error in the registry, "none" if there is none
  message,   \* what() of the exception of the constructor
  cause,     \* history: what made the constructor fail
  memory,    \* history: calls that ran out of memory
  next, i, client, stopped, inflight, ended,   \* as in MinerScanner
  current,   \* the context of the response at hand
  context,   \* stepName_ and canYield_ of each context
  executors, \* HelperBase.executors: the context of the address' executor, 0 for none
  heard      \* history: miners yielded at step "end"

script == <<stack, lastError, memory>>
setUp == <<loader, message, cause>>
driver == <<next, i, client, stopped, inflight, ended, current>>
vars == <<pc, script, setUp, driver, context, executors, heard>>

Contexts == [stepName : {"begin", "step", "end"}, canYield : BOOLEAN]
Errors == {"none", "loader", "file", "syntax", "run", "call", "stack", "memory"}

TypeOK ==
  /\ pc \in {"new", "exported", "fill", "run", "again", "next", "done", "thrown", "undefined"}
  /\ stack \in 0 .. StackLimit /\ memory \in 0 .. MaxMemory
  /\ lastError \in Errors /\ message \in Errors /\ cause \in Errors
  /\ loader \in BOOLEAN /\ client \in BOOLEAN /\ stopped \in BOOLEAN
  /\ next \in 1 .. N + 1 /\ i \in 0 .. stepSize /\ current \in 0 .. N
  /\ inflight \subseteq Items /\ ended \subseteq Items /\ heard \subseteq Items
  /\ context \in [Items -> Contexts]
  /\ executors \in [Ips -> 0 .. N]

newContext == [stepName |-> "begin", canYield |-> FALSE]

\* Script::Script: a fresh Lua state with its standard libraries.
NewScript == stack = 0 /\ lastError = "none" /\ memory = 0

Init ==
  /\ NewScript
  /\ pc = "new" /\ loader = FALSE /\ message = "none" /\ cause = "none"
  /\ next = 1 /\ i = 0 /\ client = FALSE /\ stopped = FALSE
  /\ inflight = {} /\ ended = {} /\ current = 0 /\ heard = {}
  /\ context = [x \in Items |-> newContext]
  /\ executors = [ip \in Ips |-> 0]

-----------------------------------------------------------------------------
\* Mutant: the message of a failing call is stored but stays on the stack.
StoredNotPopped(error) ==
  /\ lastError' = error /\ stack' = stack + 1 /\ UNCHANGED memory

\* set_error_from_top_of_stack_and_pop_the_error.
Stored(error) == lastError' = error /\ UNCHANGED <<stack, memory>>

\* protected_call_check_result, load_buffer_check_result: only the message of
\* LUA_ERRMEM is neither stored nor popped.
Fails(error) ==
  IF error = "memory"
  THEN /\ memory < MaxMemory /\ memory' = memory + 1
       /\ stack' = stack + 1
       /\ UNCHANGED lastError
  ELSE Stored(error)

\* OOLuaHelper::setScriptLoader, a setting of the process.
setScriptLoader ==
  /\ pc = "new" /\ ~loader
  /\ loader' = TRUE
  /\ UNCHANGED <<pc, script, message, cause, driver, context, executors, heard>>

\* OOLuaHelper::exportAll: with a script loader a chunk replaces package.loaders;
\* whether it ran is not looked at.
exportAll ==
  /\ pc = "new" /\ pc' = "exported"
  /\ UNCHANGED script \/ (loader /\ Fails("memory"))
  /\ UNCHANGED <<setUp, driver, context, executors, heard>>

\* get_last_error.
LastError == lastError

\* What may fail in run_chunk and in run_file: the loading, then the call.
run_chunk == {"syntax", "run", "memory"}
run_file == run_chunk \cup {"file"}

\* ScriptLoader's constructor throws.
Thrown(what, why) ==
  /\ pc' = "thrown"
  /\ message' = what /\ cause' = why /\ UNCHANGED loader

\* OOLuaHelper::runFile, and the constructor that throws what get_last_error gives:
\* the script loader may refuse the name, the text may not load, the chunk may fail.
\* The files of the repository return no values.
runFile ==
  /\ pc = "exported"
  /\ \/ pc' = "fill" /\ UNCHANGED <<script, setUp>>
     \/ loader /\ Thrown("loader", "loader") /\ UNCHANGED script
     \/ \E error \in IF loader THEN run_chunk ELSE run_file :
          Fails(error) /\ Thrown(LastError', error)
  /\ UNCHANGED <<driver, context, executors, heard>>

-----------------------------------------------------------------------------
\* HelperBase:getExecutor: the context of the executor that is kept for the
\* address, a new one with this context if there is none.
Owner(x) == IF executors[ipOf[x]] # 0 THEN executors[ipOf[x]] ELSE x

setStepName(c, name) == [c EXCEPT !.stepName = name]
setCanYield(c, flag) == [c EXCEPT !.canYield = flag]

\* How HelperBase ends a context.
End(c) == setStepName(setCanYield(c, TRUE), "end")

\* What the steps of an executor may make of its context: setStep goes on or ends,
\* sets canYield_ with every message and never resets it.
Steps(c) ==
  {setStepName(c, "step"), setCanYield(setStepName(c, "step"), TRUE), End(c)}

\* What the executor did before an error: nothing, or some of its steps.
Partly(c) == {c} \cup Steps(c)

\* HelperBase:makeRequest and makeResult for context x: the executor's steps, or
\* an error, which is caught and ends x; an address without an executor may have
\* none (an unsupported type), and no error leaves one for it.
Helper(x) ==
  \/ \E d \in Steps(context[Owner(x)]) :
       /\ context' = [context EXCEPT ![Owner(x)] = d]
       /\ executors' = [executors EXCEPT ![ipOf[x]] = Owner(x)]
  \/ \E d \in Partly(context[Owner(x)]) :
       /\ context' = [context EXCEPT ![Owner(x)] = d, ![x] = End(context[x])]
       /\ executors' \in {executors, [executors EXCEPT ![ipOf[x]] = Owner(x)]}

\* prep_function: room for the function, its parameters and the handler.
HasRoom == stack < StackLimit

\* An error leaves the helper, out of its handler or for lack of memory: the context
\* stays as it was made so far.
Escapes(x) ==
  /\ \E error \in {"call", "memory"} : Fails(error)
  /\ \E d \in Partly(context[Owner(x)]) : context' = [context EXCEPT ![Owner(x)] = d]
  /\ executors' \in {executors, [executors EXCEPT ![ipOf[x]] = Owner(x)]}

\* The call acts on a context that was deleted: that of an executor which was made
\* for another miner of the same address.
UsesDeleted(x) == HasRoom /\ Owner(x) \in ended

\* Lua_function::operator(); makeRequest and makeResult return no values.
Call(x) ==
  \/ HasRoom /\ Owner(x) \notin ended /\ Helper(x) /\ UNCHANGED script
  \/ HasRoom /\ Owner(x) \notin ended /\ Escapes(x)
  \/ ~HasRoom /\ Stored("stack") /\ UNCHANGED <<context, executors>>

\* ScriptLoader: neither looks at the result of its call.
makeRequest(x) == Call(x)
makeResult(x) == Call(x)

-----------------------------------------------------------------------------
More == next <= N

Ends(x) == context'[x].stepName = "end"

\* yield: the consumer sees the miner and may call stop() once there is a client.
Yielded(x) ==
  IF context'[x].canYield
  THEN /\ heard' = IF Ends(x) THEN heard \cup {x} ELSE heard
       /\ UNCHANGED stopped \/ (client /\ stopped' = TRUE)
  ELSE UNCHANGED <<heard, stopped>>

\* The context has a session, unless addWork throws.  The code does not advance its
\* source then; nothing reads it any more, and `next` goes on counting the contexts.
Submit(x, then) ==
  /\ inflight' = inflight \cup {x} /\ pc' \in {then, "thrown"}
  /\ UNCHANGED ended

\* `delete context`.
Delete(x, then) ==
  /\ ended' = ended \cup {x} /\ inflight' = inflight \ {x} /\ pc' = then

\* One turn of the request source.
fill ==
  /\ pc = "fill"
  /\ IF i < stepSize /\ More
     THEN /\ makeRequest(next) /\ Yielded(next)
          /\ IF Ends(next)
             THEN Delete(next, "fill") /\ UNCHANGED <<i, client>>
             ELSE Submit(next, "fill") /\ i' = i + 1 /\ client' = TRUE
          /\ next' = next + 1
     ELSE /\ pc' = "run" /\ client' = TRUE
          /\ UNCHANGED <<script, next, i, stopped, inflight, ended, context, executors, heard>>
  /\ UNCHANGED <<setUp, current>>

\* Mutant: the same request goes out again, the script is not asked for another.
AfterResultResends(x) ==
  IF Ends(x) THEN Delete(x, "next")
  ELSE pc' = "run" /\ UNCHANGED <<inflight, ended>>

\* A context that ended is deleted and replaced; another asks for its next request.
AfterResult(x) ==
  IF Ends(x) THEN Delete(x, "next")
  ELSE pc' = "again" /\ UNCHANGED <<inflight, ended>>

\* A response: makeResult.
onResponse(x) ==
  /\ pc = "run" /\ ~stopped /\ x \in inflight
  /\ current' = x
  /\ makeResult(x) /\ Yielded(x)
  /\ AfterResult(x)
  /\ UNCHANGED <<setUp, next, i, client>>

\* Its second half: makeRequest.
askAgain ==
  /\ pc = "again"
  /\ makeRequest(current) /\ Yielded(current)
  /\ IF Ends(current) THEN Delete(current, "next") ELSE Submit(current, "run")
  /\ UNCHANGED <<setUp, next, i, client, current>>

\* One call of doNextWork.
doNextWork ==
  /\ pc = "next"
  /\ IF More
     THEN /\ makeRequest(next) /\ Yielded(next)
          /\ IF Ends(next) THEN Delete(next, "next") ELSE Submit(next, "run")
          /\ next' = next + 1
     ELSE /\ pc' = "run"
          /\ UNCHANGED <<script, next, stopped, inflight, ended, context, executors, heard>>
  /\ UNCHANGED <<setUp, i, client, current>>

\* A call of any of the actions above, about x, that uses a deleted context.
useDeleted(x) ==
  /\ \/ pc = "fill" /\ i < stepSize /\ More /\ x = next
     \/ pc = "next" /\ More /\ x = next
     \/ pc = "run" /\ ~stopped /\ x \in inflight
     \/ pc = "again" /\ x = current
  /\ UsesDeleted(x)
  /\ pc' = "undefined" /\ current' = x
  /\ UNCHANGED <<script, setUp, next, i, client, stopped, inflight, ended,
                 context, executors, heard>>

\* A session with a delay resolves inside the event loop, and may throw there.
delayedThrows ==
  /\ pc = "run" /\ ~stopped /\ inflight # {}
  /\ pc' = "thrown"
  /\ UNCHANGED <<script, setUp, driver, context, executors, heard>>

\* Client::run returns.
runReturns ==
  /\ pc = "run" /\ (stopped \/ inflight = {})
  /\ pc' = "done" /\ client' = FALSE
  /\ UNCHANGED <<script, setUp, next, i, stopped, inflight, ended, current,
                 context, executors, heard>>

Finished == pc \in {"done", "thrown", "undefined"} /\ UNCHANGED vars

Next ==
  \/ setScriptLoader \/ exportAll \/ runFile
  \/ fill \/ (\E x \in Items : onResponse(x)) \/ askAgain \/ doNextWork
  \/ (\E x \in Items : useDeleted(x))
  \/ delayedThrows \/ runReturns \/ Finished

Spec == Init /\ [][Next]_vars

-----------------------------------------------------------------------------
\* However many calls fail, the Lua stack holds nothing but the messages of those
\* that ran out of memory: no long sequence of other failures uses it up.
StackIsLevel == stack = memory

\* The exception of the constructor tells why it failed; it is empty, and never the
\* message of another failure, when memory ran out.
ThrownIsTheCause == message = IF cause = "memory" THEN "none" ELSE cause

\* The miner of x is the only one of its address.
Single(x) == \A y \in Items : ipOf[y] = ipOf[x] => y = x

\* A deleted context is used only in a call for a miner whose address the source gave
\* more than once, when another miner of it has ended; never in one for the only miner
\* of an address, whatever becomes of the others.
DeletedForRepeatsOnly ==
  pc = "undefined" =>
    \E y \in ended : y # current /\ ipOf[y] = ipOf[current]

\* No miner ends unheard, whichever calls failed before and whichever miner's
\* executor acted on its context.
EndsAreHeard == ended = heard

\* A deleted context is at step "end", and one at step "end" is deleted before anything
\* else is done with it, if no other miner of its address could end it.
DeletedAtEnd ==
  \A x \in Items : /\ x \in ended => context[x].stepName = "end"
                   /\ Single(x) /\ context[x].stepName = "end" => x \in ended

\* A context in use is in one place; the one at hand is not deleted.
ContextsInUse ==
  /\ inflight \cap ended = {} /\ inflight \cup ended = 1 .. next - 1
  /\ pc = "again" => current \in inflight

\* What the driver does with failing scripts and repeated addresses: nothing piles up
\* on the stack, errors keep to their cause, no miner is lost, and a deleted
\* context is used only for miners whose address was given more than once.
HostInv ==
  /\ TypeOK /\ StackIsLevel /\ ThrownIsTheCause
  /\ DeletedForRepeatsOnly /\ DeletedAtEnd /\ EndsAreHeard /\ ContextsInUse

Phase(x) ==
  IF context[x].stepName = "end" THEN "over"
  ELSE IF x \notin inflight \/ (pc = "again" /\ current = x) THEN "request"
  ELSE "session"

Contract(x) == INSTANCE ScriptContract WITH
                 phase <- Phase(x), mayYield <- context[x].canYield

\* Native driver and failing scripts together keep the contract of the scripts for
\* the context of every miner that is the only one of its address, whatever becomes
\* of the others: the two functions are called in turn, nothing is called at step
\* "end", and what the consumer may see is never taken back.
HostKeepsContract ==
  /\ \A x \in Items : Single(x) => Contract(x)!SInit
  /\ [][\A x \in Items : Single(x) => [Contract(x)!MakeRequest \/ Contract(x)!MakeResult]_(Contract(x)!scriptVars)]_vars
=============================================================================

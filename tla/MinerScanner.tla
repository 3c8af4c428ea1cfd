---------------------------- MODULE MinerScanner ----------------------------
(***************************************************************************)
(* src/src/miner/MinerScanner::run with its tcpclient::Client: the driver   *)
(* that keeps stepSize work contexts in flight over a source of IPs.        *)
(* MinerConfigurator (also the rebooter and the upgrader) is the same code   *)
(* over a source of miners.                                                 *)
(*                                                                          *)
(* The request source fills stepSize sessions before the event loop runs;   *)
(* then each response goes through the script, and a context that reaches   *)
(* step "end" is deleted and replaced from the source by doNextWork.  At    *)
(* each yield the consumer of the miners has control and may call stop().   *)
(* Everything runs on one thread, so one iteration of a loop is one action. *)
(*                                                                          *)
(* Of the script (HelperBase.lua, ExecutorBase.lua) the driver sees two     *)
(* things after each call: stepName_ = "end" and canYield_, which setStep   *)
(* never resets and always sets on the way to "end".  Of a session it sees  *)
(* SessionContract: one response, or an exception when it is submitted.     *)
(***************************************************************************)
EXTENDS Integers, FiniteSets

CONSTANTS N,         \* length of the source
          stepSize,
          MaxRounds  \* bound: responses a script asks for before it ends

ASSUME NAssumption == N \in Nat
ASSUME StepSizeAssumption == stepSize \in Nat \ {0}
ASSUME MaxRoundsAssumption == MaxRounds \in Nat \ {0}

Items == 1 .. N

VARIABLES
  pc,        \* fill (request source), run (event loop), next (doNextWork), done, thrown
  next,      \* the position of ipSource_
  i,         \* the fill loop's counter
  client,    \* client_ # nullptr
  stopped,   \* the io_service was stopped
  inflight,  \* contexts that have a session
  ended,     \* contexts deleted at step "end"
  canYield,  \* canYield_ of each context
  rounds,    \* responses each context has had
  finals     \* history: yields of each miner at step "end"

vars == <<pc, next, i, client, stopped, inflight, ended, canYield, rounds, finals>>

TypeOK ==
  /\ pc \in {"fill", "run", "next", "done", "thrown"}
  /\ next \in 1 .. N + 1
  /\ i \in 0 .. stepSize
  /\ client \in BOOLEAN /\ stopped \in BOOLEAN
  /\ inflight \subseteq Items /\ ended \subseteq Items
  /\ canYield \in [Items -> BOOLEAN]
  /\ rounds \in [Items -> 0 .. MaxRounds]
  /\ finals \in [Items -> Nat]

Init ==
  /\ pc = "fill" /\ next = 1 /\ i = 0
  /\ client = FALSE /\ stopped = FALSE
  /\ inflight = {} /\ ended = {}
  /\ canYield = [x \in Items |-> FALSE]
  /\ rounds = [x \in Items |-> 0]
  /\ finals = [x \in Items |-> 0]

\* ipSource_ has another item.
More == next <= N

\* What a call of the script may leave in context x: may it yield, has it ended.
Outcomes(may) == {o \in [yields : BOOLEAN, ends : BOOLEAN] :
                    (may \/ o.ends) => o.yields}

\* The consumer gets the miner when the context may yield; it may call stop(),
\* which needs a client.
Yielded(x, o) ==
  /\ canYield' = [canYield EXCEPT ![x] = o.yields]
  /\ finals' = [finals EXCEPT ![x] = IF o.yields /\ o.ends THEN @ + 1 ELSE @]
  /\ \/ UNCHANGED stopped
     \/ o.yields /\ client /\ stopped' = TRUE

\* addWork(request) returns: the context has a session from here on.
AddWork(x, then) ==
  /\ inflight' = inflight \cup {x}
  /\ pc' = then
  /\ UNCHANGED ended

\* addWork(request) throws, as the session's resolver does: the exception passes
\* through the event loop and both coroutines to the consumer, and the source is
\* not advanced.
AddWorkThrows == pc' = "thrown" /\ UNCHANGED <<next, i, inflight, ended>>

\* A new context, the one of `next`, ends at once or gets a session.
TakeUp(o, then) ==
  \/ /\ o.ends
     /\ ended' = ended \cup {next} /\ next' = next + 1
     /\ UNCHANGED <<pc, inflight>>
  \/ ~o.ends /\ AddWork(next, then) /\ next' = next + 1
  \/ ~o.ends /\ AddWorkThrows

\* Mutant: the fill does not stop at stepSize.
FillNextUnbounded ==
  /\ pc = "fill" /\ More
  /\ \E o \in Outcomes(FALSE) :
       /\ Yielded(next, o) /\ TakeUp(o, "fill")
       /\ i' = IF o.ends \/ pc' = "thrown" THEN i ELSE i + 1
       /\ client' = (client \/ ~o.ends)
  /\ UNCHANGED rounds

\* One iteration of the request source: the client object exists once the
\* source has given out its first request.
FillNext ==
  /\ pc = "fill" /\ i < stepSize /\ More
  /\ \E o \in Outcomes(FALSE) :
       /\ Yielded(next, o) /\ TakeUp(o, "fill")
       /\ i' = IF o.ends \/ pc' = "thrown" THEN i ELSE i + 1
       /\ client' = (client \/ ~o.ends)
  /\ UNCHANGED rounds

\* The request source is spent: Client::run enters the event loop.
FillDone ==
  /\ pc = "fill" /\ ~(i < stepSize /\ More)
  /\ pc' = "run"
  /\ client' = TRUE
  /\ UNCHANGED <<next, i, stopped, inflight, ended, canYield, rounds, finals>>

\* Mutant: an ended context is not replaced.
FinishOnly(x) ==
  /\ inflight' = inflight \ {x}
  /\ ended' = ended \cup {x}
  /\ pc' = "run"

\* `delete context; doNextWork();`
Finish(x) ==
  /\ inflight' = inflight \ {x}
  /\ ended' = ended \cup {x}
  /\ pc' = "next"

\* Mutant: after makeRequest the step is not looked at again.
ResubmitAnyway(x, o) == AddWork(x, "run") \/ AddWorkThrows

\* After makeRequest: end the context or submit its next request.
Resubmit(x, o) ==
  IF o.ends THEN Finish(x) ELSE AddWork(x, "run") \/ AddWorkThrows

\* One response of the response source: makeResult, a yield, and, unless the
\* context has ended, makeRequest, a yield and the next submission.  A script
\* that ends in makeResult is not asked for a request.
onResponse(x) ==
  /\ pc = "run" /\ ~stopped /\ x \in inflight
  /\ rounds[x] < MaxRounds
  /\ rounds' = [rounds EXCEPT ![x] = @ + 1]
  /\ \E o \in Outcomes(canYield[x]) :
       \/ /\ o.ends
          /\ Yielded(x, o)
          /\ Finish(x)
       \/ /\ ~o.ends
          /\ rounds[x] + 1 < MaxRounds
          /\ \E p \in Outcomes(o.yields) :
               /\ canYield' = [canYield EXCEPT ![x] = p.yields]
               /\ finals' = [finals EXCEPT ![x] = IF p.ends THEN @ + 1 ELSE @]
               /\ \/ UNCHANGED stopped
                  \/ p.yields /\ stopped' = TRUE
               /\ Resubmit(x, p)
  /\ UNCHANGED <<next, i, client>>

\* Mutant: the source is not advanced past an item that was submitted.
doNextWorkRepeats ==
  /\ pc = "next"
  /\ IF More
     THEN \E o \in Outcomes(FALSE) :
            /\ Yielded(next, o)
            /\ IF o.ends THEN TakeUp(o, "run") ELSE AddWork(next, "run") /\ UNCHANGED next
     ELSE /\ pc' = "run"
          /\ UNCHANGED <<next, stopped, inflight, ended, canYield, finals>>
  /\ UNCHANGED <<i, client, rounds>>

\* Mutant: it goes on asking a source that is spent.
doNextWorkSpins ==
  \/ doNextWorkRepeats /\ More
  \/ pc = "next" /\ ~More /\ UNCHANGED vars

\* One call of doNextWork; it calls itself when the new context ends at once.
doNextWork ==
  /\ pc = "next"
  /\ IF More
     THEN \E o \in Outcomes(FALSE) : Yielded(next, o) /\ TakeUp(o, "run")
     ELSE /\ pc' = "run"
          /\ UNCHANGED <<next, stopped, inflight, ended, canYield, finals>>
  /\ UNCHANGED <<i, client, rounds>>

\* A session with a delay resolves inside the event loop, and may throw there.
delayedThrows ==
  /\ pc = "run" /\ ~stopped /\ inflight # {}
  /\ AddWorkThrows
  /\ UNCHANGED <<client, stopped, canYield, rounds, finals>>

\* The event loop returns when it is stopped or has no session left.
runReturns ==
  /\ pc = "run" /\ (stopped \/ inflight = {})
  /\ pc' = "done"
  /\ client' = FALSE
  /\ UNCHANGED <<next, i, stopped, inflight, ended, canYield, rounds, finals>>

Finished == pc \in {"done", "thrown"} /\ UNCHANGED vars

Next ==
  \/ FillNext
  \/ FillDone
  \/ \E x \in Items : onResponse(x)
  \/ doNextWork
  \/ delayedThrows
  \/ runReturns
  \/ Finished

Spec == Init /\ [][Next]_vars

(***************************************************************************)
(* The driver's own steps are plain sequential code, and a session with a   *)
(* positive timeout answers (Session!TimedSessionAnswers), but for a TLS    *)
(* shutdown that does not return; no request of the scripts is sent by TLS. *)
(***************************************************************************)
FairSpec ==
  /\ Spec
  /\ WF_vars(FillNext) /\ WF_vars(FillDone)
  /\ WF_vars(doNextWork) /\ WF_vars(runReturns)
  /\ \A x \in Items : WF_vars(onResponse(x))

-----------------------------------------------------------------------------
\* Never more than stepSize sessions at a time.
ConcurrencyBound == Cardinality(inflight) <= stepSize

\* Every item the source gave out is in one place: with a session or ended.
Conservation ==
  /\ inflight \cap ended = {}
  /\ inflight \cup ended = 1 .. next - 1

\* Whenever the event loop runs, all stepSize places are in use or the source
\* is spent: no ended context, and no item that ended at once, costs a place.
NoIdlePlace ==
  pc = "run" => Cardinality(inflight) = stepSize \/ ~More

\* A run that was not stopped has ended every item of the source.
DoneMeansAll == pc = "done" /\ ~stopped => ended = Items

\* The consumer sees the outcome of every ended item, once.
EachOutcomeOnce ==
  \A x \in Items : finals[x] = IF x \in ended THEN 1 ELSE 0

\* Every item is accounted for in every phase, stopped and thrown runs included:
\* with one session or ended, reported once, and no place is left idle.
PoolInv ==
  /\ TypeOK
  /\ ConcurrencyBound
  /\ Conservation
  /\ NoIdlePlace
  /\ EachOutcomeOnce

\* The run ends, by itself or stopped, however the responses are ordered.
Terminates == <>(pc \in {"done", "thrown"})

\* The driver is a work pool.
P == INSTANCE WorkPool WITH
       Limit <- stepSize, todo <- next .. N, active <- inflight, finished <- ended

ImplementsPool == P!Pool
=============================================================================

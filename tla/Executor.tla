------------------------------ MODULE Executor ------------------------------
(***************************************************************************)
(* src/src/lua/scripts/HelperBase.lua and ExecutorBase.lua: how a script is *)
(* driven through its steps for one work context, with the automatic retry  *)
(* of a request whose session failed.                                       *)
(*                                                                          *)
(* A script is a set of stages.  The make step of a stage fills the request *)
(* and names the stage's parse step; the parse step gets the response and   *)
(* names the make step of some stage.  Either may end the context with a    *)
(* status, or throw; either may change the request's delay.  Which it does  *)
(* depends on the miner and is left open.  A parse step may also name no     *)
(* step at all, as the scripts do when a reply is JSON but not an object;    *)
(* and a make step may name its parse step without having filled the request, *)
(* as those do that call makeAuthRequest or makeLuciSessionReq first: without *)
(* a password these only set the step "end", and the make step overrides it.  *)
(***************************************************************************)
EXTENDS Integers

CONSTANTS
  Stages,  \* the stages of the script
  First,   \* the one a new executor begins with
  Unsure,  \* those whose make step may leave the request unfilled
  Nothing, \* what the request of a new context holds
  Delays,  \* the delays the script sets
  limit    \* autoRetry.limit: the option network.autoRetryTimes, or 2

ASSUME FirstAssumption == First \in Stages
ASSUME UnsureAssumption == Unsure \subseteq Stages
ASSUME NothingAssumption == Nothing \notin Stages
ASSUME DelaysAssumption == Delays \subseteq Nat /\ 0 \in Delays
ASSUME LimitAssumption == limit \in Nat

\* self.nextStep and the context's stepName, which setStep sets together.
Make(k) == <<"make", k>>
Parse(k) == <<"parse", k>>
DoRetry == <<"doRetry", First>>
End == <<"end", First>>

Steps == {"make", "parse", "doRetry", "end"} \X Stages

\* What ScriptLoader::makeResult turns an error code into; "refused" stands
\* for every other one.
Stats == {"success", "timeout", "stream truncated", "refused"}

\* autoRetry.delay
RetryDelay == 1

VARIABLES
  pc,       \* the driver's next call: request (makeRequest) or session (makeResult,
            \* with the response of the submitted request), or over
  step,     \* nextStep, stepName_
  canYield, \* canYield_
  content,  \* the stage that filled request_.content_, or Nothing
  delay,    \* request_.delay_timeout_
  enable, inRetry, times, originDelay, originStep,   \* autoRetry
  wanted,   \* history: the delay the script last set
  maker,    \* history: the stage whose make step had the request submitted, or Nothing
  sends     \* history: submissions since that make step

autoRetry == <<enable, inRetry, times, originDelay, originStep>>
vars == <<pc, step, canYield, content, delay, autoRetry, wanted, maker, sends>>

TypeOK ==
  /\ pc \in {"request", "session", "over"}
  /\ step \in Steps
  /\ canYield \in BOOLEAN
  /\ content \in Stages \cup {Nothing} /\ maker \in Stages \cup {Nothing}
  /\ delay \in Delays \cup {RetryDelay}
  /\ enable \in BOOLEAN /\ inRetry \in BOOLEAN
  /\ times \in 0 .. limit
  /\ originDelay \in Delays \cup {RetryDelay}
  /\ originStep \in Steps
  /\ wanted \in Delays
  /\ sends \in 0 .. limit + 1

\* newContext, and the executor's __init: initRetry and the first step.  The
\* nil originDelay and originStepName of a fresh executor are never read.
Init ==
  /\ pc = "request" /\ step = Make(First) /\ canYield = FALSE
  /\ content = Nothing /\ delay = 0
  /\ enable = TRUE /\ inRetry = FALSE /\ times = 0
  /\ originDelay = 0 /\ originStep = Make(First)
  /\ wanted = 0 /\ maker = Nothing /\ sends = 0

-----------------------------------------------------------------------------
\* setStep("end"), or the catch of HelperBase: the context has ended and the miner
\* may be yielded.  Where a script ends without a status (scanner/AvalonHttpLuci.lua),
\* a step before had set one.
EndHere ==
  /\ pc' = "over"
  /\ step' = End
  /\ canYield' = TRUE

\* Mutant: a step without a status takes canYield back.
SetStepResets(s) ==
  /\ step' = s
  /\ canYield' \in BOOLEAN

\* setStep(name) to a step that goes on, with or without a status.
SetStep(s) ==
  /\ step' = s
  /\ canYield' \in {canYield, TRUE}

\* setRequestDelayTimeout, if the script calls it.
ScriptDelay(old) ==
  \/ delay' = old /\ UNCHANGED wanted
  \/ wanted' \in Delays /\ delay' = wanted'

\* makeRequest of a stage's make step: the request is filled and submitted; or it
\* is submitted with what an earlier stage filled in, after a setStep("end") with a
\* status that did not last; or the context ends.
MakeStep(k) ==
  /\ pc = "request" /\ step = Make(k)
  /\ ScriptDelay(delay)
  /\ \/ /\ SetStep(Parse(k)) /\ content' = k
        /\ pc' = "session" /\ maker' = k /\ sends' = 1
     \/ /\ k \in Unsure
        /\ step' = Parse(k) /\ canYield' = TRUE /\ UNCHANGED content
        /\ pc' = "session" /\ maker' = k /\ sends' = 1
     \/ /\ EndHere
        /\ UNCHANGED <<content, maker, sends>>
  /\ UNCHANGED autoRetry

\* makeRequest of a retry: doRetry takes the step back, and the request is
\* submitted as it is.
doRetry ==
  /\ pc = "request" /\ step = DoRetry
  /\ step' = originStep
  /\ canYield' = TRUE
  /\ sends' = sends + 1
  /\ pc' = "session"
  /\ UNCHANGED <<content, maker, delay, autoRetry, wanted>>

\* makeRequest of a parse step that named no next step: it has no response to
\* parse, and that ends the context.
ParseNothing ==
  /\ pc = "request" /\ \E k \in Stages : step = Parse(k)
  /\ EndHere
  /\ UNCHANGED <<content, maker, delay, autoRetry, wanted, sends>>

-----------------------------------------------------------------------------
\* The test of retry().
MayRetry == enable /\ times < limit

\* Mutant: the step is not kept.
retryForgetsStep ==
  /\ originDelay' = delay
  /\ times' = times + 1 /\ inRetry' = TRUE
  /\ delay' = RetryDelay
  /\ step' = DoRetry /\ canYield' = TRUE
  /\ UNCHANGED <<enable, originStep>>

\* retry(): keep the delay and the step, and come back through doRetry after
\* RetryDelay seconds.
retry ==
  /\ originDelay' = delay /\ originStep' = step
  /\ times' = times + 1 /\ inRetry' = TRUE
  /\ delay' = RetryDelay
  /\ step' = DoRetry /\ canYield' = TRUE
  /\ UNCHANGED enable

\* stopRetry() restores the delay.
DelayAfterRetry == IF inRetry THEN originDelay ELSE delay

\* Mutant: the retry state is not reset.
stopRetryKeeps(keep) ==
  /\ enable' = (enable /\ keep)
  /\ UNCHANGED <<inRetry, times, originDelay, originStep>>

\* Mutant: initRetry whether or not a retry was going on.
stopRetryAlways(keep) ==
  /\ enable' = keep
  /\ inRetry' = FALSE /\ times' = 0 /\ originDelay' = 0 /\ originStep' = Make(First)

\* stopRetry(): initRetry again, if a retry was going on; then the parse step
\* leaves retries on (keep) or disables them.
stopRetry(keep) ==
  /\ enable' = ((enable \/ inRetry) /\ keep)
  /\ IF inRetry
     THEN inRetry' = FALSE /\ times' = 0 /\ originDelay' = 0 /\ originStep' = Make(First)
     ELSE UNCHANGED <<inRetry, times, originDelay, originStep>>

\* makeResult of a stage's parse step: it goes on to some stage, possibly
\* without retries from now on (disableRetry), or hands the miner over to an
\* executor of its type (setExecutor), which only the scanner's scripts do and
\* they never disable retries, or it ends, or it names no step.
ParseStep(k) ==
  /\ step = Parse(k)
  /\ ScriptDelay(DelayAfterRetry)
  /\ \/ \E j \in Stages, keep \in BOOLEAN :
          /\ SetStep(Make(j)) /\ pc' = "request"
          /\ stopRetry(keep)
     \/ /\ enable
        /\ SetStep(Make(First)) /\ pc' = "request"
        /\ stopRetry(TRUE)
     \/ /\ EndHere
        /\ stopRetry(TRUE)
     \/ /\ UNCHANGED <<step, canYield>> /\ pc' = "request"
        /\ stopRetry(TRUE)
  /\ UNCHANGED <<content, maker, sends>>

\* makeResult with the stat of a session: retry, or let the parse step decide.
makeResult(stat) ==
  /\ pc = "session"
  /\ IF stat = "refused" /\ MayRetry
     THEN /\ retry
          /\ pc' = "request"
          /\ UNCHANGED <<content, maker, wanted, sends>>
     ELSE \E k \in Stages : ParseStep(k)

Finished == pc = "over" /\ UNCHANGED vars

Next ==
  \/ \E k \in Stages : MakeStep(k)
  \/ doRetry
  \/ ParseNothing
  \/ \E stat \in Stats : makeResult(stat)
  \/ Finished

Spec == Init /\ [][Next]_vars

\* The driver calls makeRequest at once, and makeResult when the session has
\* answered, as one with a timeout does but for a TLS shutdown that does not return
\* (Session!TimedSessionAnswers); no request of the scripts goes out over TLS.
FairSpec ==
  /\ Spec
  /\ WF_vars((\E k \in Stages : MakeStep(k)) \/ doRetry \/ ParseNothing)
  /\ WF_vars(\E stat \in Stats : makeResult(stat))

-----------------------------------------------------------------------------
\* After any number of retries, in any stage, a response is parsed by the step that
\* the make step named which had the request submitted.  It is the answer to what
\* that stage filled in, but where the make step may leave the request unfilled.
ParserMatchesRequest ==
  pc = "session" =>
    /\ step = Parse(maker)
    /\ content = maker \/ maker \in Unsure

\* A make step has its request sent at most once more than the configured number of
\* retries, and exactly as often as it was retried while that goes on.
RetriesBounded ==
  /\ sends <= limit + 1
  /\ pc = "session" => sends = times + 1

\* While a request is retried, it is sent after RetryDelay seconds, and only
\* scripts that did not disable retries are.
RetryWaits == inRetry => delay = RetryDelay /\ enable

\* Once a script has disabled retries, as each does before it waits for a
\* reboot, no later retry's end turns them on again.
DisabledForGood == [][~enable => ~enable']_vars

\* ExecutorBase.lua, line 22: originDelay is the "Delay value before retry".
OriginDelayIsScripts == inRetry => originDelay = wanted

\* Outside a retry the request has the delay its script gave it.
DelayRestored == ~inRetry => delay = wanted

\* Between makeRequest and makeResult, the step is the one that the maker of the
\* request named; between makeResult and makeRequest, either a step of the script is
\* about to run or the retry is about to send the old request again.
StepInv ==
  /\ pc = "session" => maker \in Stages /\ step = Parse(maker) /\ sends = times + 1
  /\ pc = "request" =>
       \/ ~inRetry /\ \E k \in Stages : step \in {Make(k), Parse(k)}
       \/ /\ inRetry /\ step = DoRetry /\ sends = times
          /\ maker \in Stages /\ originStep = Parse(maker)
  /\ pc = "over" => canYield /\ ~inRetry

\* What is submitted is what its maker filled in, if that is sure to fill it.
FilledInv == content = maker \/ maker \in Unsure

\* autoRetry counts from the first retry to its end.
RetryInv ==
  /\ inRetry <=> times > 0
  /\ RetryWaits

EInv == TypeOK /\ StepInv /\ FilledInv /\ RetryInv

\* The executor's invariant: a response reaches the parser that was named for it, of
\* a request that was filled for it where the script is sure to, and retries are
\* counted and bounded, whatever the script does and the sessions answer.
ExecutorInv == EInv /\ ParserMatchesRequest /\ RetriesBounded

\* A retry comes to an end, one way or the other.
RetryEnds == inRetry ~> ~inRetry

\* The driver sees of the executor what MinerScanner assumes of a script.
SC == INSTANCE ScriptContract WITH phase <- pc, mayYield <- canYield

ImplementsScriptContract == SC!Contract
=============================================================================

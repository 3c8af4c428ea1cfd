--------------------------- MODULE ExecutorProofs ---------------------------
(***************************************************************************)
(* Theorems about Executor for every set of stages, every set of delays and *)
(* every retry limit, and about the scan scripts run one after the other.   *)
(***************************************************************************)
EXTENDS MCExecutor, TLAPS

\* With at most one retry, the delay kept is the script's.
DelayInv == OriginDelayIsScripts /\ DelayRestored

USE FirstAssumption, DelaysAssumption, LimitAssumption, UnsureAssumption, NothingAssumption

LEMMA InitEInv == Init => EInv /\ DelayInv
<1> SUFFICES ASSUME Init PROVE EInv /\ DelayInv
  OBVIOUS
<1>1. TypeOK
  <2>1. canYield \in BOOLEAN /\ enable \in BOOLEAN /\ inRetry \in BOOLEAN
    BY DEF Init
  <2> QED
    BY <2>1 DEF Init, TypeOK, Steps, Make, RetryDelay
<1>2. StepInv
  BY DEF Init, StepInv
<1>3. RetryInv /\ DelayInv
  BY DEF Init, RetryInv, RetryWaits, DelayInv, OriginDelayIsScripts, DelayRestored
<1>4. FilledInv
  BY DEF Init, FilledInv
<1> QED
  BY <1>1, <1>2, <1>3, <1>4 DEF EInv

\* The delay an action of the script leaves is one of the script's or the old.
LEMMA ScriptDelayType ==
  ASSUME NEW old \in Delays \cup {RetryDelay}, ScriptDelay(old), wanted \in Delays
  PROVE  /\ delay' \in Delays \cup {RetryDelay} /\ wanted' \in Delays
         /\ old = wanted => delay' = wanted'
BY DEF ScriptDelay

\* The parse step gives the retry state back as it was at the start, but for
\* enable.
LEMMA RetryStopped ==
  ASSUME EInv, NEW keep \in BOOLEAN, stopRetry(keep)
  PROVE  /\ inRetry' = FALSE /\ times' = 0
         /\ enable' \in BOOLEAN
         /\ originDelay' \in Delays \cup {RetryDelay} /\ originStep' \in Steps
         /\ ~enable => ~enable'
<1>1. CASE inRetry
  BY <1>1 DEF EInv, TypeOK, RetryInv, RetryWaits, stopRetry, Steps, Make
<1>2. CASE ~inRetry
  BY <1>2 DEF EInv, TypeOK, RetryInv, stopRetry
<1> QED
  BY <1>1, <1>2

\* A parse step, whatever the script does in it.
LEMMA ParseStepEInv ==
  ASSUME EInv, pc = "session", NEW k \in Stages, ParseStep(k)
  PROVE  EInv' /\ (~enable => ~enable')
<1>1. DelayAfterRetry \in Delays \cup {RetryDelay}
  BY DEF EInv, TypeOK, DelayAfterRetry
<1>2. delay' \in Delays \cup {RetryDelay} /\ wanted' \in Delays
  BY <1>1, ScriptDelayType DEF EInv, TypeOK, ParseStep
<1>3. \E keep \in BOOLEAN : stopRetry(keep)
  BY DEF ParseStep
<1>4. /\ inRetry' = FALSE /\ times' = 0 /\ enable' \in BOOLEAN
      /\ originDelay' \in Delays \cup {RetryDelay} /\ originStep' \in Steps
      /\ ~enable => ~enable'
  BY <1>3, RetryStopped
<1>5. /\ content' \in Stages \cup {Nothing} /\ maker' \in Stages \cup {Nothing}
      /\ sends' \in 0 .. limit + 1 /\ FilledInv'
  BY DEF EInv, TypeOK, FilledInv, ParseStep
<1>6. \/ EndHere
      \/ pc' = "request" /\ \E j \in Stages : SetStep(Make(j))
      \/ pc' = "request" /\ UNCHANGED <<step, canYield>>
  BY DEF ParseStep
<1>7. CASE EndHere
  <2>0. canYield' \in BOOLEAN /\ inRetry' \in BOOLEAN
    BY <1>4, <1>7 DEF EndHere
  <2>1. TypeOK'
    BY <1>2, <1>4, <1>5, <1>7, <2>0 DEF EndHere, TypeOK, Steps, End
  <2> QED
    BY <2>1, <1>4, <1>5, <1>7 DEF EndHere, EInv, StepInv, RetryInv, RetryWaits
<1>8. CASE pc' = "request" /\ \E j \in Stages : SetStep(Make(j))
  <2>0. canYield' \in BOOLEAN /\ inRetry' \in BOOLEAN
    BY <1>4, <1>8 DEF SetStep, EInv, TypeOK
  <2>1. step' \in Steps
    BY <1>8 DEF SetStep, Steps, Make
  <2>2. TypeOK'
    BY <1>2, <1>4, <1>5, <1>8, <2>0, <2>1 DEF TypeOK
  <2>3. \E j \in Stages : step' = Make(j)
    BY <1>8 DEF SetStep
  <2>4. StepInv'
    BY <1>4, <1>8, <2>3 DEF StepInv, Make
  <2> QED
    BY <2>2, <2>4, <1>4, <1>5 DEF EInv, RetryInv, RetryWaits
<1>9. CASE pc' = "request" /\ UNCHANGED <<step, canYield>>
  <2>0. canYield' \in BOOLEAN /\ inRetry' \in BOOLEAN /\ step' \in Steps
    BY <1>4, <1>9 DEF EInv, TypeOK
  <2>1. TypeOK'
    BY <1>2, <1>4, <1>5, <1>9, <2>0 DEF TypeOK
  <2>2. step' = Parse(k)
    BY <1>9 DEF ParseStep
  <2>3. StepInv'
    BY <1>4, <1>9, <2>2 DEF StepInv
  <2> QED
    BY <2>1, <2>3, <1>4, <1>5 DEF EInv, RetryInv, RetryWaits
<1> QED
  BY <1>4, <1>6, <1>7, <1>8, <1>9

\* A retry.
LEMMA RetryEInv ==
  ASSUME EInv, pc = "session", MayRetry, retry, pc' = "request",
         UNCHANGED <<content, maker, wanted, sends>>
  PROVE  EInv'
<1>1. times \in 0 .. limit /\ times < limit /\ enable
  BY DEF EInv, TypeOK, MayRetry
<1>2. TypeOK'
  BY <1>1 DEF EInv, TypeOK, retry, Steps, DoRetry
<1>3. StepInv'
  BY <1>1 DEF EInv, StepInv, retry, Parse
<1>4. RetryInv'
  BY <1>1 DEF retry, RetryInv, RetryWaits
<1>5. FilledInv'
  BY DEF EInv, FilledInv
<1> QED
  BY <1>2, <1>3, <1>4, <1>5 DEF EInv

\* A make step fills the request, or it is one that is not sure to.
LEMMA MakeStepEInv ==
  ASSUME EInv, NEW k \in Stages, MakeStep(k)
  PROVE  EInv'
<1>1. pc = "request" /\ step = Make(k) /\ ~inRetry /\ times = 0
  <2>1. pc = "request" /\ step = Make(k)
    BY DEF MakeStep
  <2>2. step # DoRetry
    BY <2>1 DEF Make, DoRetry
  <2> QED
    BY <2>1, <2>2 DEF EInv, StepInv, RetryInv, TypeOK
<1>2. delay' \in Delays \cup {RetryDelay} /\ wanted' \in Delays
  BY ScriptDelayType DEF EInv, TypeOK, MakeStep
<1>3. UNCHANGED autoRetry
  BY DEF MakeStep
<1>4. CASE EndHere /\ UNCHANGED <<content, maker, sends>>
  <2>1. TypeOK'
    BY <1>2, <1>3, <1>4 DEF EInv, EndHere, TypeOK, Steps, End, autoRetry
  <2>2. FilledInv'
    BY <1>4 DEF EInv, FilledInv
  <2> QED
    BY <2>1, <2>2, <1>1, <1>3, <1>4
    DEF EndHere, EInv, StepInv, RetryInv, RetryWaits, autoRetry
<1>5. CASE /\ step' = Parse(k) /\ canYield' \in BOOLEAN
           /\ content' \in Stages \cup {Nothing} /\ (content' = k \/ k \in Unsure)
           /\ pc' = "session" /\ maker' = k /\ sends' = 1
  <2>1. step' \in Steps
    BY <1>5 DEF Steps, Parse
  <2>2. TypeOK'
    BY <1>2, <1>3, <1>5, <2>1 DEF EInv, TypeOK, autoRetry
  <2>3. StepInv' /\ FilledInv'
    BY <1>1, <1>3, <1>5 DEF StepInv, FilledInv, autoRetry
  <2> QED
    BY <2>2, <2>3, <1>1, <1>3 DEF EInv, RetryInv, RetryWaits, autoRetry
<1>6. CASE SetStep(Parse(k)) /\ content' = k /\ pc' = "session" /\ maker' = k /\ sends' = 1
  BY <1>5, <1>6 DEF SetStep, EInv, TypeOK
<1>7. CASE /\ k \in Unsure /\ step' = Parse(k) /\ canYield' = TRUE /\ UNCHANGED content
           /\ pc' = "session" /\ maker' = k /\ sends' = 1
  BY <1>5, <1>7 DEF EInv, TypeOK
<1> QED
  BY <1>4, <1>6, <1>7 DEF MakeStep

\* The resubmission.
LEMMA DoRetryEInv ==
  ASSUME EInv, doRetry
  PROVE  EInv'
<1>1. inRetry /\ maker \in Stages /\ originStep = Parse(maker) /\ sends = times
  BY DEF EInv, StepInv, doRetry, Make, Parse, DoRetry
<1>2. times \in 0 .. limit
  BY DEF EInv, TypeOK
<1>3. TypeOK'
  BY <1>1, <1>2 DEF EInv, TypeOK, doRetry, autoRetry, Steps, Parse
<1>4. StepInv' /\ FilledInv'
  BY <1>1, <1>2 DEF EInv, FilledInv, doRetry, StepInv, autoRetry, Parse
<1>5. RetryInv'
  BY DEF EInv, doRetry, RetryInv, RetryWaits, autoRetry
<1> QED
  BY <1>3, <1>4, <1>5 DEF EInv

\* A parse step without a response.
LEMMA ParseNothingEInv ==
  ASSUME EInv, ParseNothing
  PROVE  EInv'
<1>1. ~inRetry
  BY DEF ParseNothing, EInv, StepInv, Parse, DoRetry
<1>2. pc' = "over" /\ step' = End /\ canYield' /\ UNCHANGED <<content, maker, delay, wanted, sends>>
  BY DEF ParseNothing, EndHere
<1>3. UNCHANGED autoRetry
  BY DEF ParseNothing
<1>4. TypeOK'
  <2>1. canYield' \in BOOLEAN /\ enable' \in BOOLEAN /\ inRetry' \in BOOLEAN
    BY <1>3 DEF ParseNothing, EndHere, EInv, TypeOK, autoRetry
  <2> QED
    BY <1>2, <1>3, <2>1 DEF EInv, TypeOK, Steps, End, autoRetry
<1> QED
  BY <1>1, <1>2, <1>3, <1>4 DEF EInv, StepInv, FilledInv, RetryInv, RetryWaits, autoRetry

\* Every step keeps the invariant and never turns retries on again.
LEMMA NextEInv == EInv /\ [Next]_vars => EInv' /\ (~enable => ~enable')
<1> SUFFICES ASSUME EInv, [Next]_vars PROVE EInv' /\ (~enable => ~enable')
  OBVIOUS
<1>1. ASSUME NEW k \in Stages, MakeStep(k) PROVE EInv' /\ (~enable => ~enable')
  BY <1>1, MakeStepEInv DEF MakeStep, autoRetry
<1>2. CASE doRetry
  BY <1>2, DoRetryEInv DEF doRetry, autoRetry
<1>3. ASSUME NEW stat \in Stats, makeResult(stat) PROVE EInv' /\ (~enable => ~enable')
  <2>1. CASE stat = "refused" /\ MayRetry
    BY <1>3, <2>1, RetryEInv DEF makeResult, retry
  <2>2. CASE ~(stat = "refused" /\ MayRetry)
    BY <1>3, <2>2, ParseStepEInv DEF makeResult
  <2> QED
    BY <2>1, <2>2
<1>4. CASE UNCHANGED vars
  BY <1>4 DEF vars, autoRetry, EInv, TypeOK, StepInv, FilledInv, RetryInv, RetryWaits
<1>5. CASE ParseNothing
  BY <1>5, ParseNothingEInv DEF ParseNothing, autoRetry
<1> QED
  BY <1>1, <1>2, <1>3, <1>4, <1>5 DEF Next, Finished

-----------------------------------------------------------------------------
\* The inductive invariant holds of HelperBase and ExecutorBase.
THEOREM EInvCorrect == Spec => []EInv
<1> QED
  BY InitEInv, NextEInv, PTL DEF Spec

\* A response reaches the parse step named by the make step that had the request
\* submitted (makeResult after retry, doRetry and the script's own setStep), and
\* answers what that make step filled in unless it is one of those that may leave
\* the request unfilled (Unsure); with Unsure = {} every response is parsed by the
\* step of its request.  Whatever network.autoRetryTimes is, a make step has the
\* request sent at most once more than that, and a retry waits RetryDelay seconds.
THEOREM ExecutorCorrect == Spec => []ExecutorInv
<1>1. EInv => ParserMatchesRequest
  BY DEF EInv, StepInv, FilledInv, ParserMatchesRequest
<1>2. EInv => RetriesBounded
  BY DEF EInv, TypeOK, StepInv, RetryInv, RetriesBounded
<1>3. EInv => ExecutorInv
  BY <1>1, <1>2 DEF ExecutorInv
<1> QED
  BY <1>3, EInvCorrect, PTL

\* disableRetry is final.
THEOREM DisabledCorrect == Spec => DisabledForGood
<1>1. EInv /\ [Next]_vars => [~enable => ~enable']_vars
  BY NextEInv
<1> QED
  BY <1>1, EInvCorrect, PTL DEF Spec, DisabledForGood

\* With at most one retry configured, stopRetry restores the script's delay
\* (ExecutorBase.lua, lines 28 and 51); with more it need not.
THEOREM DelayCorrect == limit <= 1 => (Spec => []DelayRestored)
<1> SUFFICES ASSUME limit <= 1 PROVE Spec => []DelayRestored
  OBVIOUS
<1>1. EInv /\ DelayInv /\ [Next]_vars => DelayInv'
  <2> SUFFICES ASSUME EInv, DelayInv, [Next]_vars PROVE DelayInv'
    OBVIOUS
  <2> USE DEF DelayInv, OriginDelayIsScripts, DelayRestored
  <2>1. ASSUME NEW k \in Stages, MakeStep(k) PROVE DelayInv'
    <3>1. step # DoRetry
      BY <2>1 DEF MakeStep, Make, DoRetry
    <3>2. ~inRetry
      BY <2>1, <3>1 DEF MakeStep, EInv, StepInv
    <3>3. delay' = wanted'
      BY <2>1, <3>2 DEF MakeStep, ScriptDelay
    <3> QED
      BY <2>1, <3>2, <3>3 DEF MakeStep, autoRetry
  <2>2. CASE doRetry
    BY <2>2 DEF doRetry, autoRetry
  <2>3. ASSUME NEW stat \in Stats, makeResult(stat) PROVE DelayInv'
    <3>1. CASE stat = "refused" /\ MayRetry
      <4>1. ~inRetry
        BY <3>1 DEF MayRetry, EInv, TypeOK, RetryInv
      <4> QED
        BY <2>3, <3>1, <4>1 DEF makeResult, retry
    <3>2. CASE ~(stat = "refused" /\ MayRetry)
      <4>1. PICK k \in Stages : ParseStep(k)
        BY <2>3, <3>2 DEF makeResult
      <4>2. delay' = wanted'
        BY <4>1 DEF ParseStep, ScriptDelay, DelayAfterRetry
      <4>3. inRetry' = FALSE
        BY <4>1, RetryStopped DEF ParseStep
      <4> QED
        BY <4>2, <4>3
    <3> QED
      BY <3>1, <3>2
  <2>4. CASE UNCHANGED vars
    BY <2>4 DEF vars, autoRetry
  <2>5. CASE ParseNothing
    BY <2>5 DEF ParseNothing, autoRetry
  <2> QED
    BY <2>1, <2>2, <2>3, <2>4, <2>5 DEF Next, Finished
<1>2. DelayInv => DelayRestored
  BY DEF DelayInv
<1> QED
  BY <1>1, <1>2, InitEInv, EInvCorrect, PTL DEF Spec

\* HelperBase keeps the contract the drivers rely on, whatever the scripts do.
THEOREM ExecutorRefinesScriptContract == Spec => ImplementsScriptContract
<1>1. Init => SC!SInit
  BY DEF Init, SC!SInit
<1>2. EInv /\ [Next]_vars => [SC!MakeRequest \/ SC!MakeResult]_(SC!scriptVars)
  <2> SUFFICES ASSUME EInv, [Next]_vars
               PROVE  SC!MakeRequest \/ SC!MakeResult \/ UNCHANGED SC!scriptVars
    OBVIOUS
  <2>0. canYield \in BOOLEAN
    BY DEF EInv, TypeOK
  <2>1. ASSUME NEW k \in Stages, MakeStep(k) PROVE SC!MakeRequest
    <3>1. /\ canYield' \in BOOLEAN
          /\ canYield => canYield'
          /\ pc' = "over" => canYield'
      <4>1. CASE EndHere
        BY <4>1 DEF EndHere
      <4>2. CASE SetStep(Parse(k)) /\ pc' = "session"
        BY <2>0, <4>2 DEF SetStep
      <4>3. CASE canYield' = TRUE
        BY <4>3
      <4> QED
        BY <2>1, <4>1, <4>2, <4>3 DEF MakeStep
    <3>2. pc = "request" /\ pc' \in {"session", "over"}
      BY <2>1 DEF MakeStep, EndHere
    <3> QED
      BY <3>1, <3>2 DEF SC!MakeRequest, SC!After
  <2>2. CASE doRetry
    BY <2>0, <2>2 DEF doRetry, SC!MakeRequest, SC!After
  <2>3. ASSUME NEW stat \in Stats, makeResult(stat) PROVE SC!MakeResult
    <3>1. CASE stat = "refused" /\ MayRetry
      BY <2>0, <2>3, <3>1 DEF makeResult, retry, SC!MakeResult, SC!After
    <3>2. CASE ~(stat = "refused" /\ MayRetry)
      BY <2>0, <2>3, <3>2 DEF makeResult, ParseStep, EndHere, SetStep, SC!MakeResult, SC!After
    <3> QED
      BY <3>1, <3>2
  <2>4. CASE UNCHANGED vars
    BY <2>4 DEF vars, SC!scriptVars
  <2>5. CASE ParseNothing
    BY <2>5 DEF ParseNothing, EndHere, SC!MakeRequest, SC!After
  <2> QED
    BY <2>1, <2>2, <2>3, <2>4, <2>5 DEF Next, Finished
<1> QED
  BY <1>1, <1>2, EInvCorrect, PTL DEF Spec, ImplementsScriptContract, SC!Contract
-----------------------------------------------------------------------------
(***************************************************************************)
(* The scan, for every limit of retries.                                    *)
(***************************************************************************)

\* What a scan script relies on from those before it: the type its page was
\* taken for was shown by the page, but for the redirection taken for a WhatsMiner;
\* a script for one type runs only for a miner that showed that type; and the
\* list of names of the mining program is untouched before the first page that
\* has the name in its path.
RunsForShown ==
  script \in evidence \cup {"HttpAutoDetect", "GenericCgminerApi", "WhatsMinerHttpsLuci"}
NamesUntouched ==
  ~(script = "WhatsMinerHttpsLuci" /\ at \in {"parseMinerPool", "parsePowerMode", "end"})
    => working = 2

\* The scripts, and that the steps of each lead to steps of its own or to the end.
LEMMA ScriptNames ==
  Scan!Scripts = {"HttpAutoDetect", "GenericCgminerApi", "AntminerHttpCgi", "AnthillOS",
    "AvalonDeviceCgi", "AvalonHttpLuci", "BosHttpLuci", "WhatsMinerHttpsLuci"}
BY DEF Scan!Scripts, Scan!Follow

LEMMA FollowStays ==
  ASSUME NEW s \in Scan!Scripts, NEW k \in DOMAIN Scan!Follow[s]
  PROVE  /\ Scan!Follow[s][k] \subseteq DOMAIN Scan!Follow[s] \cup {"end"}
         /\ "parseOverclockStat" \in Scan!Follow[s][k] => s = "AntminerHttpCgi"
         /\ k = "parseOverclockStat" => Scan!Follow[s][k] = {"end"}
<1>1. CASE s = "HttpAutoDetect"
  BY <1>1 DEF Scan!Follow
<1>2. CASE s = "GenericCgminerApi"
  BY <1>2 DEF Scan!Follow, Scan!GenericSteps
<1>3. CASE s = "AntminerHttpCgi"
  BY <1>3 DEF Scan!Follow, Scan!AntminerSteps
<1>4. CASE s = "AnthillOS"
  BY <1>4 DEF Scan!Follow, Scan!AnthillSteps
<1>5. CASE s = "AvalonDeviceCgi"
  BY <1>5 DEF Scan!Follow, Scan!AvalonDeviceSteps
<1>6. CASE s = "AvalonHttpLuci"
  BY <1>6 DEF Scan!Follow, Scan!AvalonSteps
<1>7. CASE s = "BosHttpLuci"
  BY <1>7 DEF Scan!Follow, Scan!BosSteps
<1>8. CASE s = "WhatsMinerHttpsLuci"
  BY <1>8 DEF Scan!Follow, Scan!WhatsMinerSteps
<1> QED
  BY <1>1, <1>2, <1>3, <1>4, <1>5, <1>6, <1>7, <1>8, ScriptNames

\* Only the WhatsMiner script has pages with the name of the program in the path.
LEMMA ProgramPagesOfWhatsMiner ==
  ASSUME NEW s \in Scan!Scripts, s # "WhatsMinerHttpsLuci"
  PROVE  DOMAIN Scan!Follow[s] \cap {"parseMinerPool", "parsePowerMode"} = {}
<1>1. CASE s \in {"HttpAutoDetect", "GenericCgminerApi", "AntminerHttpCgi"}
  BY <1>1 DEF Scan!Follow, Scan!GenericSteps, Scan!AntminerSteps
<1>2. CASE s \in {"AnthillOS", "AvalonDeviceCgi", "AvalonHttpLuci", "BosHttpLuci"}
  BY <1>2 DEF Scan!Follow, Scan!AnthillSteps, Scan!AvalonDeviceSteps, Scan!AvalonSteps,
              Scan!BosSteps
<1> QED
  BY <1>1, <1>2, ScriptNames

\* A script begins with a step of its own, which is no overclock page.
LEMMA BeginStays ==
  ASSUME NEW s \in Scan!Scripts
  PROVE  /\ Scan!Begin[s] \in DOMAIN Scan!Follow[s]
         /\ Scan!Begin[s] \notin {"parseOverclockStat", "parseMinerPool", "parsePowerMode", "end"}
<1>1. CASE s \in {"HttpAutoDetect", "AnthillOS"}
  BY <1>1 DEF Scan!Begin, Scan!Follow, Scan!AnthillSteps
<1>2. CASE s \in {"GenericCgminerApi", "AntminerHttpCgi"}
  BY <1>2 DEF Scan!Begin, Scan!Follow, Scan!GenericSteps, Scan!AntminerSteps
<1>3. CASE s \in {"AvalonDeviceCgi", "AvalonHttpLuci"}
  BY <1>3 DEF Scan!Begin, Scan!Follow, Scan!AvalonDeviceSteps, Scan!AvalonSteps
<1>4. CASE s \in {"BosHttpLuci", "WhatsMinerHttpsLuci"}
  BY <1>4 DEF Scan!Begin, Scan!Follow, Scan!BosSteps, Scan!WhatsMinerSteps
<1> QED
  BY <1>1, <1>2, <1>3, <1>4, ScriptNames

-----------------------------------------------------------------------------
\* What the miner may be.
MinerRecords ==
  [httpDetect : Scan!Types, typeStr : Scan!Types, typeFound : BOOLEAN, hashrate : BOOLEAN]
Confirmed(m, shown) ==
  \/ m.typeStr \in shown \cup {"unknown"}
  \/ m.typeStr = "WhatsMinerHttpsLuci" /\ m.typeFound
Fits(m, shown) ==
  /\ m \in MinerRecords /\ shown \subseteq Scan!Web
  /\ Confirmed(m, shown)
  /\ m.httpDetect \in shown \cup {"unknown", "WhatsMinerHttpsLuci"}

SInv ==
  /\ script \in Scan!Scripts /\ at \in DOMAIN Scan!Follow[script] \cup {"end"}
  /\ address \in {"tcp", "tls"} \X {80, 443, 4028, 6060}
  /\ programs \in 2 .. 3 /\ working \in 0 .. programs /\ tries \in 0 .. limit
  /\ Scan!AddressIsScripts /\ Fits(miner, evidence) /\ RunsForShown /\ NamesUntouched

LEMMA SInvIsScanInv == SInv => ScanInv
BY DEF SInv, ScanInv, Scan!ScanInv, Scan!TypeOK, Scan!TypeIsConfirmed, Fits, Confirmed,
       MinerRecords

\* A new executor for a miner that fits what was shown.
LEMMA SetExecutorSInv ==
  ASSUME SInv, NEW s \in Scan!Scripts, NEW m, Scan!setExecutor(s, m),
         script # "WhatsMinerHttpsLuci",
         Fits(m, evidence'), evidence \subseteq evidence', tries' \in 0 .. limit,
         s \in evidence' \cup {"GenericCgminerApi", "WhatsMinerHttpsLuci"}
  PROVE  SInv'
<1>1. script' = s /\ working = 2 /\ working' = 2 /\ programs' \in 2 .. 3
  BY DEF SInv, Scan!setExecutor, NamesUntouched
<1>2. at' = "end" \/ (at' = Scan!Begin[s] /\ address' = Scan!FirstAddress(s))
  BY DEF Scan!setExecutor
<1>3. at' \in DOMAIN Scan!Follow[script'] \cup {"end"} /\ Scan!AddressIsScripts'
  BY <1>1, <1>2, BeginStays DEF Scan!AddressIsScripts, Scan!FirstAddress
<1>4. address' \in {"tcp", "tls"} \X {80, 443, 4028, 6060}
  BY DEF SInv, Scan!setExecutor, Scan!FirstAddress
<1>5. Fits(miner', evidence')
  <2>1. miner' = [m EXCEPT !.typeStr = Scan!TypeWhenMade(s, m)]
    BY DEF Scan!setExecutor
  <2>2. /\ Scan!TypeWhenMade(s, m) \in {m.typeStr, s}
        /\ Scan!TypeWhenMade(s, m) = m.typeStr \/ s \in evidence'
    BY DEF Scan!TypeWhenMade
  <2>3. s \in evidence' => s \in Scan!Types
    BY DEF Fits, Scan!Types
  <2> QED
    BY <2>1, <2>2, <2>3 DEF Fits, Confirmed, MinerRecords
<1>6. RunsForShown' /\ NamesUntouched'
  BY <1>1, <1>2, BeginStays DEF RunsForShown, NamesUntouched
<1> QED
  BY <1>1, <1>3, <1>4, <1>5, <1>6 DEF SInv

\* A step within a script.
LEMMA GoSInv ==
  ASSUME SInv, at # "end", NEW k \in Scan!Follow[script][at], Scan!Go(k),
         Fits(miner', evidence'), evidence \subseteq evidence', tries' \in 0 .. limit,
         programs' \in 2 .. 3, working' \in 0 .. programs',
         \/ working' = working /\ at \notin {"parseMinerPool", "parsePowerMode"}
         \/ k \in {"parseMinerPool", "parsePowerMode", "end"} /\ script = "WhatsMinerHttpsLuci"
  PROVE  SInv'
<1>1. script \in Scan!Scripts /\ at \in DOMAIN Scan!Follow[script]
  BY DEF SInv
<1>2. script' = script /\ at' = k /\ k \in DOMAIN Scan!Follow[script] \cup {"end"}
  BY <1>1, FollowStays DEF Scan!Go
<1>3. Scan!AddressIsScripts'
  BY <1>1, <1>2, FollowStays DEF SInv, Scan!AddressIsScripts, Scan!Go
<1>4. address' \in {"tcp", "tls"} \X {80, 443, 4028, 6060}
  BY DEF SInv, Scan!Go
<1>5. RunsForShown' /\ NamesUntouched'
  BY <1>2 DEF SInv, RunsForShown, NamesUntouched
<1> QED
  BY <1>1, <1>2, <1>3, <1>4, <1>5 DEF SInv

\* What the miner may become, step by step.
LEMMA FitsStays ==
  ASSUME SInv
  PROVE  /\ Fits(miner, evidence) /\ miner \in MinerRecords
         /\ \A t \in Scan!Types :
              Fits([miner EXCEPT !.httpDetect = t],
                   evidence \cup ({t} \ {"unknown", "WhatsMinerHttpsLuci"}))
BY DEF SInv, Fits, Confirmed, MinerRecords, Scan!Types

LEMMA FindMoreSInv ==
  ASSUME SInv, script = "GenericCgminerApi", Scan!FindMore(miner), UNCHANGED evidence, tries' = 0
  PROVE  SInv'
<1>0. Fits(miner, evidence) /\ 0 \in 0 .. limit
  BY LimitAssumption DEF SInv
<1>1. CASE miner.httpDetect \in Scan!Web
  <2>1. Scan!setExecutor(miner.httpDetect, miner)
    BY <1>1 DEF Scan!FindMore
  <2>2. miner.httpDetect \in Scan!Scripts
    BY <1>1, ScriptNames DEF Scan!Web
  <2>3. miner.httpDetect \in evidence' \cup {"GenericCgminerApi", "WhatsMinerHttpsLuci"}
    BY <1>0, <1>1 DEF Fits, Scan!Web
  <2> QED
    BY <1>0, <2>1, <2>2, <2>3, SetExecutorSInv
<1>2. CASE miner.httpDetect \notin Scan!Web
  BY <1>0, <1>2 DEF SInv, Scan!FindMore, Scan!AddressIsScripts, RunsForShown, NamesUntouched
<1> QED
  BY <1>1, <1>2

LEMMA DetectSInv == ASSUME SInv, Scan!detect PROVE SInv'
<1>0. script = "HttpAutoDetect" /\ at = "detect" /\ tries' \in 0 .. limit
  BY LimitAssumption DEF Scan!detect, Scan!Response
<1>1. CASE \E t \in Scan!Types :
             /\ evidence' = evidence \cup ({t} \ {"unknown", "WhatsMinerHttpsLuci"})
             /\ Scan!setExecutor(IF t \in {"BosHttpLuci", "AnthillOS"} THEN t ELSE "GenericCgminerApi",
                                 [miner EXCEPT !.httpDetect = t])
  <2> PICK t \in Scan!Types :
             /\ evidence' = evidence \cup ({t} \ {"unknown", "WhatsMinerHttpsLuci"})
             /\ Scan!setExecutor(IF t \in {"BosHttpLuci", "AnthillOS"} THEN t ELSE "GenericCgminerApi",
                                 [miner EXCEPT !.httpDetect = t])
    BY <1>1
  <2> DEFINE s == IF t \in {"BosHttpLuci", "AnthillOS"} THEN t ELSE "GenericCgminerApi"
  <2>1. s \in Scan!Scripts /\ s \in evidence' \cup {"GenericCgminerApi", "WhatsMinerHttpsLuci"}
    BY ScriptNames
  <2>2. Fits([miner EXCEPT !.httpDetect = t], evidence')
    BY FitsStays
  <2> HIDE DEF s
  <2>3. Scan!setExecutor(s, [miner EXCEPT !.httpDetect = t])
    BY DEF s
  <2> QED
    BY <1>0, <2>1, <2>2, <2>3, SetExecutorSInv
<1>2. CASE Scan!Go("end") /\ UNCHANGED <<miner, programs, working, evidence>>
  <2>1. "end" \in Scan!Follow[script][at]
    BY <1>0 DEF Scan!Follow
  <2> QED
    BY <1>0, <1>2, <2>1, GoSInv DEF SInv
<1> QED
  BY <1>1, <1>2 DEF Scan!detect

\* The steps of GenericCgminerApi.
LEMMA GenericSInv ==
  ASSUME SInv,
         \/ Scan!parseStats \/ Scan!parsePools \/ Scan!parseMinerType
         \/ Scan!parseSummary \/ Scan!parseTemperature
  PROVE  SInv'
<1> DEFINE Moves(k) == script = "GenericCgminerApi" /\ at = k /\ tries' = 0
           Stays == Fits(miner', evidence') /\ evidence \subseteq evidence'
                      /\ UNCHANGED <<programs, working>>
<1>1. ASSUME script = "GenericCgminerApi", tries' = 0, NEW j \in Scan!Follow.GenericCgminerApi[at],
             at # "end", at \notin {"parseMinerPool", "parsePowerMode"}, Scan!Go(j), Stays
      PROVE  SInv'
  <2>1. j \in Scan!Follow[script][at] /\ tries' \in 0 .. limit
    BY <1>1, LimitAssumption DEF Scan!Follow
  <2>2. programs' \in 2 .. 3 /\ working' \in 0 .. programs' /\ working' = working
    BY <1>1 DEF SInv
  <2> QED
    BY <1>1, <2>1, <2>2, GoSInv
<1>2. Fits(miner, evidence) /\ miner \in MinerRecords
  BY FitsStays
<1>3. CASE Scan!parseStats
  <2>0. Moves("parseStats")
    BY <1>3 DEF Scan!parseStats, Scan!Response
  <2>1. CASE Scan!FindMore(miner) /\ UNCHANGED evidence
    BY <2>0, <2>1, FindMoreSInv
  <2>2. ASSUME NEW t \in Scan!Reported \cup {"unknown"}, NEW found \in BOOLEAN, NEW rate \in BOOLEAN,
               Scan!Go("parsePools"), UNCHANGED <<programs, working>>,
               miner' = [miner EXCEPT !.typeStr = t, !.typeFound = found, !.hashrate = rate],
               evidence' = evidence \cup ({t} \ {"unknown"})
        PROVE  SInv'
    <3>1. Fits(miner', evidence') /\ evidence \subseteq evidence'
      BY <1>2, <2>2 DEF Fits, Confirmed, MinerRecords, Scan!Reported, Scan!Types, Scan!Web
    <3>2. "parsePools" \in Scan!Follow.GenericCgminerApi[at]
      BY <2>0 DEF Scan!Follow, Scan!GenericSteps
    <3> QED
      BY <1>1, <2>0, <2>2, <3>1, <3>2
  <2>3. CASE Scan!Go("end") /\ UNCHANGED <<miner, programs, working, evidence>>
    <3>1. "end" \in Scan!Follow.GenericCgminerApi[at]
      BY <2>0 DEF Scan!Follow, Scan!GenericSteps
    <3> QED
      BY <1>1, <1>2, <2>0, <2>3, <3>1
  <2> QED
    BY <1>3, <2>1, <2>2, <2>3 DEF Scan!parseStats
<1>4. CASE Scan!parsePools
  <2>0. Moves("parsePools") /\ evidence' = evidence
    BY <1>4 DEF Scan!parsePools, Scan!Response
  <2>1. CASE Scan!FindMore(miner)
    BY <2>0, <2>1, FindMoreSInv
  <2>2. ASSUME NEW k \in {"parseMinerType", "end"}, Scan!Go(k), UNCHANGED <<miner, programs, working>>
        PROVE  SInv'
    <3>1. k \in Scan!Follow.GenericCgminerApi[at]
      BY <2>0 DEF Scan!Follow, Scan!GenericSteps
    <3> QED
      BY <1>1, <1>2, <2>0, <2>2, <3>1
  <2> QED
    BY <1>4, <2>1, <2>2 DEF Scan!parsePools
<1>5. CASE Scan!parseMinerType
  <2>0. Moves("parseMinerType")
    BY <1>5 DEF Scan!parseMinerType, Scan!Response
  <2>1. PICK k \in Scan!Follow.GenericCgminerApi.parseMinerType : Scan!Go(k)
    BY <1>5 DEF Scan!parseMinerType
  <2>2. k \in Scan!Follow.GenericCgminerApi[at]
    BY <2>0 DEF Scan!Follow, Scan!GenericSteps
  <2>3. \/ UNCHANGED <<miner, evidence>>
        \/ miner' = [miner EXCEPT !.typeFound = TRUE] /\ UNCHANGED evidence
        \/ /\ miner' = [miner EXCEPT !.typeFound = TRUE, !.typeStr = "AvalonDeviceCgi"]
           /\ evidence' = evidence \cup {"AvalonDeviceCgi"}
    BY <1>5 DEF Scan!parseMinerType
  <2>4. Fits(miner', evidence') /\ evidence \subseteq evidence'
    BY <1>2, <2>3 DEF Fits, Confirmed, MinerRecords, Scan!Types, Scan!Web
  <2>5. UNCHANGED <<programs, working>>
    BY <1>5 DEF Scan!parseMinerType
  <2> QED
    BY <1>1, <2>0, <2>1, <2>2, <2>4, <2>5
<1>6. CASE Scan!parseSummary
  <2>0. Moves("parseSummary") /\ evidence' = evidence /\ UNCHANGED <<programs, working>>
    BY <1>6 DEF Scan!parseSummary, Scan!Response
  <2>1. PICK k \in Scan!Follow.GenericCgminerApi.parseSummary : Scan!Go(k)
    BY <1>6 DEF Scan!parseSummary
  <2>2. k \in Scan!Follow.GenericCgminerApi[at]
    BY <2>0 DEF Scan!Follow, Scan!GenericSteps
  <2>3. Fits(miner', evidence')
    BY <1>2, <1>6, <2>0 DEF Scan!parseSummary, Fits, Confirmed, MinerRecords
  <2> QED
    BY <1>1, <2>0, <2>1, <2>2, <2>3
<1>7. CASE Scan!parseTemperature
  <2>0. Moves("parseTemperature") /\ evidence' = evidence
    BY <1>7 DEF Scan!parseTemperature, Scan!Response
  <2>1. CASE Scan!FindMore(miner)
    BY <2>0, <2>1, FindMoreSInv
  <2>2. CASE Scan!Go("end") /\ UNCHANGED <<miner, programs, working>>
    <3>1. "end" \in Scan!Follow.GenericCgminerApi[at]
      BY <2>0 DEF Scan!Follow, Scan!GenericSteps
    <3> QED
      BY <1>1, <1>2, <2>0, <2>2, <3>1
  <2> QED
    BY <1>7, <2>1, <2>2 DEF Scan!parseTemperature
<1> QED
  BY <1>3, <1>4, <1>5, <1>6, <1>7

LEMMA MinerConfSInv == ASSUME SInv, Scan!parseMinerConf PROVE SInv'
<1>1. script = "AntminerHttpCgi" /\ at = "parseMinerConf" /\ tries' \in 0 .. limit
  BY LimitAssumption DEF Scan!parseMinerConf, Scan!Response
<1>2. PICK k \in Scan!Follow.AntminerHttpCgi.parseMinerConf : Scan!Go(k)
  BY DEF Scan!parseMinerConf
<1>3. k \in Scan!Follow[script][at]
  BY <1>1, <1>2 DEF Scan!Follow
<1>4. PICK t \in {miner.typeStr, "AntminerHttpCgi"} : miner' = [miner EXCEPT !.typeStr = t]
  BY DEF Scan!parseMinerConf
<1>5. evidence' = evidence /\ UNCHANGED <<programs, working>>
  BY DEF Scan!parseMinerConf
<1>6. "AntminerHttpCgi" \in evidence
  BY <1>1 DEF SInv, RunsForShown
<1>7. Fits(miner', evidence')
  BY <1>4, <1>5, <1>6, FitsStays DEF Fits, Confirmed, MinerRecords, Scan!Types, Scan!Web
<1> QED
  BY <1>1, <1>2, <1>3, <1>5, <1>7, GoSInv DEF SInv

\* A password that WhatsMiner refuses leaves the miner of unknown type, unless the
\* mining program had found one.
LEMMA WhatsMinerSessionSInv == ASSUME SInv, Scan!parseWhatsMinerSession PROVE SInv'
<1>1. /\ script = "WhatsMinerHttpsLuci" /\ at = "parseSession" /\ tries' \in 0 .. limit
      /\ UNCHANGED <<programs, working>>
  BY LimitAssumption DEF Scan!parseWhatsMinerSession, Scan!Response
<1>2. PICK k \in {"parseMinerStat", "parseNoPswdSession", "end"} : Scan!Go(k)
  BY DEF Scan!parseWhatsMinerSession
<1>3. k \in Scan!Follow[script][at]
  BY <1>1 DEF Scan!Follow, Scan!WhatsMinerSteps
<1>4. \/ /\ miner' = [miner EXCEPT !.typeStr = "WhatsMinerHttpsLuci"]
         /\ evidence' = evidence \cup {"WhatsMinerHttpsLuci"}
      \/ /\ miner.typeFound /\ miner' = [miner EXCEPT !.typeStr = "WhatsMinerHttpsLuci"]
         /\ evidence' = evidence
      \/ /\ miner' = [miner EXCEPT !.httpDetect = "unknown", !.typeStr = "unknown"]
         /\ evidence' = evidence
  BY DEF Scan!parseWhatsMinerSession
<1>5. Fits(miner', evidence') /\ evidence \subseteq evidence'
  <2>1. "WhatsMinerHttpsLuci" \in Scan!Web /\ "WhatsMinerHttpsLuci" \in Scan!Types
    BY DEF Scan!Web, Scan!Types
  <2>2. /\ miner \in MinerRecords /\ evidence \subseteq Scan!Web
        /\ miner.httpDetect \in evidence \cup {"unknown", "WhatsMinerHttpsLuci"}
        /\ "unknown" \in Scan!Types
    BY FitsStays DEF Fits, Scan!Types
  <2>3. evidence \subseteq evidence' /\ evidence' \subseteq Scan!Web
    BY <1>4, <2>1, <2>2
  <2>4. miner' \in MinerRecords
    BY <1>4, <2>1, <2>2 DEF MinerRecords
  <2>5. Confirmed(miner', evidence')
    BY <1>4, <2>2 DEF Confirmed, MinerRecords
  <2>6. miner'.httpDetect \in evidence' \cup {"unknown", "WhatsMinerHttpsLuci"}
    BY <1>4, <2>2 DEF MinerRecords
  <2> QED
    BY <2>3, <2>4, <2>5, <2>6 DEF Fits
<1>6. programs' \in 2 .. 3 /\ working' \in 0 .. programs' /\ working' = working
  BY <1>1 DEF SInv
<1> QED
  BY <1>1, <1>2, <1>3, <1>5, <1>6, GoSInv

LEMMA WhatsMinerStatSInv == ASSUME SInv, Scan!parseWhatsMinerStat PROVE SInv'
<1>1. /\ script = "WhatsMinerHttpsLuci" /\ at = "parseMinerStat" /\ tries' \in 0 .. limit
      /\ Scan!Go("parseMinerNetwork") /\ programs' \in 2 .. 3
      /\ UNCHANGED <<miner, working, evidence>>
  BY LimitAssumption DEF Scan!parseWhatsMinerStat, Scan!Response
<1>2. "parseMinerNetwork" \in Scan!Follow[script][at]
  BY <1>1 DEF Scan!Follow, Scan!WhatsMinerSteps
<1>3. working' \in 0 .. programs'
  BY <1>1 DEF SInv, NamesUntouched
<1> QED
  BY <1>1, <1>2, <1>3, FitsStays, GoSInv

\* No page takes a name that is not there: each begins with all names, and
\* looks before it takes another.
LEMMA ProgramPagesSInv == ASSUME SInv, Scan!ProgramPages PROVE SInv'
<1>1. /\ script = "WhatsMinerHttpsLuci" /\ tries' \in 0 .. limit
      /\ UNCHANGED <<miner, programs, evidence>>
  BY LimitAssumption DEF Scan!ProgramPages
<1>2. PICK k \in {"parseMinerPool", "parsePowerMode", "end"} :
        /\ Scan!Go(k)
        /\ \/ at = "parseMinerNetwork" /\ k = "parseMinerPool" /\ working' = programs - 1
           \/ at \in {"parseMinerPool", "parsePowerMode"} /\ Scan!hasNext /\ k = at /\ Scan!getNext
           \/ at = "parseMinerPool" /\ k = "parsePowerMode" /\ working' = programs - 1
           \/ at = "parsePowerMode" /\ k = "end" /\ UNCHANGED working
  BY DEF Scan!ProgramPages, Scan!resetAndGetNext
<1>3. at # "end" /\ k \in Scan!Follow[script][at]
  BY <1>1, <1>2 DEF Scan!Follow, Scan!WhatsMinerSteps
<1>4. programs' \in 2 .. 3 /\ working' \in 0 .. programs'
  BY <1>1, <1>2 DEF SInv, Scan!getNext, Scan!hasNext
<1> QED
  BY <1>1, <1>2, <1>3, <1>4, FitsStays, GoSInv

LEMMA GoOnSInv == ASSUME SInv, Scan!GoOn PROVE SInv'
<1>1. /\ at # "end" /\ tries' \in 0 .. limit
      /\ UNCHANGED <<miner, programs, working, evidence>>
  BY LimitAssumption DEF Scan!GoOn
<1>2. PICK k \in Scan!Follow[script][at] : Scan!Go(k)
  BY DEF Scan!GoOn
<1>3. ~(script = "WhatsMinerHttpsLuci" /\ at \in {"parseMinerPool", "parsePowerMode"})
  BY DEF Scan!GoOn, Scan!Special
<1>4. at \notin {"parseMinerPool", "parsePowerMode"}
  <2>1. script \in Scan!Scripts /\ at \in DOMAIN Scan!Follow[script]
    BY <1>1 DEF SInv
  <2> QED
    BY <1>3, <2>1, ProgramPagesOfWhatsMiner
<1> QED
  BY <1>1, <1>2, <1>4, FitsStays, GoSInv DEF SInv

LEMMA ScanStepSInv == ASSUME SInv, [Scan!Next]_scan PROVE SInv'
<1>1. CASE Scan!Retry
  BY <1>1, LimitAssumption
  DEF SInv, Scan!Retry, Scan!AddressIsScripts, RunsForShown, NamesUntouched
<1>2. CASE Scan!Finished \/ UNCHANGED scan
  BY <1>2
  DEF SInv, Scan!Finished, Scan!vars, scan, Scan!AddressIsScripts, RunsForShown, NamesUntouched
<1> QED
  BY <1>1, <1>2, DetectSInv, GenericSInv, MinerConfSInv, WhatsMinerSessionSInv,
     WhatsMinerStatSInv, ProgramPagesSInv, GoOnSInv
  DEF Scan!Next, Scan!makeResult

\* Whichever scripts run one after the other, each sends its requests to its own port,
\* and the miner gets no type that the device did not show (setExecutor, and the
\* scan scripts' parse steps).
THEOREM ScanCorrect == MCSpec => []ScanInv
<1>1. MCInit => SInv
  <2> SUFFICES ASSUME Scan!Init PROVE SInv
    BY DEF MCInit
  <2>1. script \in Scan!Scripts /\ at \in DOMAIN Scan!Follow[script]
    BY ScriptNames DEF Scan!Init, Scan!Follow
  <2> QED
    BY <2>1, LimitAssumption
    DEF SInv, Scan!Init, Scan!AddressIsScripts, Fits, Confirmed, MinerRecords, Scan!Types,
        RunsForShown, NamesUntouched
<1>2. SInv /\ [MCNext]_<<vars, scan, program>> => SInv'
  BY ScanStepSInv DEF MCNext, scan
<1> QED
  BY <1>1, <1>2, SInvIsScanInv, PTL DEF MCSpec
=============================================================================

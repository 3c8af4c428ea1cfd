------------------------------ MODULE Upgrader ------------------------------
(***************************************************************************)
(* src/src/lua/scripts/upgrader: the firmware upgrade of several miners at  *)
(* once, each by the script of its type, over MinerConfigurator.            *)
(*                                                                          *)
(* The scripts share one thing, the option upgrader.sendFirmwareStepSize:   *)
(* the uploads that may still be started.  Each takes one before its upload *)
(* and should give it back after it.  Everything runs on one thread, and an *)
(* action is what the driver does between two responses of a context:       *)
(* makeResult with a parse step, and makeRequest with the make step it      *)
(* names.  A context's position is the parse step that waits for its        *)
(* response.                                                                *)
(*                                                                          *)
(* The driver enters as WorkPool (StepSize places, any order), the retry    *)
(* as Executor shows it: a refused session is resent up to limit times      *)
(* with nothing of the script run.                                          *)
(***************************************************************************)
EXTENDS Integers, FiniteSets

CONSTANTS
  Miners,
  typeOf,    \* the typeStr of each miner
  StepSize,  \* stepSize_ of the driver
  Slots,     \* upgrader.sendFirmwareStepSize as the application sets it
  limit,     \* network.autoRetryTimes
  PollLimit  \* 30 in the code

Types == {"AntminerHttpCgi", "AnthillOS", "BosHttpLuci", "unknown"}

ASSUME MinersAssumption == IsFiniteSet(Miners)
ASSUME TypeAssumption == typeOf \in [Miners -> Types]
ASSUME SlotsAssumption == Slots \in Nat
ASSUME StepSizeAssumption == StepSize \in Nat \ {0}
ASSUME LimitAssumption == limit \in Nat
ASSUME PollLimitAssumption == PollLimit \in Nat

VARIABLES
  at,       \* idle (not taken up), a parse step, or ended
  outcome,  \* the last status of an ended miner, by what it claims
  slots,    \* upgrader.sendFirmwareStepSize
  file,     \* request_.fileUpload_
  wait,     \* self.wait of the Antminer script
  polls,    \* check-reboot-finish-times
  enable,   \* autoRetry.enable
  times,    \* autoRetry.times
  accepted  \* history: the miner took the image

script == <<file, wait, polls, enable, accepted>>
vars == <<at, outcome, slots, script, times>>

Parsers ==
  {"auth", "parseSession", "parseNoPswdSession", "parseToken", "parseUploadFile",
   "parseRunUpgrade", "doUpgrade", "doReboot", "doWaitFinish"}

Outcomes == {"none", "upgraded", "may have succeeded", "upload failed", "failed"}

\* What the parse steps tell apart in a response: no HTTP, a 401, another
\* status or an unusable body, or what the step hopes for.  The stat is
\* independent of it: a session that timed out may have read a whole reply.
Replies == {"garbage", "login", "bad", "good"}
Stats == {"success", "timeout", "refused"}

Active == {m \in Miners : at[m] \in Parsers}

\* The miners whose firmware is on its way.
Uploading == {m \in Miners : at[m] \in {"doUpgrade", "parseUploadFile"}}

\* The uploads that failed on the miner's side and were not counted back.
Lost == {m \in Miners : outcome[m] = "upload failed"}

TypeOK ==
  /\ at \in [Miners -> Parsers \cup {"idle", "ended"}]
  /\ outcome \in [Miners -> Outcomes]
  /\ slots \in Int
  /\ file \in [Miners -> BOOLEAN] /\ wait \in [Miners -> BOOLEAN]
  /\ polls \in [Miners -> 0 .. PollLimit + 1]
  /\ enable \in [Miners -> BOOLEAN] /\ times \in [Miners -> 0 .. limit]
  /\ accepted \in [Miners -> BOOLEAN]

Init ==
  /\ at = [m \in Miners |-> "idle"]
  /\ outcome = [m \in Miners |-> "none"]
  /\ slots = Slots
  /\ file = [m \in Miners |-> FALSE] /\ wait = [m \in Miners |-> FALSE]
  /\ polls = [m \in Miners |-> 0]
  /\ enable = [m \in Miners |-> TRUE] /\ times = [m \in Miners |-> 0]
  /\ accepted = [m \in Miners |-> FALSE]

-----------------------------------------------------------------------------
\* setStep('end', ...), or an error the helper catches.
End(m, how) ==
  /\ at' = [at EXCEPT ![m] = "ended"]
  /\ outcome' = [outcome EXCEPT ![m] = how]
  /\ UNCHANGED script

\* On to the request whose response `step` will parse.
Go(m, step) ==
  /\ at' = [at EXCEPT ![m] = step]
  /\ UNCHANGED outcome

\* The make step of the upload: it attaches the file and takes a slot.
Upload(m, step) ==
  /\ Go(m, step)
  /\ file' = [file EXCEPT ![m] = TRUE]
  /\ slots' = slots - 1
  /\ UNCHANGED <<wait, polls, enable, accepted>>

\* The status request after the image was taken or the reboot asked for, and
\* no retries from there on; clear says whether it lets go of the file.
StartWaiting(m, clear) ==
  /\ Go(m, "doWaitFinish")
  /\ polls' = [polls EXCEPT ![m] = 0]
  /\ enable' = [enable EXCEPT ![m] = FALSE]
  /\ file' = [file EXCEPT ![m] = @ /\ ~clear]
  /\ UNCHANGED wait

\* The helper lets the parse step have the response: retries are off or used
\* up, or the session did not fail in a way that is retried.
Handle(m, stat, step) ==
  /\ at[m] = step
  /\ stat = "refused" => ~(enable[m] /\ times[m] < limit)
  /\ times' = [times EXCEPT ![m] = 0]

\* The same request again.
Retry(m) ==
  /\ at[m] \in Parsers /\ enable[m] /\ times[m] < limit
  /\ times' = [times EXCEPT ![m] = @ + 1]
  /\ UNCHANGED <<at, outcome, slots, script>>

\* The driver takes up a miner: newExecutor and the first make step, which
\* fails for an unknown type, or without a password in the two other scripts.
FirstStep(m) ==
  IF typeOf[m] = "AntminerHttpCgi" THEN "auth" ELSE "parseSession"

Admit(m) ==
  /\ at[m] = "idle"
  /\ Cardinality(Active) < StepSize
  /\ \/ typeOf[m] # "unknown" /\ Go(m, FirstStep(m)) /\ UNCHANGED script
     \/ typeOf[m] # "AntminerHttpCgi" /\ End(m, "failed")
  /\ UNCHANGED <<slots, times>>

-----------------------------------------------------------------------------
\* AntminerHttpCgi

\* waiting: the login request again, after five seconds.
waiting(m) ==
  /\ wait' = [wait EXCEPT ![m] = TRUE]
  /\ Go(m, "auth")
  /\ UNCHANGED <<slots, file, polls, enable, accepted>>

\* Mutant: the upload starts whatever the count is.
authUnlimited(m, stat) ==
  /\ Handle(m, stat, "auth")
  /\ \E reply \in Replies :
       \/ /\ reply = "garbage" \/ (reply # "login" /\ ~wait[m])
          /\ End(m, "failed") /\ UNCHANGED slots
       \/ /\ reply = "login" \/ (reply # "garbage" /\ wait[m])
          /\ \/ Upload(m, "doUpgrade")
             \/ End(m, "failed") /\ UNCHANGED slots

\* auth, then upgrade or waiting.  Both compute a digest, which may throw,
\* the upload before it has taken a slot.
auth(m, stat) ==
  /\ Handle(m, stat, "auth")
  /\ \E reply \in Replies :
       \/ /\ reply = "garbage" \/ (reply # "login" /\ ~wait[m])
          /\ End(m, "failed") /\ UNCHANGED slots
       \/ /\ reply = "login" \/ (reply # "garbage" /\ wait[m])
          /\ \/ slots <= 0 /\ waiting(m)
             \/ slots > 0 /\ Upload(m, "doUpgrade")
             \/ End(m, "failed") /\ UNCHANGED slots

\* Mutant: a refused image is followed by the reboot all the same.
doUpgradeAnyReply(m, stat) ==
  /\ typeOf[m] = "AntminerHttpCgi"
  /\ Handle(m, stat, "doUpgrade")
  /\ slots' = slots + 1
  /\ \E reply \in Replies :
       /\ Go(m, "doReboot")
       /\ file' = [file EXCEPT ![m] = FALSE]
       /\ accepted' = [accepted EXCEPT ![m] = reply = "good"]
       /\ UNCHANGED <<wait, polls, enable>>

\* doUpgrade, then reboot, which may throw.
doUpgrade(m, stat) ==
  /\ typeOf[m] = "AntminerHttpCgi"
  /\ Handle(m, stat, "doUpgrade")
  /\ slots' = slots + 1
  /\ \E reply \in Replies :
       \/ End(m, IF reply \in {"garbage", "login"} /\ stat # "success"
                 THEN "may have succeeded" ELSE "failed")
       \/ /\ reply = "good"
          /\ Go(m, "doReboot")
          /\ file' = [file EXCEPT ![m] = FALSE]
          /\ accepted' = [accepted EXCEPT ![m] = TRUE]
          /\ UNCHANGED <<wait, polls, enable>>

\* doReboot, then waitFinish: any response will do, a 401 included, since the
\* step it ends on is overwritten.
doReboot(m, stat) ==
  /\ Handle(m, stat, "doReboot")
  /\ \/ StartWaiting(m, FALSE) /\ UNCHANGED accepted
     \/ End(m, "failed")
  /\ UNCHANGED slots

-----------------------------------------------------------------------------
\* AnthillOS

\* parseSession, then uploadFile, which does not look at the slots.
AnthillSession(m, stat) ==
  /\ typeOf[m] = "AnthillOS"
  /\ Handle(m, stat, "parseSession")
  /\ \/ End(m, "failed") /\ UNCHANGED slots
     \/ Upload(m, "doUpgrade")

\* doUpgrade, then waitFinish: the slot is given back before the reply, which
\* may be missing, is looked at.
AnthillUpgrade(m, stat) ==
  /\ typeOf[m] = "AnthillOS"
  /\ Handle(m, stat, "doUpgrade")
  /\ slots' = slots + 1
  /\ \E reply \in Replies :
       \/ reply # "good" /\ End(m, "failed")
       \/ /\ reply = "good"
          /\ StartWaiting(m, TRUE)
          /\ accepted' = [accepted EXCEPT ![m] = TRUE]

-----------------------------------------------------------------------------
\* BosHttpLuci

\* parseSession, then getToken, or another try without the password.
BosSession(m, stat) ==
  /\ typeOf[m] = "BosHttpLuci"
  /\ Handle(m, stat, "parseSession")
  /\ \E step \in {"parseToken", "parseNoPswdSession"} : Go(m, step)
  /\ UNCHANGED <<slots, script>>

\* Mutant: a failed login starts over with the password.
parseNoPswdSessionAgain(m, stat) ==
  /\ Handle(m, stat, "parseNoPswdSession")
  /\ \E step \in {"parseSession", "parseToken"} : Go(m, step)
  /\ UNCHANGED <<slots, script>>

parseNoPswdSession(m, stat) ==
  /\ Handle(m, stat, "parseNoPswdSession")
  /\ \/ End(m, "failed")
     \/ Go(m, "parseToken") /\ UNCHANGED script
  /\ UNCHANGED slots

\* parseToken, then uploadFile, which does not look at the slots.
parseToken(m, stat) ==
  /\ Handle(m, stat, "parseToken")
  /\ \/ End(m, "failed") /\ UNCHANGED slots
     \/ Upload(m, "parseUploadFile")

\* parseUploadFile, then runUpgrade, where the slot is given back: an upload
\* that failed does not come that far.
parseUploadFile(m, stat) ==
  /\ Handle(m, stat, "parseUploadFile")
  /\ \E reply \in Replies :
       \/ /\ reply # "good"
          /\ End(m, "upload failed") /\ UNCHANGED slots
       \/ /\ reply = "good"
          /\ Go(m, "parseRunUpgrade")
          /\ slots' = slots + 1
          /\ file' = [file EXCEPT ![m] = FALSE]
          /\ UNCHANGED <<wait, polls, enable, accepted>>

\* parseRunUpgrade, then waitFinish.
parseRunUpgrade(m, stat) ==
  /\ Handle(m, stat, "parseRunUpgrade")
  /\ \E reply \in Replies :
       \/ reply # "good" /\ End(m, "failed")
       \/ /\ reply = "good"
          /\ StartWaiting(m, FALSE)
          /\ accepted' = [accepted EXCEPT ![m] = TRUE]
  /\ UNCHANGED slots

-----------------------------------------------------------------------------
\* doWaitFinish (runWaitFinish), the same in the three scripts but for the
\* wording, then waitFinish.  That of Antminer may throw.
doWaitFinish(m, stat) ==
  /\ Handle(m, stat, "doWaitFinish")
  /\ \/ stat = "success" /\ End(m, "upgraded")
     \/ stat # "success" /\ polls[m] > PollLimit /\ End(m, "may have succeeded")
     \/ /\ stat # "success" /\ polls[m] <= PollLimit
        /\ polls' = [polls EXCEPT ![m] = @ + 1]
        /\ Go(m, "doWaitFinish")
        /\ UNCHANGED <<file, wait, enable, accepted>>
     \/ /\ stat # "success" /\ polls[m] <= PollLimit
        /\ typeOf[m] = "AntminerHttpCgi" /\ End(m, "failed")
  /\ UNCHANGED slots

-----------------------------------------------------------------------------
Response(m) ==
  \E stat \in Stats :
    \/ auth(m, stat) \/ doUpgrade(m, stat) \/ doReboot(m, stat)
    \/ AnthillSession(m, stat) \/ AnthillUpgrade(m, stat)
    \/ BosSession(m, stat) \/ parseNoPswdSession(m, stat) \/ parseToken(m, stat)
    \/ parseUploadFile(m, stat) \/ parseRunUpgrade(m, stat)
    \/ doWaitFinish(m, stat)

Finished == (\A m \in Miners : at[m] = "ended") /\ UNCHANGED vars

Next ==
  \/ \E m \in Miners : Admit(m) \/ Retry(m) \/ Response(m)
  \/ Finished

Spec == Init /\ [][Next]_vars

\* The driver takes up miners while it has places (MinerScanner!NoIdlePlace),
\* and every session answers: none of these scripts uses TLS, whose shutdown is the
\* one wait of a session that may last for ever (Session!TimedSessionAnswers).
FairSpec ==
  /\ Spec
  /\ WF_vars(\E m \in Miners : Admit(m))
  /\ \A m \in Miners : WF_vars(Retry(m) \/ Response(m))

-----------------------------------------------------------------------------
\* The count and the uploads agree, whatever the types, with retries, failing
\* replies and errors in between: every upload has one slot, and only uploads
\* that a BosHttpLuci miner failed keep one.
SlotAccount == slots + Cardinality(Uploading) + Cardinality(Lost) = Slots

\* Never more uploads at once than the application allowed: so it is in a
\* batch of Antminer miners, the only ones that look at the count.
UploadBound == Cardinality(Uploading) <= Slots

\* The slots that are neither in use nor lost.
Room == Cardinality(Uploading) + Cardinality(Lost) < Slots

\* The gate of the Antminer script in a batch of any types, whatever the others
\* take and lose: it starts an upload only into a free slot, and is made to
\* wait only while there is none, although the count is read in one step and
\* changed in another (auth and upgrade).
AntminerGate ==
  [][\A m \in Miners :
       /\ typeOf[m] = "AntminerHttpCgi" /\ m \notin Uploading /\ m \in Uploading' => Room
       /\ ~wait[m] /\ wait'[m] => ~Room]_vars

\* AntminerHttpCgi.lua, line 54: a miner is made to wait when "The number of
\* concurrent uploads exceeds the limit, waiting".
WaitsOnlyWhenFull ==
  [][\A m \in Miners : ~wait[m] /\ wait'[m] => Cardinality(Uploading) >= Slots]_vars

\* The firmware goes out with the upload request and with no other: each
\* script lets go of the file before its next request, on every way there.
FileWithUploadOnly ==
  \A m \in Active : file[m] <=> m \in Uploading

\* A miner reported as upgraded had taken the image.
UpgradedIsTrue ==
  \A m \in Miners : outcome[m] = "upgraded" => accepted[m]

\* What a miner's position says of the rest of its state.
PlaceInv ==
  \A m \in Miners :
    /\ outcome[m] = "none" \/ at[m] = "ended"
    /\ at[m] = "idle" => ~file[m]
    /\ at[m] \in {"doReboot", "doWaitFinish"} => accepted[m]

\* The account of the slots, the file, the outcome and the image, for miners of
\* all types at any point of their scripts.
UInv == TypeOK /\ SlotAccount /\ FileWithUploadOnly /\ UpgradedIsTrue /\ PlaceInv

\* Every miner is brought to an end, those made to wait for a slot included; only
\* an Antminer may wait for ever, and only when a slot was lost.
UpgradesEnd ==
  <>(\A m \in Miners :
       at[m] = "ended" \/ (typeOf[m] = "AntminerHttpCgi" /\ Lost # {}))
=============================================================================

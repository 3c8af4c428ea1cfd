--------------------------- MODULE UpgraderProofs ---------------------------
(***************************************************************************)
(* Theorems about Upgrader for every set of miners of any types, every      *)
(* number of slots and places, and every retry and poll limit.              *)
(***************************************************************************)
EXTENDS Upgrader, FiniteSetTheorems, TLAPS

UploadSteps == {"doUpgrade", "parseUploadFile"}

\* The slots that miner m's move gives back, takes, or loses.
Back(m) == IF m \in Uploading THEN 1 ELSE 0
Taken(s) == IF s \in UploadSteps THEN 1 ELSE 0
Gone(h) == IF h = "upload failed" THEN 1 ELSE 0

\* Miner m moves to position s with outcome h: what every response has in
\* common, whatever the script.
Moved(m, s, h) ==
  /\ at[m] \in Parsers \cup {"idle"}
  /\ s \in Parsers \cup {"ended"} /\ h \in Outcomes
  /\ s = "ended" \/ h = "none"
  /\ at' = [at EXCEPT ![m] = s]
  /\ outcome' = [outcome EXCEPT ![m] = h]
  /\ slots' = slots + Back(m) - Taken(s) - Gone(h)
  /\ \A x \in Miners \ {m} : file'[x] = file[x] /\ accepted'[x] = accepted[x]
  /\ s # "ended" => (file'[m] <=> s \in UploadSteps)
  /\ s \in {"doReboot", "doWaitFinish"} => accepted'[m]
  /\ h = "upgraded" => accepted'[m]

USE MinersAssumption, TypeAssumption, SlotsAssumption, LimitAssumption, PollLimitAssumption

-----------------------------------------------------------------------------
LEMMA Units ==
  ASSUME NEW m, NEW s, NEW h
  PROVE  Back(m) \in Int /\ Taken(s) \in Int /\ Gone(h) \in Int
BY DEF Back, Taken, Gone

LEMMA Balance ==
  ASSUME NEW a \in Int, NEW b \in Int, NEW c \in Int,
         NEW s1 \in Int, NEW u1 \in Int, NEW l1 \in Int, NEW s2, NEW u2, NEW l2,
         s1 + u1 + l1 = Slots,
         s2 = s1 + a - b - c, u2 = u1 - a + b, l2 = l1 + c
  PROVE  s2 + u2 + l2 = Slots
OBVIOUS

LEMMA MinerSets ==
  ASSUME NEW S \in SUBSET Miners
  PROVE  /\ Cardinality(S) \in Nat
         /\ \A m \in Miners \ S : Cardinality(S \cup {m}) = Cardinality(S) + 1
         /\ \A m \in S : Cardinality(S \ {m}) = Cardinality(S) - 1
<1>1. IsFiniteSet(S)
  BY FS_Subset
<1> QED
  BY <1>1, FS_CardinalityType, FS_AddElement, FS_RemoveElement

\* The account is kept by a move.
LEMMA MovedAccount ==
  ASSUME UInv, NEW m \in Miners, NEW s, NEW h, Moved(m, s, h)
  PROVE  SlotAccount'
<1>1. m \notin Lost
  BY DEF Moved, UInv, PlaceInv, Lost, Parsers
<1>2. /\ Uploading \in SUBSET Miners /\ Lost \in SUBSET Miners
      /\ Cardinality(Uploading) \in Nat /\ Cardinality(Lost) \in Nat /\ slots \in Int
  BY MinerSets DEF Uploading, Lost, UInv, TypeOK
<1>3. /\ \A x \in Miners : at'[x] = IF x = m THEN s ELSE at[x]
      /\ \A x \in Miners : outcome'[x] = IF x = m THEN h ELSE outcome[x]
  BY DEF Moved, UInv, TypeOK
<1>4. Uploading' = IF s \in UploadSteps THEN Uploading \cup {m} ELSE Uploading \ {m}
  BY <1>3 DEF Uploading, UploadSteps
<1>5. Lost' = IF h = "upload failed" THEN Lost \cup {m} ELSE Lost
  BY <1>1, <1>3 DEF Lost
<1>6. Cardinality(Uploading')
        = Cardinality(Uploading) - Back(m) + Taken(s)
  <2>1. CASE m \in Uploading /\ s \in UploadSteps
    <3>1. Uploading' = Uploading
      BY <1>4, <2>1
    <3> QED
      BY <1>2, <2>1, <3>1 DEF Back, Taken, Gone
  <2>2. CASE m \in Uploading /\ s \notin UploadSteps
    BY <1>2, <1>4, <2>2, MinerSets DEF Back, Taken, Gone
  <2>3. CASE m \notin Uploading /\ s \in UploadSteps
    BY <1>2, <1>4, <2>3, MinerSets DEF Back, Taken, Gone
  <2>4. CASE m \notin Uploading /\ s \notin UploadSteps
    <3>1. Uploading' = Uploading
      BY <1>4, <2>4
    <3> QED
      BY <1>2, <2>4, <3>1 DEF Back, Taken, Gone
  <2> QED
    BY <2>1, <2>2, <2>3, <2>4
<1>7. Cardinality(Lost') = Cardinality(Lost) + Gone(h)
  <2>1. CASE h = "upload failed"
    <3>1. Lost' = Lost \cup {m}
      BY <1>5, <2>1
    <3>2. m \in Miners \ Lost
      BY <1>1
    <3> QED
      BY <1>2, <2>1, <3>1, <3>2, MinerSets DEF Back, Taken, Gone
  <2>2. CASE h # "upload failed"
    <3>1. Lost' = Lost
      BY <1>5, <2>2
    <3>2. Gone(h) = 0
      BY <2>2 DEF Back, Taken, Gone
    <3> QED
      BY <1>2, <3>1, <3>2
  <2> QED
    BY <2>1, <2>2
<1>8. Back(m) \in Int /\ Taken(s) \in Int /\ Gone(h) \in Int
  BY Units
<1>9. slots' = slots + Back(m) - Taken(s) - Gone(h)
  BY DEF Moved
<1>10. slots + Cardinality(Uploading) + Cardinality(Lost) = Slots
  BY DEF UInv, SlotAccount
<1>11. slots' + Cardinality(Uploading') + Cardinality(Lost') = Slots
  BY <1>2, <1>6, <1>7, <1>8, <1>9, <1>10, Balance
<1> QED
  BY <1>11 DEF SlotAccount

\* A move keeps the whole invariant, types aside.
LEMMA MovedUInv ==
  ASSUME UInv, TypeOK', NEW m \in Miners, NEW s, NEW h, Moved(m, s, h)
  PROVE  UInv'
<1>1. /\ \A x \in Miners : at'[x] = IF x = m THEN s ELSE at[x]
      /\ \A x \in Miners : outcome'[x] = IF x = m THEN h ELSE outcome[x]
  BY DEF Moved, UInv, TypeOK
<1>2. FileWithUploadOnly'
  <2> SUFFICES ASSUME NEW x \in Miners, at'[x] \in Parsers
               PROVE  file'[x] <=> at'[x] \in UploadSteps
    BY DEF FileWithUploadOnly, Active, Uploading, UploadSteps
  <2>1. CASE x = m
    <3>1. at'[x] = s /\ s # "ended"
      BY <1>1, <2>1 DEF Parsers
    <3> QED
      BY <2>1, <3>1 DEF Moved
  <2>2. CASE x # m
    <3>1. file'[x] = file[x] /\ at'[x] = at[x]
      BY <1>1, <2>2 DEF Moved
    <3> QED
      BY <3>1 DEF UInv, FileWithUploadOnly, Active, Uploading, UploadSteps
  <2> QED
    BY <2>1, <2>2
<1>3. UpgradedIsTrue' /\ PlaceInv'
  <2> SUFFICES ASSUME NEW x \in Miners
               PROVE  /\ outcome'[x] = "upgraded" => accepted'[x]
                      /\ outcome'[x] = "none" \/ at'[x] = "ended"
                      /\ at'[x] = "idle" => ~file'[x]
                      /\ at'[x] \in {"doReboot", "doWaitFinish"} => accepted'[x]
    BY DEF UpgradedIsTrue, PlaceInv
  <2>1. CASE x = m
    BY <1>1, <2>1 DEF Moved, Parsers
  <2>2. CASE x # m
    <3>1. /\ file'[x] = file[x] /\ at'[x] = at[x]
          /\ accepted'[x] = accepted[x] /\ outcome'[x] = outcome[x]
      BY <1>1, <2>2 DEF Moved
    <3> QED
      BY <3>1 DEF UInv, UpgradedIsTrue, PlaceInv
  <2> QED
    BY <2>1, <2>2
<1> QED
  BY <1>2, <1>3, MovedAccount DEF UInv

\* The types of what only some scripts change.
RestType ==
  /\ wait \in [Miners -> BOOLEAN] /\ polls \in [Miners -> 0 .. PollLimit + 1]
  /\ enable \in [Miners -> BOOLEAN] /\ times \in [Miners -> 0 .. limit]

\* A miner that ends gives back what it had, unless that is lost.
LEMMA EndingSlots ==
  ASSUME slots \in Int, NEW m, NEW how,
         slots' = slots + Back(m) - Gone(how)
  PROVE  slots' \in Int /\ slots' = slots + Back(m) - Taken("ended") - Gone(how)
<1>1. Back(m) \in Int /\ Gone(how) \in Int
  BY Units
<1>2. Taken("ended") = 0
  BY DEF Taken, UploadSteps
<1> QED
  BY <1>1, <1>2

\* The counters of a miner that starts to wait.
LEMMA WaitingTypes ==
  ASSUME TypeOK, NEW m \in Miners, NEW clear \in BOOLEAN, StartWaiting(m, clear),
         times' \in [Miners -> 0 .. limit]
  PROVE  RestType'
<1>1. wait' \in [Miners -> BOOLEAN] /\ enable' \in [Miners -> BOOLEAN]
  BY DEF TypeOK, StartWaiting
<1>2. polls' \in [Miners -> 0 .. PollLimit + 1]
  BY DEF TypeOK, StartWaiting
<1> QED
  BY <1>1, <1>2 DEF RestType

\* A script ends a miner.
LEMMA Ending ==
  ASSUME UInv, NEW m \in Miners, NEW how \in Outcomes,
         at[m] \in Parsers \cup {"idle"}, End(m, how),
         slots' = slots + Back(m) - Gone(how),
         how # "upgraded" \/ accepted[m] = TRUE,
         times' \in [Miners -> 0 .. limit]
  PROVE  UInv'
<1>1. TypeOK'
  <2>1. /\ at' \in [Miners -> Parsers \cup {"idle", "ended"}]
        /\ outcome' \in [Miners -> Outcomes]
    BY DEF End, UInv, TypeOK
  <2>2. slots' \in Int
    BY EndingSlots DEF UInv, TypeOK
  <2>3. /\ file' = file /\ wait' = wait /\ polls' = polls
        /\ enable' = enable /\ accepted' = accepted
    BY DEF End, script
  <2> QED
    BY <2>1, <2>2, <2>3 DEF UInv, TypeOK
<1>2. Moved(m, "ended", how)
  <2>1. Taken("ended") = 0 /\ "ended" \notin UploadSteps
    BY DEF Taken, UploadSteps
  <2>2. slots' = slots + Back(m) - Taken("ended") - Gone(how)
    BY EndingSlots DEF UInv, TypeOK
  <2>3. file' = file /\ accepted' = accepted
    BY DEF End, script
  <2> QED
    BY <2>1, <2>2, <2>3 DEF Moved, End
<1> QED
  BY <1>1, <1>2, MovedUInv

\* A script goes on to its next request.
LEMMA GoingOn ==
  ASSUME UInv, NEW m \in Miners, NEW s \in Parsers,
         at[m] \in Parsers \cup {"idle"}, Go(m, s),
         slots' = slots + Back(m) - Taken(s),
         file' \in [Miners -> BOOLEAN], accepted' \in [Miners -> BOOLEAN], RestType',
         \A x \in Miners \ {m} : file'[x] = file[x] /\ accepted'[x] = accepted[x],
         file'[m] <=> s \in UploadSteps,
         s \in {"doReboot", "doWaitFinish"} => accepted'[m]
  PROVE  UInv'
<1>1. outcome[m] = "none"
  BY DEF UInv, PlaceInv, Parsers
<1>2. outcome' = [outcome EXCEPT ![m] = "none"]
  BY <1>1 DEF Go, UInv, TypeOK
<1>3. TypeOK'
  <2>1. /\ at' \in [Miners -> Parsers \cup {"idle", "ended"}]
        /\ outcome' \in [Miners -> Outcomes]
    BY DEF Go, UInv, TypeOK
  <2>2. slots' \in Int
    BY DEF UInv, TypeOK, Back, Taken
  <2> QED
    BY <2>1, <2>2 DEF TypeOK, RestType
<1>4. Moved(m, s, "none")
  <2>1. "none" \in Outcomes /\ Gone("none") = 0
    BY DEF Outcomes, Gone
  <2>2. slots' = slots + Back(m) - Taken(s) - Gone("none")
    BY <2>1 DEF UInv, TypeOK, Back, Taken
  <2> QED
    BY <1>2, <2>1, <2>2 DEF Moved, Go
<1> QED
  BY <1>3, <1>4, MovedUInv

\* Taking the slot and the file.
LEMMA Uploads ==
  ASSUME UInv, NEW m \in Miners, NEW s \in UploadSteps,
         at[m] \in Parsers, m \notin Uploading, Upload(m, s),
         times' \in [Miners -> 0 .. limit]
  PROVE  UInv'
<1>1. s \in Parsers /\ s \notin {"doReboot", "doWaitFinish"}
  BY DEF UploadSteps, Parsers
<1>2. slots' = slots + Back(m) - Taken(s)
  BY DEF Upload, UInv, TypeOK, Back, Taken
<1>3. /\ file' \in [Miners -> BOOLEAN] /\ file'[m] = TRUE
      /\ \A x \in Miners \ {m} : file'[x] = file[x]
  BY DEF Upload, UInv, TypeOK
<1>4. RestType' /\ accepted' = accepted
  BY DEF Upload, UInv, TypeOK, RestType
<1>5. accepted \in [Miners -> BOOLEAN] /\ Go(m, s)
  BY DEF Upload, UInv, TypeOK
<1> QED
  BY <1>1, <1>2, <1>3, <1>4, <1>5, GoingOn

\* Waiting for the miner to come back.
LEMMA WaitsForReboot ==
  ASSUME UInv, NEW m \in Miners, NEW clear \in BOOLEAN,
         at[m] \in Parsers, StartWaiting(m, clear),
         clear \/ m \notin Uploading,
         slots' = slots + Back(m),
         accepted' \in [Miners -> BOOLEAN], accepted'[m],
         \A x \in Miners \ {m} : accepted'[x] = accepted[x],
         times' \in [Miners -> 0 .. limit]
  PROVE  UInv'
<1>1. "doWaitFinish" \in Parsers /\ "doWaitFinish" \notin UploadSteps
  BY DEF UploadSteps, Parsers
<1>2. slots' = slots + Back(m) - Taken("doWaitFinish")
  BY <1>1 DEF UInv, TypeOK, Back, Taken
<1>3. file[m] <=> m \in Uploading
  BY DEF UInv, FileWithUploadOnly, Active
<1>4. /\ file' \in [Miners -> BOOLEAN]
      /\ \A x \in Miners \ {m} : file'[x] = file[x]
  BY DEF StartWaiting, UInv, TypeOK
<1>5. file'[m] <=> file[m] /\ ~clear
  <2>1. file \in [Miners -> BOOLEAN]
    BY DEF UInv, TypeOK
  <2>2. file' = [file EXCEPT ![m] = file[m] /\ ~clear]
    BY DEF StartWaiting
  <2> QED
    BY <2>1, <2>2
<1>6. RestType'
  BY WaitingTypes DEF UInv
<1>7. Go(m, "doWaitFinish")
  BY DEF StartWaiting
<1>8. file'[m] <=> "doWaitFinish" \in UploadSteps
  BY <1>1, <1>3, <1>5
<1> QED
  BY <1>1, <1>2, <1>4, <1>6, <1>7, <1>8, GoingOn

-----------------------------------------------------------------------------
LEMMA Handled ==
  ASSUME TypeOK, NEW m \in Miners, NEW stat, NEW step, Handle(m, stat, step)
  PROVE  at[m] = step /\ times' \in [Miners -> 0 .. limit]
BY DEF TypeOK, Handle

LEMMA BackOf ==
  ASSUME NEW m \in Miners
  PROVE  /\ at[m] \in UploadSteps => m \in Uploading /\ Back(m) = 1
         /\ at[m] \notin UploadSteps => m \notin Uploading /\ Back(m) = 0
BY DEF Uploading, UploadSteps, Back

LEMMA GoneOf ==
  ASSUME NEW how
  PROVE  /\ how # "upload failed" => Gone(how) = 0
         /\ how = "upload failed" => Gone(how) = 1
BY DEF Gone

LEMMA SlotsKept ==
  ASSUME slots \in Int, NEW b, NEW g,
         b = 0, g = 0, slots' = slots
  PROVE  slots' = slots + b - g
OBVIOUS

LEMMA SlotsSame ==
  ASSUME slots \in Int, NEW b, b = 0, slots' = slots
  PROVE  slots' = slots + b
OBVIOUS

LEMMA SlotReturned ==
  ASSUME slots \in Int, NEW b, b = 1, slots' = slots + 1
  PROVE  slots' = slots + b
OBVIOUS

LEMMA SlotsLost ==
  ASSUME slots \in Int, NEW b, NEW g, b = 1, g = 1, slots' = slots
  PROVE  slots' = slots + b - g
OBVIOUS

LEMMA SlotsBack ==
  ASSUME slots \in Int, NEW b, NEW g, b = 1, g = 0, slots' = slots + 1
  PROVE  slots' = slots + b - g
OBVIOUS

\* Ending outside an upload, the slots as they were.
LEMMA EndsQuietly ==
  ASSUME UInv, NEW m \in Miners, NEW how \in Outcomes \ {"upload failed"},
         at[m] \in Parsers \cup {"idle"}, at[m] \notin UploadSteps,
         End(m, how), slots' = slots,
         how # "upgraded" \/ accepted[m] = TRUE,
         times' \in [Miners -> 0 .. limit]
  PROVE  UInv'
<1>1. Back(m) = 0 /\ Gone(how) = 0
  <2>1. Back(m) = 0
    BY BackOf
  <2>2. how # "upload failed"
    OBVIOUS
  <2> QED
    BY <2>1, <2>2, GoneOf
<1>2. slots \in Int
  BY DEF UInv, TypeOK
<1>3. slots' = slots + Back(m) - Gone(how)
  BY <1>1, <1>2, SlotsKept
<1> QED
  BY <1>3, Ending

\* Ending an upload, the slot given back.
LEMMA EndsUpload ==
  ASSUME UInv, NEW m \in Miners, NEW how \in {"failed", "may have succeeded"},
         at[m] \in UploadSteps, End(m, how), slots' = slots + 1,
         times' \in [Miners -> 0 .. limit]
  PROVE  UInv'
<1>1. Back(m) = 1 /\ Gone(how) = 0
  <2>1. Back(m) = 1
    BY BackOf
  <2>2. how # "upload failed"
    OBVIOUS
  <2> QED
    BY <2>1, <2>2, GoneOf
<1>2. slots \in Int
  BY DEF UInv, TypeOK
<1>3. slots' = slots + Back(m) - Gone(how)
  BY <1>1, <1>2, SlotsBack
<1>4. at[m] \in Parsers /\ how \in Outcomes /\ how # "upgraded"
  BY DEF UploadSteps, Parsers, Outcomes
<1> QED
  BY <1>3, <1>4, Ending

\* Ending an upload without it.
LEMMA EndsLosing ==
  ASSUME UInv, NEW m \in Miners,
         at[m] \in UploadSteps, End(m, "upload failed"), slots' = slots,
         times' \in [Miners -> 0 .. limit]
  PROVE  UInv'
<1>1. Back(m) = 1 /\ Gone("upload failed") = 1
  <2>1. Back(m) = 1
    BY BackOf
  <2> QED
    BY <2>1, GoneOf
<1>2. slots \in Int
  BY DEF UInv, TypeOK
<1>3. slots' = slots + Back(m) - Gone("upload failed")
  BY <1>1, <1>2, SlotsLost
<1>4. at[m] \in Parsers /\ "upload failed" \in Outcomes
  BY DEF UploadSteps, Parsers, Outcomes
<1> QED
  BY <1>3, <1>4, Ending

\* Going on without the file, to a step before the upload or after it.
LEMMA GoesOn ==
  ASSUME UInv, NEW m \in Miners, NEW s \in Parsers \ UploadSteps,
         at[m] \in Parsers \cup {"idle"}, Go(m, s),
         s \in {"doReboot", "doWaitFinish"} => accepted'[m],
         slots' = slots + Back(m),
         file' \in [Miners -> BOOLEAN], file'[m] = FALSE,
         \A x \in Miners \ {m} : file'[x] = file[x],
         accepted' \in [Miners -> BOOLEAN], RestType',
         \A x \in Miners \ {m} : accepted'[x] = accepted[x]
  PROVE  UInv'
<1>1. slots' = slots + Back(m) - Taken(s)
  <2>1. slots \in Int /\ Back(m) \in Int
    BY Units DEF UInv, TypeOK
  <2>2. Taken(s) = 0
    BY DEF Taken
  <2> QED
    BY <2>1, <2>2
<1>2. s \in Parsers /\ (file'[m] <=> s \in UploadSteps)
  OBVIOUS
<1>3. \A x \in Miners \ {m} : file'[x] = file[x] /\ accepted'[x] = accepted[x]
  OBVIOUS
<1> QED
  BY <1>1, <1>2, <1>3, GoingOn

\* A move that leaves the script's own state as it is.
LEMMA GoesOnAsIs ==
  ASSUME UInv, NEW m \in Miners, NEW s \in Parsers,
         s \notin UploadSteps \cup {"doReboot", "doWaitFinish"} \/ accepted[m] = TRUE,
         at[m] \in Parsers \cup {"idle"}, at[m] \notin UploadSteps, s \notin UploadSteps,
         Go(m, s), slots' = slots, file' = file, accepted' = accepted, RestType'
  PROVE  UInv'
<1>1. Back(m) = 0 /\ m \notin Uploading
  BY BackOf
<1>2. slots' = slots + Back(m)
  BY <1>1, SlotsSame DEF UInv, TypeOK
<1>3. /\ accepted' \in [Miners -> BOOLEAN] /\ file' \in [Miners -> BOOLEAN]
      /\ file \in [Miners -> BOOLEAN]
  BY DEF UInv, TypeOK
<1>4. ~file[m]
  <2>1. at[m] = "idle" => ~file[m]
    BY DEF UInv, PlaceInv
  <2>2. at[m] # "idle" => (file[m] <=> m \in Uploading)
    BY DEF UInv, FileWithUploadOnly, Active
  <2> QED
    BY <1>1, <2>1, <2>2
<1>5. file'[m] = FALSE
  BY <1>3, <1>4
<1>6. s \in {"doReboot", "doWaitFinish"} => accepted'[m]
  OBVIOUS
<1> QED
  BY <1>2, <1>3, <1>5, <1>6, GoesOn

LEMMA RestKept ==
  ASSUME TypeOK, wait' = wait, polls' = polls, enable' = enable,
         times' \in [Miners -> 0 .. limit]
  PROVE  RestType'
BY DEF TypeOK, RestType

LEMMA AcceptedNow ==
  ASSUME TypeOK, NEW m \in Miners, accepted' = [accepted EXCEPT ![m] = TRUE]
  PROVE  /\ accepted' \in [Miners -> BOOLEAN] /\ accepted'[m] = TRUE
         /\ \A x \in Miners \ {m} : accepted'[x] = accepted[x]
BY DEF TypeOK

-----------------------------------------------------------------------------
\* AntminerHttpCgi
LEMMA AuthUInv ==
  ASSUME UInv, NEW m \in Miners, NEW stat \in Stats, auth(m, stat)
  PROVE  UInv'
<1>1. at[m] = "auth" /\ times' \in [Miners -> 0 .. limit]
  BY Handled DEF UInv, auth
<1>2. at[m] \in Parsers /\ at[m] \notin UploadSteps /\ m \notin Uploading
  BY <1>1, BackOf DEF Parsers, UploadSteps
<1>3. \/ End(m, "failed") /\ slots' = slots
      \/ waiting(m)
      \/ Upload(m, "doUpgrade")
  BY DEF auth
<1>4. CASE End(m, "failed") /\ slots' = slots
  BY <1>1, <1>2, <1>4, EndsQuietly DEF Outcomes
<1>5. CASE waiting(m)
  <2>1. wait' \in [Miners -> BOOLEAN]
    BY <1>5 DEF waiting, UInv, TypeOK
  <2>2. RestType'
    BY <1>1, <1>5, <2>1 DEF waiting, UInv, TypeOK, RestType
  <2>3. "auth" \in Parsers /\ "auth" \notin UploadSteps \cup {"doReboot", "doWaitFinish"}
    BY DEF Parsers, UploadSteps
  <2> QED
    BY <1>2, <1>5, <2>2, <2>3, GoesOnAsIs DEF waiting
<1>6. CASE Upload(m, "doUpgrade")
  BY <1>1, <1>2, <1>6, Uploads DEF UploadSteps
<1> QED
  BY <1>3, <1>4, <1>5, <1>6

LEMMA DoUpgradeUInv ==
  ASSUME UInv, NEW m \in Miners, NEW stat \in Stats, doUpgrade(m, stat)
  PROVE  UInv'
<1>1. at[m] = "doUpgrade" /\ times' \in [Miners -> 0 .. limit]
  BY Handled DEF UInv, doUpgrade
<1>2. at[m] \in Parsers /\ at[m] \in UploadSteps /\ Back(m) = 1
  BY <1>1, BackOf DEF Parsers, UploadSteps
<1>3. \/ \E how \in {"failed", "may have succeeded"} : End(m, how)
      \/ /\ Go(m, "doReboot")
         /\ file' = [file EXCEPT ![m] = FALSE]
         /\ accepted' = [accepted EXCEPT ![m] = TRUE]
         /\ UNCHANGED <<wait, polls, enable>>
  BY DEF doUpgrade
<1>4. slots' = slots + 1
  BY DEF doUpgrade
<1>5. CASE \E how \in {"failed", "may have succeeded"} : End(m, how)
  BY <1>1, <1>2, <1>4, <1>5, EndsUpload
<1>6. CASE /\ Go(m, "doReboot")
           /\ file' = [file EXCEPT ![m] = FALSE]
           /\ accepted' = [accepted EXCEPT ![m] = TRUE]
           /\ UNCHANGED <<wait, polls, enable>>
  <2>1. RestType'
    BY <1>1, <1>6, RestKept DEF UInv
  <2>2. /\ accepted' \in [Miners -> BOOLEAN] /\ accepted'[m] = TRUE
        /\ \A x \in Miners \ {m} : accepted'[x] = accepted[x]
    BY <1>6, AcceptedNow DEF UInv
  <2>3. "doReboot" \in Parsers /\ "doReboot" \notin UploadSteps
    BY DEF Parsers, UploadSteps
  <2>4. slots' = slots + Back(m)
    BY <1>2, <1>4, SlotReturned DEF UInv, TypeOK
  <2>5. /\ Go(m, "doReboot") /\ file' \in [Miners -> BOOLEAN] /\ file'[m] = FALSE
        /\ \A x \in Miners \ {m} : file'[x] = file[x]
    BY <1>6 DEF UInv, TypeOK
  <2>6. at[m] \in Parsers \cup {"idle"}
    BY <1>2
  <2> QED
    BY <2>1, <2>2, <2>3, <2>4, <2>5, <2>6, GoesOn
<1> QED
  BY <1>3, <1>5, <1>6

LEMMA DoRebootUInv ==
  ASSUME UInv, NEW m \in Miners, NEW stat \in Stats, doReboot(m, stat)
  PROVE  UInv'
<1>1. at[m] = "doReboot" /\ times' \in [Miners -> 0 .. limit]
  BY Handled DEF UInv, doReboot
<1>2. /\ at[m] \in Parsers /\ at[m] \notin UploadSteps /\ m \notin Uploading
      /\ Back(m) = 0
  BY <1>1, BackOf DEF Parsers, UploadSteps
<1>3. slots' = slots
  BY DEF doReboot
<1>4. CASE End(m, "failed")
  BY <1>1, <1>2, <1>3, <1>4, EndsQuietly DEF Outcomes
<1>5. CASE StartWaiting(m, FALSE) /\ UNCHANGED accepted
  <2>1. slots' = slots + Back(m)
    BY <1>2, <1>3, SlotsSame DEF UInv, TypeOK
  <2>2. accepted[m] /\ accepted \in [Miners -> BOOLEAN]
    BY <1>1 DEF UInv, TypeOK, PlaceInv
  <2> QED
    BY <1>1, <1>2, <1>5, <2>1, <2>2, WaitsForReboot
<1> QED
  BY <1>4, <1>5 DEF doReboot

-----------------------------------------------------------------------------
\* AnthillOS
LEMMA AnthillSessionUInv ==
  ASSUME UInv, NEW m \in Miners, NEW stat \in Stats, AnthillSession(m, stat)
  PROVE  UInv'
<1>1. at[m] = "parseSession" /\ times' \in [Miners -> 0 .. limit]
  BY Handled DEF UInv, AnthillSession
<1>2. at[m] \in Parsers /\ at[m] \notin UploadSteps /\ m \notin Uploading
  BY <1>1, BackOf DEF Parsers, UploadSteps
<1>3. CASE End(m, "failed") /\ slots' = slots
  BY <1>1, <1>2, <1>3, EndsQuietly DEF Outcomes
<1>4. CASE Upload(m, "doUpgrade")
  BY <1>1, <1>2, <1>4, Uploads DEF UploadSteps
<1> QED
  BY <1>3, <1>4 DEF AnthillSession

LEMMA AnthillUpgradeUInv ==
  ASSUME UInv, NEW m \in Miners, NEW stat \in Stats, AnthillUpgrade(m, stat)
  PROVE  UInv'
<1>1. at[m] = "doUpgrade" /\ times' \in [Miners -> 0 .. limit]
  BY Handled DEF UInv, AnthillUpgrade
<1>2. at[m] \in Parsers /\ at[m] \in UploadSteps /\ Back(m) = 1
  BY <1>1, BackOf DEF Parsers, UploadSteps
<1>3. slots' = slots + 1
  BY DEF AnthillUpgrade
<1>4. CASE End(m, "failed")
  BY <1>1, <1>2, <1>3, <1>4, EndsUpload
<1>5. CASE StartWaiting(m, TRUE) /\ accepted' = [accepted EXCEPT ![m] = TRUE]
  <2>1. slots' = slots + Back(m)
    BY <1>2, <1>3, SlotReturned DEF UInv, TypeOK
  <2>2. /\ accepted' \in [Miners -> BOOLEAN] /\ accepted'[m] = TRUE
        /\ \A x \in Miners \ {m} : accepted'[x] = accepted[x]
    BY <1>5, AcceptedNow DEF UInv
  <2> QED
    BY <1>1, <1>2, <1>5, <2>1, <2>2, WaitsForReboot
<1> QED
  BY <1>4, <1>5 DEF AnthillUpgrade

-----------------------------------------------------------------------------
\* BosHttpLuci
LEMMA BosSessionUInv ==
  ASSUME UInv, NEW m \in Miners, NEW stat \in Stats, BosSession(m, stat)
  PROVE  UInv'
<1>1. at[m] = "parseSession" /\ times' \in [Miners -> 0 .. limit]
  BY Handled DEF UInv, BosSession
<1>2. at[m] \in Parsers /\ at[m] \notin UploadSteps
  BY <1>1 DEF Parsers, UploadSteps
<1>3. PICK s \in {"parseToken", "parseNoPswdSession"} : Go(m, s)
  BY DEF BosSession
<1>4. s \in Parsers /\ s \notin UploadSteps \cup {"doReboot", "doWaitFinish"}
  BY DEF Parsers, UploadSteps
<1>5. slots' = slots /\ file' = file /\ accepted' = accepted
  BY DEF BosSession, script
<1>6. RestType'
  BY <1>1, RestKept DEF UInv, BosSession, script
<1> QED
  BY <1>2, <1>3, <1>4, <1>5, <1>6, GoesOnAsIs

LEMMA NoPswdUInv ==
  ASSUME UInv, NEW m \in Miners, NEW stat \in Stats, parseNoPswdSession(m, stat)
  PROVE  UInv'
<1>1. at[m] = "parseNoPswdSession" /\ times' \in [Miners -> 0 .. limit]
  BY Handled DEF UInv, parseNoPswdSession
<1>2. at[m] \in Parsers /\ at[m] \notin UploadSteps
  BY <1>1 DEF Parsers, UploadSteps
<1>3. slots' = slots
  BY DEF parseNoPswdSession
<1>4. CASE End(m, "failed")
  BY <1>1, <1>2, <1>3, <1>4, EndsQuietly DEF Outcomes
<1>5. CASE Go(m, "parseToken") /\ UNCHANGED script
  <2>1. "parseToken" \in Parsers
        /\ "parseToken" \notin UploadSteps \cup {"doReboot", "doWaitFinish"}
    BY DEF Parsers, UploadSteps
  <2>2. RestType' /\ file' = file /\ accepted' = accepted
    BY <1>1, <1>5, RestKept DEF UInv, script
  <2> QED
    BY <1>2, <1>3, <1>5, <2>1, <2>2, GoesOnAsIs
<1> QED
  BY <1>4, <1>5 DEF parseNoPswdSession

LEMMA TokenUInv ==
  ASSUME UInv, NEW m \in Miners, NEW stat \in Stats, parseToken(m, stat)
  PROVE  UInv'
<1>1. at[m] = "parseToken" /\ times' \in [Miners -> 0 .. limit]
  BY Handled DEF UInv, parseToken
<1>2. at[m] \in Parsers /\ at[m] \notin UploadSteps /\ m \notin Uploading
  BY <1>1, BackOf DEF Parsers, UploadSteps
<1>3. CASE End(m, "failed") /\ slots' = slots
  BY <1>1, <1>2, <1>3, EndsQuietly DEF Outcomes
<1>4. CASE Upload(m, "parseUploadFile")
  BY <1>1, <1>2, <1>4, Uploads DEF UploadSteps
<1> QED
  BY <1>3, <1>4 DEF parseToken

LEMMA UploadFileUInv ==
  ASSUME UInv, NEW m \in Miners, NEW stat \in Stats, parseUploadFile(m, stat)
  PROVE  UInv'
<1>1. at[m] = "parseUploadFile" /\ times' \in [Miners -> 0 .. limit]
  BY Handled DEF UInv, parseUploadFile
<1>2. at[m] \in Parsers /\ at[m] \in UploadSteps /\ Back(m) = 1
  BY <1>1, BackOf DEF Parsers, UploadSteps
<1>3. CASE End(m, "upload failed") /\ slots' = slots
  BY <1>1, <1>2, <1>3, EndsLosing
<1>4. CASE /\ Go(m, "parseRunUpgrade")
           /\ slots' = slots + 1
           /\ file' = [file EXCEPT ![m] = FALSE]
           /\ UNCHANGED <<wait, polls, enable, accepted>>
  <2>1. RestType'
    BY <1>1, <1>4, RestKept DEF UInv
  <2>2. slots' = slots + Back(m)
    BY <1>2, <1>4, SlotReturned DEF UInv, TypeOK
  <2>3. "parseRunUpgrade" \in Parsers
        /\ "parseRunUpgrade" \notin UploadSteps \cup {"doReboot", "doWaitFinish"}
    BY DEF Parsers, UploadSteps
  <2>4. /\ accepted' \in [Miners -> BOOLEAN]
        /\ \A x \in Miners \ {m} : accepted'[x] = accepted[x]
    BY <1>4 DEF UInv, TypeOK
  <2>5. /\ Go(m, "parseRunUpgrade") /\ file' \in [Miners -> BOOLEAN] /\ file'[m] = FALSE
        /\ \A x \in Miners \ {m} : file'[x] = file[x]
    BY <1>4 DEF UInv, TypeOK
  <2>6. at[m] \in Parsers \cup {"idle"}
    BY <1>2
  <2> QED
    BY <2>1, <2>2, <2>3, <2>4, <2>5, <2>6, GoesOn
<1> QED
  BY <1>3, <1>4 DEF parseUploadFile

LEMMA RunUpgradeUInv ==
  ASSUME UInv, NEW m \in Miners, NEW stat \in Stats, parseRunUpgrade(m, stat)
  PROVE  UInv'
<1>1. at[m] = "parseRunUpgrade" /\ times' \in [Miners -> 0 .. limit]
  BY Handled DEF UInv, parseRunUpgrade
<1>2. /\ at[m] \in Parsers /\ at[m] \notin UploadSteps /\ m \notin Uploading
      /\ Back(m) = 0
  BY <1>1, BackOf DEF Parsers, UploadSteps
<1>3. slots' = slots
  BY DEF parseRunUpgrade
<1>4. CASE End(m, "failed")
  BY <1>1, <1>2, <1>3, <1>4, EndsQuietly DEF Outcomes
<1>5. CASE StartWaiting(m, FALSE) /\ accepted' = [accepted EXCEPT ![m] = TRUE]
  <2>1. slots' = slots + Back(m)
    BY <1>2, <1>3, SlotsSame DEF UInv, TypeOK
  <2>2. /\ accepted' \in [Miners -> BOOLEAN] /\ accepted'[m] = TRUE
        /\ \A x \in Miners \ {m} : accepted'[x] = accepted[x]
    BY <1>5, AcceptedNow DEF UInv
  <2> QED
    BY <1>1, <1>2, <1>5, <2>1, <2>2, WaitsForReboot
<1> QED
  BY <1>4, <1>5 DEF parseRunUpgrade

-----------------------------------------------------------------------------
LEMMA WaitFinishUInv ==
  ASSUME UInv, NEW m \in Miners, NEW stat \in Stats, doWaitFinish(m, stat)
  PROVE  UInv'
<1>1. at[m] = "doWaitFinish" /\ times' \in [Miners -> 0 .. limit]
  BY Handled DEF UInv, doWaitFinish
<1>2. at[m] \in Parsers /\ at[m] \notin UploadSteps
  BY <1>1 DEF Parsers, UploadSteps
<1>3. slots' = slots
  BY DEF doWaitFinish
<1>4. accepted[m] = TRUE
  BY <1>1 DEF UInv, TypeOK, PlaceInv
<1>5. CASE \E how \in {"upgraded", "may have succeeded", "failed"} : End(m, how)
  <2>1. PICK how \in {"upgraded", "may have succeeded", "failed"} : End(m, how)
    BY <1>5
  <2>2. how \in Outcomes \ {"upload failed"}
    BY DEF Outcomes
  <2> QED
    BY <1>1, <1>2, <1>3, <1>4, <2>1, <2>2, EndsQuietly
<1>6. CASE /\ polls[m] <= PollLimit
           /\ polls' = [polls EXCEPT ![m] = @ + 1]
           /\ Go(m, "doWaitFinish")
           /\ UNCHANGED <<file, wait, enable, accepted>>
  <2>1. polls' \in [Miners -> 0 .. PollLimit + 1]
    BY <1>6 DEF UInv, TypeOK
  <2>2. RestType'
    BY <1>1, <1>6, <2>1 DEF UInv, TypeOK, RestType
  <2>3. "doWaitFinish" \in Parsers /\ "doWaitFinish" \notin UploadSteps
    BY DEF Parsers, UploadSteps
  <2> QED
    BY <1>2, <1>3, <1>4, <1>6, <2>2, <2>3, GoesOnAsIs
<1> QED
  BY <1>5, <1>6 DEF doWaitFinish

LEMMA ResponseUInv ==
  ASSUME UInv, NEW m \in Miners, Response(m)
  PROVE  UInv'
<1>1. PICK stat \in Stats :
        \/ auth(m, stat) \/ doUpgrade(m, stat) \/ doReboot(m, stat)
        \/ AnthillSession(m, stat) \/ AnthillUpgrade(m, stat)
        \/ BosSession(m, stat) \/ parseNoPswdSession(m, stat) \/ parseToken(m, stat)
        \/ parseUploadFile(m, stat) \/ parseRunUpgrade(m, stat)
        \/ doWaitFinish(m, stat)
  BY DEF Response
<1> QED
  BY <1>1, AuthUInv, DoUpgradeUInv, DoRebootUInv, AnthillSessionUInv,
     AnthillUpgradeUInv, BosSessionUInv, NoPswdUInv, TokenUInv, UploadFileUInv,
     RunUpgradeUInv, WaitFinishUInv

LEMMA AdmitUInv ==
  ASSUME UInv, NEW m \in Miners, Admit(m)
  PROVE  UInv'
<1>1. /\ at[m] = "idle" /\ slots' = slots /\ times' = times
      /\ times \in [Miners -> 0 .. limit]
  BY DEF Admit, UInv, TypeOK
<1>2. at[m] \in Parsers \cup {"idle"} /\ at[m] \notin UploadSteps
  BY <1>1 DEF UploadSteps
<1>3. CASE End(m, "failed")
  BY <1>1, <1>2, <1>3, EndsQuietly DEF Outcomes
<1>4. CASE Go(m, FirstStep(m)) /\ UNCHANGED script
  <2>1. /\ FirstStep(m) \in Parsers
        /\ FirstStep(m) \notin UploadSteps \cup {"doReboot", "doWaitFinish"}
    BY DEF FirstStep, Parsers, UploadSteps
  <2>2. RestType' /\ file' = file /\ accepted' = accepted
    BY <1>1, <1>4, RestKept DEF UInv, script
  <2> QED
    BY <1>1, <1>2, <1>4, <2>1, <2>2, GoesOnAsIs
<1> QED
  BY <1>3, <1>4 DEF Admit

\* Steps that move no miner.
LEMMA StillUInv ==
  ASSUME UInv, UNCHANGED <<at, outcome, slots, script>>,
         times' \in [Miners -> 0 .. limit]
  PROVE  UInv'
BY DEF UInv, TypeOK, script, SlotAccount, Uploading, Lost, FileWithUploadOnly,
       Active, UpgradedIsTrue, PlaceInv

LEMMA InitUInv ==
  ASSUME Init
  PROVE  UInv
<1>1. Uploading = {} /\ Lost = {} /\ Active = {}
  BY DEF Init, Uploading, Lost, Active, Parsers
<1>2. SlotAccount
  BY <1>1, FS_EmptySet DEF Init, SlotAccount
<1>3. TypeOK
  BY DEF Init, TypeOK, Parsers, Outcomes
<1> QED
  BY <1>1, <1>2, <1>3 DEF Init, UInv, FileWithUploadOnly, UpgradedIsTrue, PlaceInv

LEMMA NextUInv ==
  ASSUME UInv, [Next]_vars
  PROVE  UInv'
<1>1. CASE \E m \in Miners : Admit(m) \/ Response(m)
  BY <1>1, AdmitUInv, ResponseUInv
<1>2. CASE \E m \in Miners : Retry(m)
  <2>1. PICK m \in Miners : Retry(m)
    BY <1>2
  <2>2. times' \in [Miners -> 0 .. limit]
    BY <2>1 DEF Retry, UInv, TypeOK
  <2> QED
    BY <2>1, <2>2, StillUInv DEF Retry
<1>3. CASE UNCHANGED vars
  BY <1>3, StillUInv DEF vars, UInv, TypeOK
<1> QED
  BY <1>1, <1>2, <1>3 DEF Next, Finished

\* Whatever the types and their mix, the count of upgrader.sendFirmwareStepSize
\* and the uploads add up, but for the uploads a BosHttpLuci miner failed; no
\* script sends the firmware with another request than the upload; and
\* "upgraded" is only said of a miner that took the image.
THEOREM UInvCorrect == Spec => []UInv
<1>1. Init => UInv
  BY InitUInv
<1>2. UInv /\ [Next]_vars => UInv'
  BY NextUInv
<1> QED
  BY <1>1, <1>2, PTL DEF Spec

-----------------------------------------------------------------------------
\* With Antminer miners only, nothing is lost and no upload starts without a
\* slot.
AllAntminers == \A m \in Miners : typeOf[m] = "AntminerHttpCgi"

AntminerSteps == {"idle", "auth", "doUpgrade", "doReboot", "doWaitFinish", "ended"}

AInv ==
  /\ UInv
  /\ slots >= 0
  /\ \A m \in Miners : at[m] \in AntminerSteps /\ outcome[m] # "upload failed"

\* What an Antminer's response can do to the slots and to its own place.
LEMMA AntminerResponse ==
  ASSUME AllAntminers, AInv, NEW m \in Miners, Response(m)
  PROVE  /\ \/ slots' = slots
            \/ slots > 0 /\ slots' = slots - 1
            \/ slots' = slots + 1
         /\ \/ \E s \in AntminerSteps : Go(m, s)
            \/ \E how \in Outcomes \ {"upload failed"} : End(m, how)
<1>1. typeOf[m] = "AntminerHttpCgi" /\ at[m] \in AntminerSteps
  BY DEF AllAntminers, AInv
<1>2. PICK stat \in Stats :
        auth(m, stat) \/ doUpgrade(m, stat) \/ doReboot(m, stat) \/ doWaitFinish(m, stat)
  BY <1>1 DEF Response, AntminerSteps, AnthillSession, AnthillUpgrade, BosSession,
     parseNoPswdSession, parseToken, parseUploadFile, parseRunUpgrade, Handle
<1>3. {"failed", "upgraded", "may have succeeded"} \subseteq Outcomes \ {"upload failed"}
  BY DEF Outcomes
<1>4. {"auth", "doUpgrade", "doReboot", "doWaitFinish"} \subseteq AntminerSteps
  BY DEF AntminerSteps
<1>5. CASE auth(m, stat)
  <2>1. \/ End(m, "failed") /\ slots' = slots
        \/ waiting(m)
        \/ slots > 0 /\ Upload(m, "doUpgrade")
    BY <1>5 DEF auth
  <2> QED
    BY <1>3, <1>4, <2>1 DEF waiting, Upload
<1>6. CASE doUpgrade(m, stat)
  <2>1. \/ \E how \in {"failed", "may have succeeded"} : End(m, how)
        \/ Go(m, "doReboot")
    BY <1>6 DEF doUpgrade
  <2> QED
    BY <1>3, <1>4, <1>6, <2>1 DEF doUpgrade
<1>7. CASE doReboot(m, stat)
  BY <1>3, <1>4, <1>7 DEF doReboot, StartWaiting
<1>8. CASE doWaitFinish(m, stat)
  BY <1>3, <1>4, <1>8 DEF doWaitFinish
<1> QED
  BY <1>2, <1>5, <1>6, <1>7, <1>8

LEMMA StepAInv ==
  ASSUME AllAntminers, AInv, [Next]_vars
  PROVE  AInv'
<1>1. UInv /\ UInv'
  BY NextUInv DEF AInv
<1>2. slots \in Int
  BY <1>1 DEF UInv, TypeOK
<1>3. /\ at \in [Miners -> Parsers \cup {"idle", "ended"}]
      /\ outcome \in [Miners -> Outcomes]
  BY <1>1 DEF UInv, TypeOK
<1>4. ASSUME NEW m \in Miners,
             \/ \E s \in AntminerSteps : Go(m, s)
             \/ \E how \in Outcomes \ {"upload failed"} : End(m, how)
      PROVE  \A x \in Miners : at'[x] \in AntminerSteps /\ outcome'[x] # "upload failed"
  BY <1>3, <1>4 DEF AInv, Go, End, AntminerSteps
<1>5. CASE \E m \in Miners : Response(m)
  <2>1. PICK m \in Miners : Response(m)
    BY <1>5
  <2>2. slots' >= 0
    <3>1. \/ slots' = slots
          \/ slots > 0 /\ slots' = slots - 1
          \/ slots' = slots + 1
      BY <2>1, AntminerResponse
    <3>2. slots >= 0
      BY DEF AInv
    <3> QED
      BY <1>2, <3>1, <3>2
  <2>3. \/ \E s \in AntminerSteps : Go(m, s)
        \/ \E how \in Outcomes \ {"upload failed"} : End(m, how)
    BY <2>1, AntminerResponse
  <2>4. \A x \in Miners : at'[x] \in AntminerSteps /\ outcome'[x] # "upload failed"
    BY <1>4, <2>3
  <2> QED
    BY <1>1, <2>2, <2>4 DEF AInv
<1>6. CASE \E m \in Miners : Admit(m)
  <2>1. PICK m \in Miners : Admit(m)
    BY <1>6
  <2>2. Go(m, "auth") /\ slots' = slots
    BY <2>1 DEF Admit, FirstStep, AllAntminers
  <2>3. "auth" \in AntminerSteps
    BY DEF AntminerSteps
  <2> QED
    BY <1>1, <1>4, <2>2, <2>3 DEF AInv
<1>7. CASE \/ \E m \in Miners : Retry(m)
           \/ UNCHANGED vars
  <2>1. at' = at /\ outcome' = outcome /\ slots' = slots
    BY <1>7 DEF Retry, vars
  <2> QED
    BY <1>1, <2>1 DEF AInv
<1> QED
  BY <1>5, <1>6, <1>7 DEF Next, Finished

LEMMA AInvBound ==
  ASSUME AInv
  PROVE  UploadBound /\ (slots <= 0 => Cardinality(Uploading) = Slots)
<1>1. Lost = {} /\ Cardinality(Lost) = 0
  BY FS_EmptySet DEF AInv, Lost
<1>2. Uploading \in SUBSET Miners /\ Cardinality(Uploading) \in Nat
  BY MinerSets DEF Uploading
<1>3. slots \in Int /\ slots >= 0 /\ slots + Cardinality(Uploading) + Cardinality(Lost) = Slots
  BY DEF AInv, UInv, TypeOK, SlotAccount
<1> QED
  BY <1>1, <1>2, <1>3 DEF UploadBound

\* An Antminer batch never has more uploads under way than the application
\* allowed.
THEOREM UploadsBounded == AllAntminers /\ Spec => []UploadBound
<1>1. AllAntminers /\ Init => AInv
  BY InitUInv DEF AInv, Init, AntminerSteps
<1>2. AllAntminers /\ AInv /\ [Next]_vars => AInv'
  BY StepAInv
<1>3. AInv => UploadBound
  BY AInvBound
<1>4. CASE AllAntminers
  BY <1>1, <1>2, <1>3, <1>4, PTL DEF Spec
<1> QED
  BY <1>4

\* No step but waiting marks a miner as waiting.
LEMMA WaitChanges ==
  ASSUME [Next]_vars
  PROVE  wait' = wait \/ slots <= 0
<1>1. ASSUME NEW m \in Miners, NEW stat \in Stats,
             auth(m, stat)
      PROVE  wait' = wait \/ slots <= 0
  <2>1. \/ End(m, "failed")
        \/ slots <= 0
        \/ Upload(m, "doUpgrade")
    BY <1>1 DEF auth
  <2> QED
    BY <2>1 DEF End, script, Upload
<1>2. ASSUME NEW m \in Miners, NEW stat \in Stats,
             doUpgrade(m, stat) \/ doReboot(m, stat) \/ doWaitFinish(m, stat)
      PROVE  wait' = wait
  <2>1. CASE doUpgrade(m, stat)
    BY <2>1 DEF doUpgrade, End, script
  <2>2. CASE doReboot(m, stat)
    BY <2>2 DEF doReboot, End, script, StartWaiting
  <2>3. CASE doWaitFinish(m, stat)
    BY <2>3 DEF doWaitFinish, End, script
  <2> QED
    BY <1>2, <2>1, <2>2, <2>3
<1>3. ASSUME NEW m \in Miners, NEW stat \in Stats,
             AnthillSession(m, stat) \/ AnthillUpgrade(m, stat)
      PROVE  wait' = wait
  BY <1>3 DEF AnthillSession, AnthillUpgrade, End, script, Upload, StartWaiting
<1>4. ASSUME NEW m \in Miners, NEW stat \in Stats,
             \/ BosSession(m, stat) \/ parseNoPswdSession(m, stat)
             \/ parseToken(m, stat) \/ parseUploadFile(m, stat)
             \/ parseRunUpgrade(m, stat)
      PROVE  wait' = wait
  BY <1>4 DEF BosSession, parseNoPswdSession, parseToken, parseUploadFile,
     parseRunUpgrade, End, script, Upload, StartWaiting
<1>5. ASSUME NEW m \in Miners, Admit(m) \/ Retry(m)
      PROVE  wait' = wait
  BY <1>5 DEF Admit, Retry, End, script
<1>6. CASE UNCHANGED vars
  BY <1>6 DEF vars, script
<1> QED
  BY <1>1, <1>2, <1>3, <1>4, <1>5, <1>6 DEF Next, Finished, Response

\* And makes a miner wait only while that many are.
THEOREM WaitsCorrect == AllAntminers /\ Spec => WaitsOnlyWhenFull
<1>1. AllAntminers /\ Init => AInv
  BY InitUInv DEF AInv, Init, AntminerSteps
<1>2. AllAntminers /\ AInv /\ [Next]_vars => AInv'
  BY StepAInv
<1>3. ASSUME AllAntminers, AInv, [Next]_vars
      PROVE  [\A m \in Miners :
                ~wait[m] /\ wait'[m] => Cardinality(Uploading) >= Slots]_vars
  <2>1. Cardinality(Uploading) \in Nat
    BY MinerSets DEF Uploading
  <2> SUFFICES ASSUME NEW m \in Miners, ~wait[m], wait'[m]
               PROVE  Cardinality(Uploading) >= Slots
    OBVIOUS
  <2>2. slots <= 0
    BY <1>3, WaitChanges
  <2> QED
    BY <1>3, <2>1, <2>2, AInvBound
<1>4. CASE AllAntminers
  BY <1>1, <1>2, <1>3, <1>4, PTL DEF Spec, WaitsOnlyWhenFull
<1> QED
  BY <1>4

-----------------------------------------------------------------------------
\* The gate in a batch of any types.

AntminerPlaces ==
  \A m \in Miners : typeOf[m] = "AntminerHttpCgi" => at[m] \in AntminerSteps

\* Where an Antminer's response leads, and what its upload needs.
LEMMA GateOfResponse ==
  ASSUME UInv, AntminerPlaces, NEW m \in Miners, typeOf[m] = "AntminerHttpCgi", Response(m)
  PROVE  \/ \E s \in AntminerSteps : Go(m, s) /\ (s = "doUpgrade" => slots > 0)
         \/ \E how \in Outcomes : End(m, how)
<1>1. at[m] \in AntminerSteps
  BY DEF AntminerPlaces
<1>2. PICK stat \in Stats :
        auth(m, stat) \/ doUpgrade(m, stat) \/ doReboot(m, stat) \/ doWaitFinish(m, stat)
  BY <1>1 DEF Response, AntminerSteps, AnthillSession, AnthillUpgrade, BosSession,
     parseNoPswdSession, parseToken, parseUploadFile, parseRunUpgrade, Handle
<1>3. {"failed", "upgraded", "may have succeeded"} \subseteq Outcomes
  BY DEF Outcomes
<1>4. {"auth", "doUpgrade", "doReboot", "doWaitFinish"} \subseteq AntminerSteps
  BY DEF AntminerSteps
<1>5. CASE auth(m, stat)
  <2>1. \/ End(m, "failed")
        \/ waiting(m)
        \/ slots > 0 /\ Upload(m, "doUpgrade")
    BY <1>5 DEF auth
  <2> QED
    BY <1>3, <1>4, <2>1 DEF waiting, Upload
<1>6. CASE doUpgrade(m, stat)
  <2>1. \/ \E how \in {"failed", "may have succeeded"} : End(m, how)
        \/ Go(m, "doReboot")
    BY <1>6 DEF doUpgrade
  <2> QED
    BY <1>3, <1>4, <2>1
<1>7. CASE doReboot(m, stat)
  BY <1>3, <1>4, <1>7 DEF doReboot, StartWaiting
<1>8. CASE doWaitFinish(m, stat)
  BY <1>3, <1>4, <1>8 DEF doWaitFinish
<1> QED
  BY <1>2, <1>5, <1>6, <1>7, <1>8

\* A response moves the miner it is for and no other.
LEMMA OneMoves ==
  ASSUME NEW m \in Miners, Response(m)
  PROVE  \E s : at' = [at EXCEPT ![m] = s]
<1>1. PICK stat \in Stats :
        \/ auth(m, stat) \/ doUpgrade(m, stat) \/ doReboot(m, stat)
        \/ AnthillSession(m, stat) \/ AnthillUpgrade(m, stat)
        \/ BosSession(m, stat) \/ parseNoPswdSession(m, stat) \/ parseToken(m, stat)
        \/ parseUploadFile(m, stat) \/ parseRunUpgrade(m, stat)
        \/ doWaitFinish(m, stat)
  BY DEF Response
<1>2. (\E s : Go(m, s)) \/ (\E how : End(m, how))
  <2>1. CASE auth(m, stat)
    BY <2>1 DEF auth, waiting, Upload
  <2>2. CASE doUpgrade(m, stat) \/ doReboot(m, stat) \/ doWaitFinish(m, stat)
    BY <2>2 DEF doUpgrade, doReboot, doWaitFinish, StartWaiting
  <2>3. CASE AnthillSession(m, stat) \/ AnthillUpgrade(m, stat)
    BY <2>3 DEF AnthillSession, AnthillUpgrade, Upload, StartWaiting
  <2>4. CASE BosSession(m, stat) \/ parseNoPswdSession(m, stat) \/ parseToken(m, stat)
    BY <2>4 DEF BosSession, parseNoPswdSession, parseToken, Upload
  <2>5. CASE parseUploadFile(m, stat) \/ parseRunUpgrade(m, stat)
    BY <2>5 DEF parseUploadFile, parseRunUpgrade, StartWaiting
  <2> QED
    BY <1>1, <2>1, <2>2, <2>3, <2>4, <2>5
<1> QED
  BY <1>2 DEF Go, End

\* In one step an Antminer stays where it is, goes on within its script, takes
\* a slot that is there, or ends.
LEMMA GateOfStep ==
  ASSUME UInv, AntminerPlaces, [Next]_vars,
         NEW m \in Miners, typeOf[m] = "AntminerHttpCgi"
  PROVE  /\ at'[m] \in AntminerSteps
         /\ at'[m] = "doUpgrade" => at[m] = "doUpgrade" \/ slots > 0
<1>1. at \in [Miners -> Parsers \cup {"idle", "ended"}]
  BY DEF UInv, TypeOK
<1>2. at[m] \in AntminerSteps
  BY DEF AntminerPlaces
<1>3. CASE Response(m)
  BY <1>1, <1>3, GateOfResponse DEF Go, End, AntminerSteps
<1>4. ASSUME NEW x \in Miners, x # m, Response(x)
      PROVE  at'[m] = at[m]
  BY <1>1, <1>4, OneMoves
<1>5. CASE \E x \in Miners : Admit(x)
  <2>1. PICK x \in Miners : Admit(x)
    BY <1>5
  <2>2. CASE x = m
    BY <1>1, <2>1, <2>2 DEF Admit, FirstStep, Go, End, AntminerSteps
  <2>3. CASE x # m
    BY <1>1, <1>2, <2>1, <2>3 DEF Admit, Go, End
  <2> QED
    BY <2>2, <2>3
<1>6. CASE (\E x \in Miners : Retry(x)) \/ UNCHANGED vars
  BY <1>2, <1>6 DEF Retry, vars
<1> QED
  BY <1>2, <1>3, <1>4, <1>5, <1>6 DEF Next, Finished

\* By the account the count is positive exactly while there is room.
LEMMA RoomIsSlots ==
  ASSUME UInv
  PROVE  Room <=> slots > 0
<1>1. Cardinality(Uploading) \in Nat /\ Cardinality(Lost) \in Nat
  BY MinerSets DEF Uploading, Lost
<1>2. slots \in Int /\ slots + Cardinality(Uploading) + Cardinality(Lost) = Slots
  BY DEF UInv, TypeOK, SlotAccount
<1> QED
  BY <1>1, <1>2 DEF Room

\* In a batch of any types an Antminer starts an upload only into a free slot
\* and waits only while there is none: the check in auth and the count in
\* upgrade act as one.
THEOREM GateCorrect == Spec => AntminerGate
<1>1. Init => UInv /\ AntminerPlaces
  BY InitUInv DEF Init, AntminerPlaces, AntminerSteps
<1>2. UInv /\ AntminerPlaces /\ [Next]_vars => UInv' /\ AntminerPlaces'
  BY NextUInv, GateOfStep DEF AntminerPlaces
<1>3. ASSUME UInv, AntminerPlaces, [Next]_vars
      PROVE  [\A m \in Miners :
                /\ typeOf[m] = "AntminerHttpCgi" /\ m \notin Uploading /\ m \in Uploading' => Room
                /\ ~wait[m] /\ wait'[m] => ~Room]_vars
  <2> SUFFICES ASSUME NEW m \in Miners
               PROVE  /\ typeOf[m] = "AntminerHttpCgi" /\ m \notin Uploading
                            /\ m \in Uploading' => Room
                      /\ ~wait[m] /\ wait'[m] => ~Room
    OBVIOUS
  <2>1. slots \in Int
    BY <1>3 DEF UInv, TypeOK
  <2>2. ASSUME typeOf[m] = "AntminerHttpCgi", m \notin Uploading, m \in Uploading'
        PROVE  Room
    <3>1. at'[m] = "doUpgrade" /\ at[m] # "doUpgrade"
      BY <1>3, <2>2, GateOfStep DEF Uploading, AntminerSteps
    <3> QED
      BY <1>3, <2>2, <3>1, GateOfStep, RoomIsSlots
  <2>3. ASSUME ~wait[m], wait'[m]
        PROVE  ~Room
    BY <1>3, <2>1, <2>3, WaitChanges, RoomIsSlots
  <2> QED
    BY <2>2, <2>3
<1> QED
  BY <1>1, <1>2, <1>3, PTL DEF Spec, AntminerGate
=============================================================================

------------------------- MODULE MinerScannerProofs -------------------------
(***************************************************************************)
(* Theorems about the three specifications MCMinerScanner composes, for     *)
(* every value of their constants: the driver over a source of any length,  *)
(* with any stepSize and any number of rounds a script may take; a          *)
(* generator over addresses of any width; and a group that is given any     *)
(* ranges.                                                                  *)
(***************************************************************************)
EXTENDS MCMinerScanner, FiniteSetTheorems, SequenceTheorems, TLAPS

\* How many places are taken at each point of the driver.
Places ==
  /\ pc = "fill" => Cardinality(inflight) = i
  /\ pc = "next" => Cardinality(inflight) = stepSize - 1 \/ ~More
  /\ pc = "next" => Cardinality(inflight) <= stepSize - 1

\* A driver that came to its end by itself left nothing behind.
Quiet == pc = "done" /\ ~stopped => inflight = {} /\ ~More

\* The inductive invariant.
DInv ==
  /\ TypeOK
  /\ ConcurrencyBound
  /\ Conservation
  /\ NoIdlePlace
  /\ EachOutcomeOnce
  /\ Places
  /\ Quiet

USE NAssumption, StepSizeAssumption, MaxRoundsAssumption

\* Sets of items are finite; one more or one less item counts one.
LEMMA ItemSets ==
  ASSUME NEW S \in SUBSET Items
  PROVE  /\ Cardinality(S) \in Nat
         /\ \A x \in Items \ S : Cardinality(S \cup {x}) = Cardinality(S) + 1
         /\ \A x \in S : Cardinality(S \ {x}) = Cardinality(S) - 1
         /\ Cardinality(S) = 0 <=> S = {}
<1>1. IsFiniteSet(Items)
  BY FS_Interval DEF Items
<1>2. IsFiniteSet(S)
  BY <1>1, FS_Subset
<1> QED
  BY <1>2, FS_CardinalityType, FS_AddElement, FS_RemoveElement, FS_EmptySet

\* Initial states.
LEMMA InitDInv == Init => DInv
<1> SUFFICES ASSUME Init PROVE DInv
  OBVIOUS
<1>1. Cardinality({}) = 0
  BY FS_EmptySet
<1>2. TypeOK
  <2>1. client \in BOOLEAN /\ stopped \in BOOLEAN
    BY DEF Init
  <2>2. canYield \in [Items -> BOOLEAN]
    BY DEF Init
  <2>3. /\ next \in 1 .. N + 1 /\ i \in 0 .. stepSize
        /\ rounds \in [Items -> 0 .. MaxRounds] /\ finals \in [Items -> Nat]
    BY DEF Init
  <2> QED BY <2>1, <2>2, <2>3 DEF Init, TypeOK
<1>3. Conservation /\ EachOutcomeOnce
  BY DEF Init, Conservation, EachOutcomeOnce, Items
<1> QED
  BY <1>1, <1>2, <1>3 DEF Init, DInv, ConcurrencyBound, NoIdlePlace, Places, Quiet

\* The item at the source's position is in neither set, and taking it up as
\* one more context, or as one that ended at once, keeps the account.
LEMMA TakenKeeps ==
  ASSUME DInv, More, next' = next + 1
  PROVE  /\ next \in Items /\ next \notin inflight /\ next \notin ended
         /\ next' \in 1 .. N + 1
         /\ inflight' = inflight \cup {next} /\ ended' = ended => Conservation'
         /\ inflight' = inflight /\ ended' = ended \cup {next} => Conservation'
<1>1. next \in Items /\ next' \in 1 .. N + 1
  BY DEF DInv, TypeOK, More, Items
<1>2. next \notin inflight \cup ended
  BY <1>1 DEF DInv, Conservation, Items
<1>3. 1 .. next' - 1 = (1 .. next - 1) \cup {next}
  BY <1>1 DEF Items
<1> QED
  BY <1>1, <1>2, <1>3 DEF DInv, Conservation

\* A yield changes neither the account nor the types; it counts as the outcome
\* of x exactly when x has ended.
LEMMA YieldKeeps ==
  ASSUME TypeOK, NEW x \in Items, NEW may, NEW o \in Outcomes(may), Yielded(x, o)
  PROVE  /\ o.ends \in BOOLEAN
         /\ canYield' \in [Items -> BOOLEAN]
         /\ stopped' \in BOOLEAN
         /\ finals' \in [Items -> Nat]
         /\ finals' = [finals EXCEPT ![x] = IF o.ends THEN @ + 1 ELSE @]
<1>1. o.ends \in BOOLEAN /\ o.yields \in BOOLEAN /\ (o.ends => o.yields)
  BY DEF Outcomes
<1>2. canYield' \in [Items -> BOOLEAN]
  BY <1>1 DEF Yielded, TypeOK
<1>3. stopped' \in BOOLEAN
  BY DEF Yielded, TypeOK
<1>4. finals' = [finals EXCEPT ![x] = IF o.ends THEN @ + 1 ELSE @]
  BY <1>1 DEF Yielded
<1>5. finals' \in [Items -> Nat]
  BY <1>1, <1>4 DEF TypeOK
<1> QED
  BY <1>1, <1>2, <1>3, <1>4, <1>5

\* Outcomes are counted once per ended item when the item that a step ends, or
\* does not end, was not ended before.
LEMMA OutcomeCount ==
  ASSUME TypeOK, EachOutcomeOnce, NEW x \in Items, x \notin ended, NEW e \in BOOLEAN,
         finals' = [finals EXCEPT ![x] = IF e THEN @ + 1 ELSE @],
         ended' = IF e THEN ended \cup {x} ELSE ended
  PROVE  EachOutcomeOnce'
BY DEF TypeOK, EachOutcomeOnce

\* Taking one item from the source, in the fill or in doNextWork.
LEMMA TakeStep ==
  ASSUME DInv, More, next' = next + 1, rounds' = rounds,
         pc' \in {"fill", "run", "next"}, client' \in BOOLEAN, i' \in 0 .. stepSize,
         NEW o \in Outcomes(FALSE), Yielded(next, o),
         IF o.ends THEN ended' = ended \cup {next} /\ inflight' = inflight
                   ELSE inflight' = inflight \cup {next} /\ ended' = ended
  PROVE  /\ TypeOK' /\ Conservation' /\ EachOutcomeOnce' /\ Quiet'
         /\ Cardinality(inflight) \in Nat
         /\ Cardinality(inflight') =
              IF o.ends THEN Cardinality(inflight) ELSE Cardinality(inflight) + 1
<1>0. TypeOK
  BY DEF DInv
<1>1. /\ next \in Items /\ next \notin inflight /\ next \notin ended
      /\ next' \in 1 .. N + 1
  BY TakenKeeps
<1>2. Conservation'
  BY TakenKeeps
<1>3. /\ o.ends \in BOOLEAN
      /\ canYield' \in [Items -> BOOLEAN] /\ stopped' \in BOOLEAN /\ finals' \in [Items -> Nat]
      /\ finals' = [finals EXCEPT ![next] = IF o.ends THEN @ + 1 ELSE @]
  BY <1>0, <1>1, YieldKeeps
<1>4. inflight' \subseteq Items /\ ended' \subseteq Items
  BY <1>0, <1>1, <1>3 DEF TypeOK
<1>5. TypeOK'
  BY <1>0, <1>1, <1>3, <1>4 DEF TypeOK
<1>6. EachOutcomeOnce'
  BY <1>0, <1>1, <1>3, OutcomeCount DEF DInv
<1>7. inflight \in SUBSET Items
  BY <1>0 DEF TypeOK
<1>8. Cardinality(inflight) \in Nat
  BY <1>7, ItemSets
<1>9. Cardinality(inflight') =
        IF o.ends THEN Cardinality(inflight) ELSE Cardinality(inflight) + 1
  <2>1. CASE o.ends
    BY <2>1
  <2>2. CASE ~o.ends
    BY <2>2, <1>1, <1>7, ItemSets
  <2> QED BY <2>1, <2>2
<1> QED
  BY <1>2, <1>5, <1>6, <1>8, <1>9 DEF Quiet

\* addWork throws: nothing but what the consumer saw has changed.
LEMMA ThrowStep ==
  ASSUME DInv, AddWorkThrows, client' \in BOOLEAN, stopped' \in BOOLEAN,
         canYield' \in [Items -> BOOLEAN], finals' = finals,
         rounds' \in [Items -> 0 .. MaxRounds]
  PROVE  DInv'
BY DEF AddWorkThrows, DInv, TypeOK, ConcurrencyBound, Conservation, NoIdlePlace,
       EachOutcomeOnce, Places, Quiet

\* It throws for the context of the source's next item, which did not end.
LEMMA TakeThrows ==
  ASSUME DInv, More, AddWorkThrows, client' \in BOOLEAN, rounds' = rounds,
         NEW o \in Outcomes(FALSE), Yielded(next, o), ~o.ends
  PROVE  DInv'
<1>1. TypeOK /\ next \in Items
  BY DEF DInv, TypeOK, More, Items
<1>2. /\ canYield' \in [Items -> BOOLEAN] /\ stopped' \in BOOLEAN
      /\ finals' = [finals EXCEPT ![next] = IF o.ends THEN @ + 1 ELSE @]
  BY <1>1, YieldKeeps
<1>3. finals' = finals
  BY <1>1, <1>2 DEF TypeOK
<1> QED
  BY <1>1, <1>2, <1>3, ThrowStep DEF TypeOK

\* A context leaves its place.
LEMMA FinishStep ==
  ASSUME DInv, pc = "run", NEW x \in inflight, Finish(x), next' = next
  PROVE  /\ Conservation' /\ Places' /\ ConcurrencyBound' /\ NoIdlePlace' /\ Quiet'
         /\ inflight' \subseteq Items /\ ended' = ended \cup {x} /\ x \notin ended
<1>1. inflight \in SUBSET Items /\ x \in Items
  BY DEF DInv, TypeOK
<1>2. Cardinality(inflight') = Cardinality(inflight) - 1 /\ Cardinality(inflight) \in Nat
  BY <1>1, ItemSets DEF Finish
<1>3. x \notin ended
  BY DEF DInv, Conservation
<1>4. Conservation'
  BY <1>3 DEF DInv, Conservation, Finish
<1>5. pc' = "next"
  BY DEF Finish
<1> QED
  BY <1>1, <1>2, <1>3, <1>4, <1>5
  DEF DInv, Finish, Places, ConcurrencyBound, NoIdlePlace, Quiet, More, TypeOK

\* Every step preserves the invariant.
LEMMA NextDInv == DInv /\ [Next]_vars => DInv'
<1> SUFFICES ASSUME DInv, [Next]_vars PROVE DInv'
  OBVIOUS
<1>t. TypeOK /\ inflight \in SUBSET Items /\ Cardinality(inflight) \in Nat
  BY ItemSets DEF DInv, TypeOK
<1>1. CASE FillNext
  <2>1. PICK o \in Outcomes(FALSE) :
          /\ Yielded(next, o) /\ TakeUp(o, "fill")
          /\ i' = IF o.ends \/ pc' = "thrown" THEN i ELSE i + 1
          /\ client' = (client \/ ~o.ends)
    BY <1>1 DEF FillNext
  <2>2. More /\ rounds' = rounds /\ pc = "fill" /\ i < stepSize /\ client' \in BOOLEAN
    BY <1>1 DEF FillNext
  <2>3. CASE ~o.ends /\ AddWorkThrows
    BY <2>1, <2>2, <2>3, TakeThrows
  <2>4. CASE ~(~o.ends /\ AddWorkThrows)
    <3>1. /\ next' = next + 1 /\ pc' = "fill"
          /\ IF o.ends THEN ended' = ended \cup {next} /\ inflight' = inflight
                       ELSE inflight' = inflight \cup {next} /\ ended' = ended
      BY <2>1, <2>2, <2>4 DEF TakeUp, AddWork
    <3>2. i' = (IF o.ends THEN i ELSE i + 1) /\ i' \in 0 .. stepSize
      BY <2>1, <2>2, <3>1, <1>t DEF TypeOK
    <3>3. /\ TypeOK' /\ Conservation' /\ EachOutcomeOnce' /\ Quiet'
          /\ Cardinality(inflight') =
               IF o.ends THEN Cardinality(inflight) ELSE Cardinality(inflight) + 1
      BY <2>1, <2>2, <3>1, <3>2, TakeStep
    <3>4. Cardinality(inflight') = i' /\ i' <= stepSize
      BY <2>2, <3>2, <3>3 DEF DInv, Places
    <3> QED BY <3>1, <3>3, <3>4 DEF DInv, ConcurrencyBound, NoIdlePlace, Places
  <2> QED BY <2>3, <2>4
<1>2. CASE FillDone
  <2>1. /\ pc = "fill" /\ pc' = "run" /\ client' = TRUE /\ ~(i < stepSize /\ More)
        /\ UNCHANGED <<next, i, stopped, inflight, ended, canYield, rounds, finals>>
    BY <1>2 DEF FillDone
  <2>2. Cardinality(inflight) = stepSize \/ ~More
    BY <2>1, <1>t DEF DInv, Places, TypeOK
  <2> QED
    BY <2>1, <2>2 DEF DInv, TypeOK, ConcurrencyBound, Conservation, NoIdlePlace,
                      EachOutcomeOnce, Places, Quiet, More
<1>3. ASSUME NEW x \in Items, onResponse(x) PROVE DInv'
  <2>1. /\ pc = "run" /\ x \in inflight /\ x \notin ended
        /\ rounds' = [rounds EXCEPT ![x] = @ + 1]
        /\ UNCHANGED <<next, i, client>>
    BY <1>3 DEF onResponse, DInv, Conservation
  <2>2. PICK o \in Outcomes(canYield[x]) :
          \/ o.ends /\ Yielded(x, o) /\ Finish(x)
          \/ /\ ~o.ends
             /\ rounds[x] + 1 < MaxRounds
             /\ \E p \in Outcomes(o.yields) :
                  /\ canYield' = [canYield EXCEPT ![x] = p.yields]
                  /\ finals' = [finals EXCEPT ![x] = IF p.ends THEN @ + 1 ELSE @]
                  /\ \/ UNCHANGED stopped
                     \/ p.yields /\ stopped' = TRUE
                  /\ Resubmit(x, p)
    BY <1>3 DEF onResponse
  <2>3. rounds' \in [Items -> 0 .. MaxRounds]
    <3>1. rounds[x] + 1 \in 0 .. MaxRounds
      BY <1>3, <1>t DEF onResponse, TypeOK
    <3> QED BY <2>1, <3>1, <1>t DEF TypeOK
  <2>4. CASE o.ends
    <3>1. Yielded(x, o) /\ Finish(x)
      BY <2>2, <2>4
    <3>2. /\ canYield' \in [Items -> BOOLEAN] /\ stopped' \in BOOLEAN /\ finals' \in [Items -> Nat]
          /\ o.ends \in BOOLEAN
          /\ finals' = [finals EXCEPT ![x] = IF o.ends THEN @ + 1 ELSE @]
      BY <3>1, <1>t, YieldKeeps
    <3>3. /\ Conservation' /\ Places' /\ ConcurrencyBound' /\ NoIdlePlace' /\ Quiet'
          /\ inflight' \subseteq Items /\ ended' = ended \cup {x}
      BY <2>1, <3>1, FinishStep
    <3>4. EachOutcomeOnce'
      BY <2>1, <2>4, <3>2, <3>3, <1>t, OutcomeCount DEF DInv
    <3>5. TypeOK'
      BY <2>1, <2>3, <3>1, <3>2, <3>3, <1>t DEF TypeOK, Finish
    <3> QED BY <3>3, <3>4, <3>5 DEF DInv
  <2>5. CASE ~o.ends
    <3>1. PICK p \in Outcomes(o.yields) :
            /\ canYield' = [canYield EXCEPT ![x] = p.yields]
            /\ finals' = [finals EXCEPT ![x] = IF p.ends THEN @ + 1 ELSE @]
            /\ \/ UNCHANGED stopped
               \/ p.yields /\ stopped' = TRUE
            /\ Resubmit(x, p)
      BY <2>2, <2>5
    <3>2. p.ends \in BOOLEAN /\ p.yields \in BOOLEAN
      BY DEF Outcomes
    <3>3. canYield' \in [Items -> BOOLEAN]
      BY <3>1, <3>2, <1>t DEF TypeOK
    <3>4. stopped' \in BOOLEAN
      BY <3>1, <1>t DEF TypeOK
    <3>5. finals' \in [Items -> Nat]
      BY <3>1, <3>2, <1>t DEF TypeOK
    <3>7. CASE p.ends
      <4>1. Finish(x)
        BY <3>1, <3>7 DEF Resubmit
      <4>2. /\ Conservation' /\ Places' /\ ConcurrencyBound' /\ NoIdlePlace' /\ Quiet'
            /\ inflight' \subseteq Items /\ ended' = ended \cup {x}
        BY <2>1, <4>1, FinishStep
      <4>3. EachOutcomeOnce'
        BY <2>1, <3>1, <3>2, <3>7, <4>2, <1>t, OutcomeCount DEF DInv
      <4>4. TypeOK'
        BY <2>1, <3>3, <3>4, <3>5, <2>3, <4>1, <4>2, <1>t DEF TypeOK, Finish
      <4> QED BY <4>2, <4>3, <4>4 DEF DInv
    <3>8. CASE ~p.ends
      <4>1. inflight' = inflight /\ ended' = ended /\ pc' \in {"run", "thrown"}
        BY <2>1, <3>1, <3>8 DEF Resubmit, AddWork, AddWorkThrows
      <4>2. EachOutcomeOnce'
        BY <2>1, <3>1, <3>2, <3>8, <4>1, <1>t, OutcomeCount DEF DInv
      <4>3. TypeOK'
        BY <2>1, <3>3, <3>4, <3>5, <2>3, <4>1, <1>t DEF TypeOK
      <4> QED
        BY <2>1, <4>1, <4>2, <4>3
        DEF DInv, Conservation, ConcurrencyBound, NoIdlePlace, Places, Quiet, More
    <3> QED BY <3>2, <3>7, <3>8
  <2> QED BY <2>4, <2>5
<1>4. CASE doNextWork
  <2>1. CASE More
    <3>1. PICK o \in Outcomes(FALSE) : Yielded(next, o) /\ TakeUp(o, "run")
      BY <1>4, <2>1 DEF doNextWork
    <3>2. /\ pc = "next" /\ rounds' = rounds /\ client' = client /\ i' = i
          /\ client' \in BOOLEAN /\ i' \in 0 .. stepSize
      BY <1>4, <1>t DEF doNextWork, TypeOK
    <3>3. CASE ~o.ends /\ AddWorkThrows
      BY <2>1, <3>1, <3>2, <3>3, TakeThrows
    <3>4. CASE ~(~o.ends /\ AddWorkThrows)
      <4>1. /\ next' = next + 1 /\ pc' \in {"next", "run"} /\ (o.ends => pc' = "next")
            /\ (~o.ends => pc' = "run")
            /\ IF o.ends THEN ended' = ended \cup {next} /\ inflight' = inflight
                         ELSE inflight' = inflight \cup {next} /\ ended' = ended
        BY <3>1, <3>2, <3>4 DEF TakeUp, AddWork
      <4>2. /\ TypeOK' /\ Conservation' /\ EachOutcomeOnce' /\ Quiet'
            /\ Cardinality(inflight') =
                 IF o.ends THEN Cardinality(inflight) ELSE Cardinality(inflight) + 1
        BY <2>1, <3>1, <3>2, <4>1, TakeStep
      <4>3. Cardinality(inflight) = stepSize - 1
        BY <2>1, <3>2 DEF DInv, Places
      <4>4. CASE o.ends
        BY <3>2, <4>1, <4>2, <4>3, <4>4 DEF DInv, ConcurrencyBound, NoIdlePlace, Places
      <4>5. CASE ~o.ends
        BY <3>2, <4>1, <4>2, <4>3, <4>5 DEF DInv, ConcurrencyBound, NoIdlePlace, Places
      <4> QED BY <4>4, <4>5
    <3> QED BY <3>3, <3>4
  <2>2. CASE ~More
    <3>1. /\ pc = "next" /\ pc' = "run"
          /\ UNCHANGED <<next, i, client, stopped, inflight, ended, canYield, rounds, finals>>
      BY <1>4, <2>2 DEF doNextWork
    <3> QED
      BY <3>1, <2>2 DEF DInv, TypeOK, ConcurrencyBound, Conservation, NoIdlePlace,
                        EachOutcomeOnce, Places, Quiet, More
  <2> QED BY <2>1, <2>2
<1>5. CASE runReturns
  <2>1. /\ pc = "run" /\ pc' = "done" /\ client' = FALSE /\ (stopped \/ inflight = {})
        /\ UNCHANGED <<next, i, stopped, inflight, ended, canYield, rounds, finals>>
    BY <1>5 DEF runReturns
  <2>2. ~stopped => inflight = {} /\ ~More
    <3>1. inflight = {} => Cardinality(inflight) = 0
      BY <1>t, ItemSets
    <3> QED BY <2>1, <3>1 DEF DInv, NoIdlePlace
  <2> QED
    BY <2>1, <2>2 DEF DInv, TypeOK, ConcurrencyBound, Conservation, NoIdlePlace,
                      EachOutcomeOnce, Places, Quiet, More
<1>6. CASE Finished \/ UNCHANGED vars
  BY <1>6 DEF Finished, vars, DInv, TypeOK, ConcurrencyBound, Conservation, NoIdlePlace,
              EachOutcomeOnce, Places, Quiet, More
<1>7. CASE delayedThrows
  BY <1>7, <1>t, ThrowStep DEF delayedThrows, TypeOK
<1> QED
  BY <1>1, <1>2, <1>3, <1>4, <1>5, <1>6, <1>7 DEF Next

\* The invariant holds throughout.
THEOREM DInvCorrect == Spec => []DInv
BY InitDInv, NextDInv, PTL DEF Spec

\* For every source length and stepSize at most stepSize sessions exist, no place
\* is lost while the source has items, and every item given out is accounted for
\* and its outcome reported once.
THEOREM PoolInvCorrect == Spec => []PoolInv
<1>1. DInv => PoolInv
  BY DEF DInv, PoolInv
<1> QED BY <1>1, DInvCorrect, PTL

\* A run that was not stopped has ended every item of the source.
THEOREM CompletionCorrect == Spec => []DoneMeansAll
<1>1. DInv => DoneMeansAll
  <2> SUFFICES ASSUME DInv, pc = "done", ~stopped PROVE ended = Items
    BY DEF DoneMeansAll
  <2>1. inflight = {} /\ ~More /\ next \in 1 .. N + 1
    BY DEF DInv, Quiet, TypeOK
  <2>2. next - 1 = N
    BY <2>1 DEF More
  <2> QED BY <2>1, <2>2 DEF DInv, Conservation, Items
<1> QED BY <1>1, DInvCorrect, PTL

-----------------------------------------------------------------------------
\* The pool counts with the same Cardinality.
LEMMA SameCardinality == ASSUME NEW S PROVE P!Cardinality(S) = Cardinality(S)
BY DEF P!Cardinality, Cardinality

\* Taking up the item at the source's position is the pool's Admit or Dismiss.
LEMMA TakeRefines ==
  ASSUME DInv, More, next' = next + 1, NEW e \in BOOLEAN, e \/ Cardinality(inflight) < stepSize,
         IF e THEN ended' = ended \cup {next} /\ inflight' = inflight
              ELSE inflight' = inflight \cup {next} /\ ended' = ended
  PROVE  P!PoolNext
<1>1. next \in Items /\ next \in next .. N
  BY TakenKeeps DEF More, Items
<1>2. next' .. N = (next .. N) \ {next}
  BY <1>1 DEF Items
<1>3. CASE e
  BY <1>1, <1>2, <1>3 DEF P!PoolNext, P!Dismiss
<1>4. CASE ~e
  BY <1>1, <1>2, <1>4, SameCardinality DEF P!PoolNext, P!Admit
<1> QED BY <1>3, <1>4

\* So is what the driver makes of the context of that item, unless addWork throws.
LEMMA TakeUpRefines ==
  ASSUME DInv, More, Cardinality(inflight) < stepSize,
         NEW o \in Outcomes(FALSE), NEW then, TakeUp(o, then)
  PROVE  P!PoolNext \/ UNCHANGED <<next, inflight, ended>>
<1>1. o.ends \in BOOLEAN
  BY DEF Outcomes
<1>2. CASE AddWorkThrows
  BY <1>2 DEF AddWorkThrows
<1>3. CASE next' = next + 1 /\ IF o.ends THEN ended' = ended \cup {next} /\ inflight' = inflight
                                        ELSE inflight' = inflight \cup {next} /\ ended' = ended
  BY <1>1, <1>3, TakeRefines
<1> QED
  BY <1>1, <1>2, <1>3 DEF TakeUp, AddWork

\* Every step of the driver is a step of the pool or invisible to it.
LEMMA StepRefines == DInv /\ [Next]_vars => [P!PoolNext]_(P!poolVars)
<1> SUFFICES ASSUME DInv, [Next]_vars
             PROVE  P!PoolNext \/ UNCHANGED <<next, inflight, ended>>
  BY DEF P!poolVars
<1>1. CASE FillNext
  <2>1. PICK o \in Outcomes(FALSE) : TakeUp(o, "fill")
    BY <1>1 DEF FillNext
  <2>2. More /\ Cardinality(inflight) < stepSize
    BY <1>1 DEF FillNext, DInv, Places
  <2> QED BY <2>1, <2>2, TakeUpRefines
<1>2. CASE FillDone
  BY <1>2 DEF FillDone
<1>3. ASSUME NEW x \in Items, onResponse(x) PROVE P!PoolNext \/ UNCHANGED <<next, inflight, ended>>
  <2>1. x \in inflight /\ next' = next
    BY <1>3 DEF onResponse
  <2>2. CASE Finish(x)
    BY <2>1, <2>2 DEF Finish, P!PoolNext, P!Finish
  <2>3. CASE AddWork(x, "run") \/ AddWorkThrows
    BY <2>1, <2>3 DEF AddWork, AddWorkThrows
  <2>4. Finish(x) \/ AddWork(x, "run") \/ AddWorkThrows
    BY <1>3 DEF onResponse, Resubmit
  <2> QED BY <2>2, <2>3, <2>4
<1>4. CASE doNextWork
  <2>1. CASE More
    <3>1. PICK o \in Outcomes(FALSE) : TakeUp(o, "run")
      BY <1>4, <2>1 DEF doNextWork
    <3>2. Cardinality(inflight) < stepSize
      <4>1. Cardinality(inflight) = stepSize - 1
        BY <1>4, <2>1 DEF doNextWork, DInv, Places
      <4> QED BY <4>1
    <3> QED BY <2>1, <3>1, <3>2, TakeUpRefines
  <2>2. CASE ~More
    BY <1>4, <2>2 DEF doNextWork
  <2> QED BY <2>1, <2>2
<1>5. CASE runReturns
  BY <1>5 DEF runReturns
<1>6. CASE Finished \/ UNCHANGED vars
  BY <1>6 DEF Finished, vars
<1>7. CASE delayedThrows
  BY <1>7 DEF delayedThrows, AddWorkThrows
<1> QED
  BY <1>1, <1>2, <1>3, <1>4, <1>5, <1>6, <1>7 DEF Next

\* The driver implements the abstract work pool for every source and stepSize.
THEOREM DriverRefinesPool == Spec => ImplementsPool
<1>1. Init => P!PoolInit
  BY DEF Init, P!PoolInit, Items
<1> QED
  BY <1>1, StepRefines, DInvCorrect, PTL DEF Spec, ImplementsPool, P!Pool

-----------------------------------------------------------------------------
(***************************************************************************)
(* IpGenerator: one range.                                                  *)
(***************************************************************************)

HIDE NAssumption
HIDE StepSizeAssumption
HIDE MaxRoundsAssumption

\* The constructor returns a generator whose end is below 255.255.255.255 and
\* whose begin is at most one past it, whatever the two ends of the text.
LEMMA ConstructorBounds ==
  ASSUME NEW b \in Generator!IPs, NEW e \in Generator!IPs
  PROVE  /\ Generator!IpGenerator(b, e) \in Generator!Generators
         /\ Generator!IpGenerator(b, e).end < Top
         /\ Generator!IpGenerator(b, e).begin <= Generator!IpGenerator(b, e).end + 1
BY TopAssumption DEF Generator!IpGenerator, Generator!Generators, Generator!IPs

\* ipLongBegin_++ does not wrap while the generator has an address left.
LEMMA AdvanceStep ==
  ASSUME NEW g \in Generator!Generators, g.end < Top, Generator!hasNext(g)
  PROVE  /\ Generator!Advance(g) \in Generator!Generators
         /\ Generator!Advance(g).begin = g.begin + 1
         /\ Generator!Advance(g).end = g.end
BY TopAssumption DEF Generator!Advance, Generator!Generators, Generator!IPs, Generator!hasNext

\* The initial states satisfy the inductive invariant.
LEMMA GeneratorInit == Generator!Init => Generator!IInv
<1> SUFFICES ASSUME Generator!Init PROVE Generator!IInv
  OBVIOUS
<1>1. PICK b \in Generator!IPs, e \in Generator!IPs : gen = Generator!IpGenerator(b, e)
  BY DEF Generator!Init
<1>2. /\ gen \in Generator!Generators
      /\ gen.end < Top
      /\ gen.begin <= gen.end + 1
  BY <1>1, ConstructorBounds
<1>3. Generator!TypeOK
  <2>1. first \in Generator!IPs /\ 0 \in Generator!IPs
    BY <1>2, TopAssumption DEF Generator!Init, Generator!Generators, Generator!IPs
  <2>2. k \in Nat /\ drops \in 0 .. MaxDrops
    BY MaxDropsAssumption DEF Generator!Init
  <2>3. redo \in BOOLEAN
    BY DEF Generator!Init
  <2>4. val \in Generator!IPs /\ taken \in SUBSET Generator!IPs /\ again \in SUBSET Generator!IPs
    BY <2>1 DEF Generator!Init
  <2>5. src \in Generator!SourceStates /\ step \in Steps \cup {Generator!Unlimited}
    BY DEF Generator!Init, Generator!SourceStates
  <2> QED
    BY <1>2, <2>1, <2>2, <2>3, <2>4, <2>5 DEF Generator!TypeOK
<1>4. Generator!NoWrap
  BY <1>2 DEF Generator!NoWrap
<1>5. Generator!NothingSkipped
  BY <1>2 DEF Generator!NothingSkipped, Generator!Init, Generator!Generators, Generator!IPs
<1>6. Generator!OnceUnlessAbandoned /\ Generator!SourceHoldsBegin
  BY <1>2 DEF Generator!Generators, Generator!IPs, Generator!Init, Generator!OnceUnlessAbandoned, Generator!SourceHoldsBegin
<1> QED
  BY <1>3, <1>4, <1>5, <1>6 DEF Generator!IInv

\* Every step of the client preserves the inductive invariant.
LEMMA GeneratorNext == Generator!IInv /\ [Generator!Next]_(Generator!vars) => Generator!IInv'
<1> SUFFICES ASSUME Generator!IInv, [Generator!Next]_(Generator!vars) PROVE Generator!IInv'
  OBVIOUS
<1> USE DEF Generator!IInv
<1>t. /\ gen \in Generator!Generators /\ gen.begin \in Nat /\ gen.end \in Nat
      /\ gen.end < Top /\ Top \in Nat /\ first \in Nat /\ first \in Generator!IPs
  BY TopAssumption DEF Generator!TypeOK, Generator!NoWrap, Generator!Generators, Generator!IPs
<1>1. ASSUME NEW s \in Steps \cup {Generator!Unlimited}, Generator!genIpRange(s) PROVE Generator!IInv'
  <2>1. Generator!TypeOK'
    BY <1>1, <1>t DEF Generator!genIpRange, Generator!RunTo, Generator!LoopTest, Generator!TypeOK, Generator!SourceStates, Generator!Generators
  <2>2. Generator!NoWrap' /\ Generator!NothingSkipped' /\ Generator!OnceUnlessAbandoned'
    BY <1>1 DEF Generator!genIpRange, Generator!RunTo, Generator!NoWrap, Generator!NothingSkipped, Generator!OnceUnlessAbandoned
  <2>3. Generator!SourceHoldsBegin'
    BY <1>1 DEF Generator!genIpRange, Generator!RunTo, Generator!LoopTest, Generator!SourceHoldsBegin, Generator!hasNext
  <2> QED BY <2>1, <2>2, <2>3
<1>2. CASE Generator!Take
  <2>0. val = gen.begin /\ Generator!hasNext(gen) /\ gen.begin \in Generator!IPs
    BY <1>2, <1>t DEF Generator!Take, Generator!SourceHoldsBegin, Generator!Generators
  <2>1. Generator!TypeOK'
    BY <1>2, <2>0 DEF Generator!Take, Generator!Deliver, Generator!TypeOK, Generator!SourceStates
  <2>2. Generator!NoWrap'
    BY <1>2 DEF Generator!Take, Generator!NoWrap
  <2>3. Generator!NothingSkipped'
    <3>1. first <= gen.begin /\ gen.begin <= gen.end
      BY <2>0 DEF Generator!SourceHoldsBegin, Generator!hasNext
    <3>2. gen.begin \in first .. gen.begin /\ gen.begin \in first .. gen.end
      BY <3>1, <1>t
    <3> QED
      BY <1>2, <2>0, <3>2 DEF Generator!Take, Generator!Deliver, Generator!NothingSkipped
  <2>4. Generator!OnceUnlessAbandoned'
    BY <1>2, <2>0 DEF Generator!Take, Generator!Deliver, Generator!OnceUnlessAbandoned, Generator!SourceHoldsBegin
  <2>5. Generator!SourceHoldsBegin'
    BY <1>2, <2>0 DEF Generator!Take, Generator!Deliver, Generator!SourceHoldsBegin, Generator!hasNext
  <2> QED BY <2>1, <2>2, <2>3, <2>4, <2>5
<1>3. CASE Generator!Resume
  <2>0. /\ Generator!hasNext(gen) /\ gen.begin \in taken
        /\ gen' = Generator!Advance(gen) /\ taken' = taken /\ first' = first
    BY <1>3 DEF Generator!Resume, Generator!SourceHoldsBegin
  <2>1. gen' \in Generator!Generators /\ gen'.begin = gen.begin + 1 /\ gen'.end = gen.end
    BY <2>0, <1>t, AdvanceStep
  <2>2. Generator!TypeOK'
    <3>1. gen'.begin \in Generator!IPs /\ Generator!Advance(gen).begin \in Generator!IPs
      BY <2>0, <2>1 DEF Generator!Generators
    <3> QED
      BY <1>3, <2>1, <3>1 DEF Generator!Resume, Generator!RunTo, Generator!TypeOK, Generator!SourceStates
  <2>3. Generator!NoWrap'
    BY <1>t, <2>0, <2>1 DEF Generator!NoWrap, Generator!hasNext
  <2>4. Generator!NothingSkipped' /\ gen'.begin \notin taken' /\ first' <= gen'.begin
    BY <1>t, <2>0, <2>1 DEF Generator!NothingSkipped, Generator!hasNext, Generator!SourceHoldsBegin
  <2>5. Generator!OnceUnlessAbandoned'
    BY <1>3 DEF Generator!Resume, Generator!OnceUnlessAbandoned
  <2>6. Generator!SourceHoldsBegin'
    BY <1>3, <2>0, <2>4 DEF Generator!Resume, Generator!RunTo, Generator!LoopTest, Generator!SourceHoldsBegin, Generator!hasNext
  <2> QED BY <2>2, <2>3, <2>4, <2>5, <2>6
<1>4. CASE Generator!Drop
  <2>1. Generator!TypeOK'
    <3>1. drops' \in 0 .. MaxDrops
      BY <1>4, MaxDropsAssumption DEF Generator!Drop, Generator!TypeOK
    <3>2. redo' \in BOOLEAN
      BY <1>4 DEF Generator!Drop
    <3> QED
      BY <1>4, <3>1, <3>2 DEF Generator!Drop, Generator!TypeOK, Generator!SourceStates
  <2>2. Generator!NoWrap' /\ Generator!NothingSkipped'
    BY <1>4 DEF Generator!Drop, Generator!NoWrap, Generator!NothingSkipped
  <2>3. Generator!OnceUnlessAbandoned'
    BY <1>4 DEF Generator!Drop, Generator!OnceUnlessAbandoned
  <2>4. Generator!SourceHoldsBegin'
    BY <1>4 DEF Generator!Drop, Generator!SourceHoldsBegin
  <2> QED BY <2>1, <2>2, <2>3, <2>4
<1>5. CASE Generator!next
  <2>0. /\ Generator!hasNext(gen) /\ gen.begin \in Generator!IPs
        /\ gen' = Generator!Advance(gen) /\ taken' = taken \cup {gen.begin} /\ first' = first
    BY <1>5, <1>t DEF Generator!next, Generator!Deliver, Generator!Generators
  <2>1. gen' \in Generator!Generators /\ gen'.begin = gen.begin + 1 /\ gen'.end = gen.end
    BY <2>0, <1>t, AdvanceStep
  <2>2. Generator!TypeOK'
    BY <1>5, <2>0, <2>1 DEF Generator!next, Generator!Deliver, Generator!TypeOK
  <2>3. Generator!NoWrap'
    BY <1>t, <2>0, <2>1 DEF Generator!NoWrap, Generator!hasNext
  <2>4. Generator!NothingSkipped' /\ gen'.begin \notin taken' /\ first' <= gen'.begin
    <3>1. first <= gen.begin /\ gen.begin <= gen.end
      BY <2>0 DEF Generator!SourceHoldsBegin, Generator!hasNext
    <3>2. first' .. gen'.begin - 1 \subseteq taken'
      BY <1>t, <2>0, <2>1, <3>1 DEF Generator!NothingSkipped
    <3>3. taken' \subseteq first' .. gen.begin /\ taken' \subseteq first' .. gen'.end
      <4>1. gen.begin \in first .. gen.begin /\ gen.begin \in first .. gen.end
        BY <1>t, <3>1
      <4> QED
        BY <2>0, <2>1, <4>1 DEF Generator!NothingSkipped
    <3>4. taken' \subseteq first' .. gen'.begin /\ gen'.begin \notin taken'
      BY <1>t, <2>0, <2>1, <3>3
    <3> QED
      BY <1>t, <2>0, <2>1, <3>1, <3>2, <3>3, <3>4 DEF Generator!NothingSkipped
  <2>5. Generator!OnceUnlessAbandoned'
    BY <1>5 DEF Generator!next, Generator!Deliver, Generator!OnceUnlessAbandoned, Generator!SourceHoldsBegin
  <2>6. Generator!SourceHoldsBegin'
    BY <1>5, <2>4 DEF Generator!next, Generator!SourceHoldsBegin
  <2> QED BY <2>2, <2>3, <2>4, <2>5, <2>6
<1>6. CASE UNCHANGED Generator!vars
  BY <1>6 DEF Generator!vars, Generator!TypeOK, Generator!NoWrap, Generator!NothingSkipped, Generator!OnceUnlessAbandoned,
              Generator!SourceHoldsBegin, Generator!hasNext
<1> QED
  BY <1>1, <1>2, <1>3, <1>4, <1>5, <1>6 DEF Generator!Next

\* In the inductive invariant getIpNumber() is the number of addresses left.
LEMMA NumberOfLeft == Generator!IInv => Generator!NumberIsRemaining
<1>1. ASSUME NEW n \in Int, 0 <= n, n <= Top PROVE n % (Top + 1) = n
  BY <1>1, TopAssumption
<1> SUFFICES ASSUME Generator!IInv PROVE Generator!NumberIsRemaining
  OBVIOUS
<1>2. /\ gen.begin \in Nat /\ gen.end \in Nat /\ Top \in Nat
      /\ gen.end < Top /\ gen.begin <= gen.end + 1
  BY TopAssumption DEF Generator!IInv, Generator!TypeOK, Generator!NoWrap, Generator!Generators, Generator!IPs
<1>3. 0 <= gen.end - gen.begin + 1 /\ gen.end - gen.begin + 1 <= Top
  BY <1>2
<1>4. Generator!getIpNumber(gen) = gen.end - gen.begin + 1
  BY <1>1, <1>2, <1>3 DEF Generator!getIpNumber
<1> QED
  BY <1>2, <1>4 DEF Generator!NumberIsRemaining, Generator!hasNext

\* For every width and every succession of batches, calls of next() between them
\* and abandoned sources, the loop over a range does not wrap round, no address is skipped, none is
\* repeated unless a source was abandoned between get() and its resumption,
\* and getIpNumber(), in modular arithmetic, is the number of addresses left.
THEOREM GeneratorCorrect == MCSpec => []GeneratorInv
<1>1. MCInit => Generator!IInv
  BY GeneratorInit DEF MCInit
<1>2. Generator!IInv /\ [MCNext]_<<vars, generator, group, object>> => Generator!IInv'
  BY GeneratorNext DEF MCNext, generator, Generator!vars
<1>3. Generator!IInv => GeneratorInv
  BY NumberOfLeft DEF GeneratorInv, Generator!GeneratorInv
<1> QED
  BY <1>1, <1>2, <1>3, PTL DEF MCSpec

-----------------------------------------------------------------------------
(***************************************************************************)
(* IpGeneratorGroup: a list of ranges and its running total.                *)
(***************************************************************************)

USE GroupAssumption

\* A set of numbers that has 0 and with every number the next has all.
LEMMA Numbers ==
  ASSUME NEW A, 0 \in A, \A n \in Nat : n \in A => n + 1 \in A
  PROVE  Nat \subseteq A
<1> SUFFICES ASSUME NEW n \in Nat, n \notin A PROVE FALSE
  OBVIOUS
<1> DEFINE S == A \cap (0 .. n)
           f == [x \in S |-> x + 1]
<1>1. f \in [S -> S]
  OBVIOUS
<1>2. f \in Injection(S, S)
  BY <1>1 DEF Injection, IsInjective
<1>3. IsFiniteSet(S)
  <2>1. IsFiniteSet(0 .. n) /\ S \subseteq 0 .. n
    BY FS_Interval
  <2> QED
    BY <2>1, FS_Subset
<1>4. f \in Surjection(S, S)
  <2> HIDE DEF f, S
  <2> QED
    BY <1>2, <1>3, FS_Injection
<1>5. 0 \in S
  OBVIOUS
<1>6. \E x \in S : f[x] = 0
  <2> HIDE DEF f, S
  <2> QED
    BY <1>4, <1>5 DEF Surjection
<1> QED
  BY <1>6

-----------------------------------------------------------------------------
\* Generators that are not spent and whose loop cannot wrap round, lists of them,
\* and how many addresses one has.
Unspent == {g \in Group!Generators : Group!hasNext(g) /\ g.end < GroupTop}
Lists == Seq(Unspent)
Size(g) == g.end - g.begin + 1

\* q has the addresses of gs one generator after the other, cut at c.
Cuts(gs, q, c) ==
  /\ c \in [0 .. Len(gs) -> Nat] /\ c[0] = 0 /\ c[Len(gs)] = Len(q)
  /\ \A j \in 1 .. Len(gs) : c[j] = c[j - 1] + Size(gs[j])
  /\ \A j \in 1 .. Len(gs) : \A m \in 1 .. Size(gs[j]) : q[c[j - 1] + m] = gs[j].begin + m - 1

LEMMA FunctionSeq ==
  ASSUME NEW n \in Nat, NEW S, NEW s \in [1 .. n -> S]
  PROVE  s \in Seq(S) /\ Len(s) = n
OBVIOUS

LEMMA SplitSeq ==
  ASSUME NEW S, NEW q \in Seq(S), NEW a \in Seq(S), NEW m \in Nat,
         m + Len(a) <= Len(q), \A n \in 1 .. Len(a) : q[m + n] = a[n]
  PROVE  SubSeq(q, 1, m + Len(a)) = SubSeq(q, 1, m) \o a
<1> DEFINE s == SubSeq(q, 1, m + Len(a))
           t == SubSeq(q, 1, m)
<1>0. /\ Len(q) \in Nat /\ Len(a) \in Nat /\ m <= Len(q)
      /\ \A n \in 1 .. Len(q) : q[n] \in S
  OBVIOUS
<1>1. s \in Seq(S) /\ Len(s) = m + Len(a) /\ \A n \in 1 .. m + Len(a) : s[n] = q[n]
  BY <1>0
<1>2. t \in Seq(S) /\ Len(t) = m /\ \A n \in 1 .. m : t[n] = q[n]
  BY <1>0
<1> HIDE DEF s, t
<1>3. /\ t \o a \in Seq(S) /\ Len(t \o a) = m + Len(a)
      /\ \A n \in 1 .. m + Len(a) : (t \o a)[n] = IF n <= m THEN t[n] ELSE a[n - m]
  BY <1>2, ConcatProperties
<1>4. \A n \in 1 .. m + Len(a) : s[n] = (t \o a)[n]
  <2> SUFFICES ASSUME NEW n \in 1 .. m + Len(a) PROVE s[n] = (t \o a)[n]
    OBVIOUS
  <2>1. CASE n <= m
    BY <1>0, <1>1, <1>2, <1>3, <2>1
  <2>2. CASE ~(n <= m)
    <3>1. n - m \in 1 .. Len(a) /\ m + (n - m) = n
      BY <1>0, <2>2
    <3> QED
      BY <1>1, <1>3, <2>2, <3>1
  <2> QED
    BY <2>1, <2>2
<1>5. s = t \o a
  BY <1>0, <1>1, <1>3, <1>4, SeqEqual
<1> QED
  BY <1>5 DEF s, t

\* The group counts sets with the operator the theorems are about.
LEMMA GroupCardinality == ASSUME NEW S PROVE Group!Cardinality(S) = Cardinality(S)
BY DEF Group!Cardinality, Cardinality, Group!IsFiniteSet, IsFiniteSet

LEMMA GeneratorSize ==
  ASSUME NEW g \in Unspent
  PROVE  /\ g.begin \in 0 .. GroupTop /\ g.end \in 0 .. GroupTop
         /\ Size(g) \in Nat \ {0}
         /\ Group!Addresses(g) \in Seq(Group!IPs) /\ Len(Group!Addresses(g)) = Size(g)
         /\ \A m \in 1 .. Size(g) : Group!Addresses(g)[m] = g.begin + m - 1
<1>1. /\ g.begin \in 0 .. GroupTop /\ g.end \in 0 .. GroupTop /\ g.begin <= g.end
      /\ Size(g) \in Nat \ {0} /\ Size(g) = g.end - g.begin + 1
  BY DEF Unspent, Group!Generators, Group!IPs, Group!hasNext, Size
<1>2. Cardinality(Group!Remaining(g)) = Size(g)
  <2>1. g.begin \in Int /\ g.end \in Int /\ ~(g.begin > g.end)
    BY <1>1
  <2>2. Cardinality(g.begin .. g.end) = IF g.begin > g.end THEN 0 ELSE g.end - g.begin + 1
    BY <2>1, FS_Interval
  <2> QED
    BY <1>1, <2>1, <2>2 DEF Group!Remaining
<1>3. \A m \in 1 .. Size(g) : g.begin + m - 1 \in Group!IPs
  BY <1>1 DEF Group!IPs
<1>4. Group!Addresses(g) = [m \in 1 .. Size(g) |-> g.begin + m - 1]
  BY <1>2, GroupCardinality DEF Group!Addresses
<1>5. [m \in 1 .. Size(g) |-> g.begin + m - 1] \in [1 .. Size(g) -> Group!IPs]
  BY <1>3
<1> QED
  BY <1>1, <1>4, <1>5, FunctionSeq

\* ipLongBegin_++ does not wrap while a generator that cannot wrap has an address.
LEMMA AdvanceUnspent ==
  ASSUME NEW g \in Unspent
  PROVE  /\ Size(g) = 1 <=> ~Group!hasNext(Group!Advance(g))
         /\ Size(g) # 1 => /\ Group!Advance(g) \in Unspent
                          /\ Group!Advance(g).begin = g.begin + 1
                          /\ Size(Group!Advance(g)) = Size(g) - 1
<1>1. /\ g.begin \in Nat /\ g.end \in Nat /\ g.begin <= g.end /\ g.end < GroupTop
      /\ g \in Group!Generators
  BY DEF Unspent, Group!Generators, Group!IPs, Group!hasNext
<1>2. (g.begin + 1) % (GroupTop + 1) = g.begin + 1
  BY <1>1
<1>3. Group!Advance(g) = [g EXCEPT !.begin = g.begin + 1]
  BY <1>2 DEF Group!Advance
<1> QED
  BY <1>1, <1>3 DEF Unspent, Group!Generators, Group!IPs, Group!hasNext, Size

\* The cuts are within q, and none but the first is at 0.
LEMMA CutsWithin ==
  ASSUME NEW gs \in Lists, NEW q, Len(q) \in Nat, NEW c, Cuts(gs, q, c)
  PROVE  /\ \A j \in 0 .. Len(gs) : c[j] \in Nat /\ c[j] <= Len(q)
         /\ \A j \in 1 .. Len(gs) : c[j] >= 1
<1> DEFINE D == 0 .. Len(gs)
<1>0. /\ Len(gs) \in Nat /\ \A j \in 1 .. Len(gs) : gs[j] \in Unspent
  BY DEF Lists
<1>1. \A j \in D : c[j] \in Nat /\ c[j] <= Len(q)
  <2> DEFINE A == {n \in Nat : n \in D => c[Len(gs) - n] <= Len(q)}
  <2>0. \A j \in D : c[j] \in Nat
    BY DEF Cuts
  <2>1. 0 \in A
    BY <1>0 DEF Cuts
  <2>2. ASSUME NEW n \in Nat, n \in A PROVE n + 1 \in A
    <3>1. CASE n + 1 \in D
      <4> DEFINE j == Len(gs) - n
      <4>1. j \in 1 .. Len(gs) /\ j - 1 = Len(gs) - (n + 1) /\ n \in D /\ j \in D /\ j - 1 \in D
        BY <1>0, <3>1
      <4>2. c[j] = c[j - 1] + Size(gs[j]) /\ Size(gs[j]) \in Nat /\ c[j] <= Len(q)
        BY <1>0, <2>2, <4>1, GeneratorSize DEF Cuts
      <4>3. c[j - 1] <= Len(q)
        <5> HIDE DEF j
        <5> QED
          BY <2>0, <4>1, <4>2
      <4> QED
        BY <4>1, <4>3
    <3> QED
      BY <3>1
  <2>3. Nat \subseteq A
    <3> HIDE DEF A
    <3> QED
      BY <2>1, <2>2, Numbers
  <2>4. ASSUME NEW j \in D PROVE c[j] <= Len(q)
    <3>1. Len(gs) - j \in Nat /\ Len(gs) - j \in D /\ Len(gs) - (Len(gs) - j) = j
      BY <1>0
    <3> QED
      BY <2>3, <3>1
  <2> QED
    BY <2>0, <2>4
<1>2. ASSUME NEW j \in 1 .. Len(gs) PROVE c[j] >= 1
  <2>1. j - 1 \in D /\ c[j] = c[j - 1] + Size(gs[j]) /\ Size(gs[j]) \in Nat \ {0}
    BY <1>0, GeneratorSize DEF Cuts
  <2>2. c[j - 1] \in Nat
    BY <1>1, <2>1
  <2> QED
    BY <2>1, <2>2
<1> QED
  BY <1>1, <1>2

\* Flatten is the one sequence that can be cut so.
LEMMA FlattenOfCuts ==
  ASSUME NEW gs \in Lists, NEW q \in Seq(Group!IPs), NEW c, Cuts(gs, q, c)
  PROVE  Group!Flatten(gs) = q
<1> DEFINE D == 0 .. Len(gs)
           Body(f) == [j \in D |-> IF j = 0 THEN << >> ELSE f[j - 1] \o Group!Addresses(gs[j])]
           G == [j \in D |-> SubSeq(q, 1, c[j])]
           F == CHOOSE f : f = Body(f)
<1>0. /\ Len(gs) \in Nat /\ \A j \in 1 .. Len(gs) : gs[j] \in Unspent
  BY DEF Lists
<1>1. \A j \in D : c[j] \in Nat /\ c[j] <= Len(q)
  BY CutsWithin
<1>2. G = Body(G)
  <2>1. G[0] = << >>
    BY <1>0 DEF Cuts
  <2>2. ASSUME NEW j \in D \ {0} PROVE G[j] = G[j - 1] \o Group!Addresses(gs[j])
    <3> DEFINE a == Group!Addresses(gs[j])
    <3>0. /\ j \in 1 .. Len(gs) /\ j - 1 \in D
          /\ c[j - 1] \in Nat /\ c[j] \in Nat /\ c[j] <= Len(q) /\ Len(q) \in Nat
      BY <1>0, <1>1
    <3>1. /\ a \in Seq(Group!IPs) /\ Len(a) = Size(gs[j])
          /\ \A m \in 1 .. Size(gs[j]) : a[m] = gs[j].begin + m - 1
          /\ Size(gs[j]) \in Nat
      BY <1>0, <3>0, GeneratorSize
    <3>2. c[j] = c[j - 1] + Len(a) /\ \A m \in 1 .. Len(a) : q[c[j - 1] + m] = a[m]
      BY <3>0, <3>1 DEF Cuts
    <3> HIDE DEF a
    <3>3. SubSeq(q, 1, c[j]) = SubSeq(q, 1, c[j - 1]) \o a
      BY <3>0, <3>1, <3>2, SplitSeq
    <3> QED
      BY <3>0, <3>3 DEF a
  <2> QED
    BY <2>1, <2>2
<1>3. F = Body(F)
  BY <1>2
<1>r. /\ F[0] = << >> /\ G[0] = << >>
      /\ \A j \in D \ {0} : /\ F[j] = F[j - 1] \o Group!Addresses(gs[j])
                            /\ G[j] = G[j - 1] \o Group!Addresses(gs[j])
  <2> HIDE DEF F, G
  <2>1. 0 \in D
    BY <1>0
  <2>2. F[0] = << >> /\ G[0] = << >>
    BY <1>2, <1>3, <2>1 DEF D
  <2>3. ASSUME NEW j \in D, j # 0 PROVE F[j] = F[j - 1] \o Group!Addresses(gs[j])
    <3>1. F[j] = Body(F)[j]
      BY <1>3
    <3> QED
      BY <2>3, <3>1
  <2>4. ASSUME NEW j \in D, j # 0 PROVE G[j] = G[j - 1] \o Group!Addresses(gs[j])
    <3>1. G[j] = Body(G)[j]
      BY <1>2
    <3> QED
      BY <2>4, <3>1
  <2> QED
    BY <2>2, <2>3, <2>4
<1>4. \A n \in Nat : n \in D => F[n] = G[n]
  <2> DEFINE A == {n \in Nat : n \in D => F[n] = G[n]}
  <2> HIDE DEF F, G
  <2>1. 0 \in A
    BY <1>r
  <2>2. ASSUME NEW n \in Nat, n \in A PROVE n + 1 \in A
    <3>1. CASE n + 1 \in D
      <4>1. n \in D /\ F[n] = G[n] /\ n + 1 \in D \ {0} /\ (n + 1) - 1 = n
        BY <1>0, <2>2, <3>1
      <4>2. /\ F[n + 1] = F[n] \o Group!Addresses(gs[n + 1])
            /\ G[n + 1] = G[n] \o Group!Addresses(gs[n + 1])
        BY <1>r, <4>1
      <4>3. F[n + 1] = G[n + 1]
        BY <4>1, <4>2
      <4> QED
        BY <4>3
    <3> QED
      BY <3>1
  <2>3. Nat \subseteq A
    <3> HIDE DEF A
    <3> QED
      BY <2>1, <2>2, Numbers
  <2> QED
    BY <2>3
<1>5. Group!Flatten(gs) = F[Len(gs)]
  BY DEF Group!Flatten
<1>6. G[Len(gs)] = q
  BY <1>0, SubSeqFull DEF Cuts
<1> HIDE DEF F, G
<1> QED
  BY <1>0, <1>4, <1>5, <1>6

LEMMA AppendCuts ==
  ASSUME NEW gs \in Lists, NEW q \in Seq(Group!IPs), NEW c, Cuts(gs, q, c),
         NEW g \in Unspent
  PROVE  /\ Append(gs, g) \in Lists
         /\ q \o Group!Addresses(g) \in Seq(Group!IPs)
         /\ \E d : Cuts(Append(gs, g), q \o Group!Addresses(g), d)
<1> DEFINE L == Len(gs)
           d == [j \in 0 .. L + 1 |-> IF j <= L THEN c[j] ELSE Len(q) + Size(g)]
           a == Group!Addresses(g)
           hs == Append(gs, g)
           r == q \o a
<1>1. /\ L \in Nat /\ hs \in Seq(Unspent) /\ Len(hs) = L + 1
      /\ \A j \in 1 .. L : hs[j] = gs[j]
      /\ hs[L + 1] = g
      /\ \A j \in 1 .. L : gs[j] \in Unspent
  BY DEF Lists
<1>2. /\ a \in Seq(Group!IPs) /\ Len(a) = Size(g) /\ Size(g) \in Nat
      /\ \A m \in 1 .. Size(g) : a[m] = g.begin + m - 1
  BY GeneratorSize
<1> HIDE DEF a, hs, L
<1>3. /\ r \in Seq(Group!IPs) /\ Len(r) = Len(q) + Len(a)
      /\ \A m \in 1 .. Len(q) + Len(a) : r[m] = IF m <= Len(q) THEN q[m] ELSE a[m - Len(q)]
  BY <1>2, ConcatProperties
<1> HIDE DEF r
<1>4. hs \in Lists
  BY <1>1 DEF Lists
<1>5. /\ Len(q) \in Nat /\ c[0] = 0 /\ c[L] = Len(q)
      /\ \A j \in 1 .. L : c[j] = c[j - 1] + Size(gs[j])
      /\ \A j \in 1 .. L : \A m \in 1 .. Size(gs[j]) : q[c[j - 1] + m] = gs[j].begin + m - 1
  BY DEF Cuts, L
<1>6. \A j \in 0 .. L : c[j] \in Nat /\ c[j] <= Len(q)
  BY CutsWithin DEF L
<1>7. d \in [0 .. L + 1 -> Nat] /\ d[0] = 0 /\ d[L + 1] = Len(r)
  BY <1>1, <1>2, <1>3, <1>5, <1>6
<1>8. ASSUME NEW j \in 1 .. L + 1
      PROVE  /\ d[j] = d[j - 1] + Size(hs[j])
             /\ \A m \in 1 .. Size(hs[j]) : r[d[j - 1] + m] = hs[j].begin + m - 1
  <2>1. CASE j <= L
    <3>1. j \in 1 .. L /\ j - 1 \in 0 .. L /\ d[j] = c[j] /\ d[j - 1] = c[j - 1] /\ hs[j] = gs[j]
      BY <1>1, <2>1
    <3>2. Size(gs[j]) \in Nat
      BY <1>1, <3>1, GeneratorSize
    <3>3. ASSUME NEW m \in 1 .. Size(gs[j]) PROVE r[c[j - 1] + m] = gs[j].begin + m - 1
      <4>1. c[j - 1] + m \in 1 .. Len(q) /\ q[c[j - 1] + m] = gs[j].begin + m - 1
        BY <1>5, <1>6, <3>1, <3>2
      <4>2. r[c[j - 1] + m] = q[c[j - 1] + m]
        BY <1>2, <1>3, <1>5, <4>1
      <4> QED
        BY <4>1, <4>2
    <3> QED
      BY <1>5, <3>1, <3>3
  <2>2. CASE ~(j <= L)
    <3>0. j = L + 1 /\ j - 1 = L /\ L \in Nat
      BY <1>1, <2>2
    <3>1. j = L + 1 /\ d[j] = Len(q) + Size(g) /\ d[j - 1] = Len(q) /\ hs[j] = g
      BY <1>1, <1>5, <3>0
    <3>2. ASSUME NEW m \in 1 .. Size(g) PROVE r[Len(q) + m] = g.begin + m - 1
      <4>1. /\ Len(q) + m \in 1 .. Len(q) + Len(a) /\ ~(Len(q) + m <= Len(q))
            /\ (Len(q) + m) - Len(q) = m
        BY <1>2, <1>5
      <4>2. r[Len(q) + m] = a[m]
        BY <1>3, <4>1
      <4> QED
        BY <1>2, <4>2
    <3> QED
      BY <3>1, <3>2
  <2> QED
    BY <2>1, <2>2
<1>9. Cuts(hs, r, d)
  <2> HIDE DEF d
  <2> QED
    BY <1>1, <1>7, <1>8 DEF Cuts
<1> QED
  BY <1>3, <1>4, <1>9 DEF hs, r, a

LEMMA FlattenCuts ==
  ASSUME NEW gs \in Lists
  PROVE  Group!Flatten(gs) \in Seq(Group!IPs) /\ \E c : Cuts(gs, Group!Flatten(gs), c)
<1> DEFINE HasCuts(hs) == \E q \in Seq(Group!IPs) : \E c : Cuts(hs, q, c)
           A == {n \in Nat : \A hs \in Lists : Len(hs) = n => HasCuts(hs)}
<1>1. 0 \in A
  <2> SUFFICES ASSUME NEW hs \in Lists, Len(hs) = 0 PROVE HasCuts(hs)
    OBVIOUS
  <2>1. << >> \in Seq(Group!IPs) /\ Len(<< >>) = 0
    OBVIOUS
  <2>2. Cuts(hs, << >>, [j \in 0 .. 0 |-> 0])
    BY DEF Cuts
  <2> QED
    BY <2>1, <2>2
<1>2. ASSUME NEW n \in Nat, n \in A PROVE n + 1 \in A
  <2> SUFFICES ASSUME NEW hs \in Lists, Len(hs) = n + 1 PROVE HasCuts(hs)
    OBVIOUS
  <2>1. hs \in Seq(Unspent) /\ hs # << >>
    BY DEF Lists
  <2>2. PICK fs \in Seq(Unspent), g \in Unspent : hs = Append(fs, g)
    BY <2>1, SequenceEmptyOrAppend
  <2>3. /\ Len(hs) = Len(fs) + 1 /\ Len(fs) \in Nat /\ hs[Len(fs) + 1] = g
        /\ \A j \in 1 .. Len(fs) : hs[j] = fs[j]
    BY <2>2, AppendProperties
  <2>4. fs \in Lists /\ Len(fs) = n
    BY <2>1, <2>3 DEF Lists
  <2>5. PICK q \in Seq(Group!IPs) : \E c : Cuts(fs, q, c)
    BY <1>2, <2>4
  <2> QED
    BY <2>2, <2>4, <2>5, AppendCuts
<1>3. HasCuts(gs)
  <2> HIDE DEF A
  <2>1. Nat \subseteq A
    BY <1>1, <1>2, Numbers
  <2>2. Len(gs) \in Nat
    BY DEF Lists
  <2> QED
    BY <2>1, <2>2 DEF A
<1> QED
  BY <1>3, FlattenOfCuts

\* What addIpRange does to the addresses left.
LEMMA FlattenAppend ==
  ASSUME NEW gs \in Lists, NEW g \in Unspent
  PROVE  /\ Append(gs, g) \in Lists
         /\ Group!Flatten(Append(gs, g)) = Group!Flatten(gs) \o Group!Addresses(g)
BY FlattenCuts, AppendCuts, FlattenOfCuts

\* What next() and a resumed genIpRange() do to them.
LEMMA PopCuts ==
  ASSUME NEW gs \in Lists, gs # << >>, NEW q \in Seq(Group!IPs), NEW c, Cuts(gs, q, c)
  PROVE  /\ q # << >> /\ Head(q) = Head(gs).begin
         /\ Group!PopFront(gs) \in Lists
         /\ \E d : Cuts(Group!PopFront(gs), Tail(q), d)
<1> DEFINE L == Len(gs)
           h == Head(gs)
           hs == Group!PopFront(gs)
           r == Tail(q)
<1>1. /\ L \in Nat \ {0} /\ h = gs[1] /\ gs \in Seq(Unspent)
      /\ \A j \in 1 .. L : gs[j] \in Unspent
      /\ Tail(gs) \in Seq(Unspent) /\ Len(Tail(gs)) = L - 1
      /\ \A j \in 1 .. L - 1 : Tail(gs)[j] = gs[j + 1]
  BY DEF Lists
<1>2. h \in Unspent /\ Size(h) \in Nat \ {0} /\ h.begin \in Nat
  BY <1>1, GeneratorSize
<1>3. /\ c[0] = 0 /\ c[L] = Len(q) /\ c[1] = Size(h) /\ Len(q) \in Nat
      /\ \A j \in 1 .. L : c[j] = c[j - 1] + Size(gs[j])
      /\ \A j \in 1 .. L : \A m \in 1 .. Size(gs[j]) : q[c[j - 1] + m] = gs[j].begin + m - 1
  BY <1>1, <1>2 DEF Cuts
<1>4. /\ \A j \in 0 .. L : c[j] \in Nat /\ c[j] <= Len(q)
      /\ \A j \in 1 .. L : c[j] \in Nat \ {0}
  BY <1>3, CutsWithin
<1>n. Len(q) \in Nat
  OBVIOUS
<1>5. Len(q) >= 1 /\ q # << >>
  BY <1>1, <1>3, <1>4
<1>6. Head(q) = h.begin
  <2>1. 1 \in 1 .. L /\ 1 \in 1 .. Size(gs[1]) /\ c[1 - 1] + 1 = 1
    BY <1>1, <1>2, <1>3
  <2>2. q[1] = h.begin + 1 - 1
    BY <1>1, <1>3, <2>1
  <2> QED
    BY <1>2, <1>5, <2>2
<1>7. /\ r \in Seq(Group!IPs) /\ Len(r) = Len(q) - 1
      /\ \A m \in 1 .. Len(q) - 1 : r[m] = q[m + 1]
  BY <1>3, <1>5, HeadTailProperties
<1>8. Size(h) = 1 <=> ~Group!hasNext(Group!Advance(h))
  BY <1>2, AdvanceUnspent
<1>9. Size(h) # 1 =>
        /\ Group!Advance(h) \in Unspent
        /\ Group!Advance(h).begin = h.begin + 1 /\ Size(Group!Advance(h)) = Size(h) - 1
  BY <1>2, AdvanceUnspent
<1> HIDE DEF L, h, r
<1>10. CASE Size(h) = 1
  <2>1. hs = Tail(gs)
    BY <1>8, <1>10 DEF Group!PopFront, h
  <2>2. hs \in Lists
    BY <1>1, <2>1 DEF Lists
  <2> DEFINE d == [j \in 0 .. L - 1 |-> c[j + 1] - 1]
  <2> HIDE DEF d
  <2>3. d \in [0 .. L - 1 -> Nat] /\ d[0] = 0 /\ d[L - 1] = Len(r)
    BY <1>1, <1>3, <1>4, <1>7, <1>10 DEF d
  <2>d. \A j \in 0 .. L - 1 : d[j] = c[j + 1] - 1
    BY DEF d
  <2>4. ASSUME NEW j \in 1 .. L - 1
        PROVE  /\ d[j] = d[j - 1] + Size(gs[j + 1])
               /\ \A m \in 1 .. Size(gs[j + 1]) : r[d[j - 1] + m] = gs[j + 1].begin + m - 1
    <3>1. /\ j + 1 \in 1 .. L /\ j \in 1 .. L /\ (j + 1) - 1 = j
          /\ d[j] = c[j + 1] - 1 /\ d[j - 1] = c[j] - 1
      BY <1>1, <2>d
    <3>2. c[j + 1] = c[j] + Size(gs[j + 1]) /\ c[j] \in Nat \ {0} /\ c[j + 1] <= Len(q)
      BY <1>3, <1>4, <3>1
    <3>3. Size(gs[j + 1]) \in Nat
      BY <1>1, <3>1, GeneratorSize
    <3>4. ASSUME NEW m \in 1 .. Size(gs[j + 1])
          PROVE  r[d[j - 1] + m] = gs[j + 1].begin + m - 1
      <4>1. d[j - 1] + m \in 1 .. Len(q) - 1 /\ (d[j - 1] + m) + 1 = c[j] + m
        <5>1. c[j] + m <= Len(q) /\ c[j] + m \in Nat /\ m \in Nat \ {0}
          BY <1>n, <3>2, <3>3
        <5> QED
          BY <1>n, <3>1, <3>2, <5>1
      <4>2. q[c[j] + m] = gs[j + 1].begin + m - 1
        BY <1>3, <3>1
      <4> QED
        BY <1>7, <4>1, <4>2
    <3>5. d[j] = d[j - 1] + Size(gs[j + 1])
      BY <3>1, <3>2, <3>3
    <3> QED
      BY <3>4, <3>5
  <2>5. Cuts(hs, r, d)
    <3>1. Len(hs) = L - 1 /\ \A j \in 1 .. L - 1 : hs[j] = gs[j + 1]
      BY <1>1, <2>1
    <3> HIDE DEF hs
    <3>2. \A j \in 1 .. L - 1 :
            /\ d[j] = d[j - 1] + Size(hs[j])
            /\ \A m \in 1 .. Size(hs[j]) : r[d[j - 1] + m] = hs[j].begin + m - 1
      BY <2>4, <3>1
    <3> QED
      BY <2>3, <3>1, <3>2 DEF Cuts
  <2> QED
    BY <1>5, <1>6, <2>2, <2>5 DEF r, h
<1>11. CASE Size(h) # 1
  <2> DEFINE g == Group!Advance(h)
             d == [j \in 0 .. L |-> IF j = 0 THEN 0 ELSE c[j] - 1]
  <2>1. /\ g \in Unspent
        /\ g.begin = h.begin + 1 /\ Size(g) = Size(h) - 1
    BY <1>8, <1>9, <1>11
  <2>2. hs = <<g>> \o Tail(gs)
    BY <1>8, <1>11 DEF Group!PopFront, h
  <2> HIDE DEF g, d
  <2>3. /\ hs \in Seq(Unspent) /\ Len(hs) = L /\ hs[1] = g
        /\ \A j \in 2 .. L : hs[j] = gs[j]
    BY <1>1, <2>1, <2>2
  <2>4. hs \in Lists
    BY <1>1, <2>1, <2>3 DEF Lists
  <2>5. d \in [0 .. L -> Nat] /\ d[0] = 0 /\ d[L] = Len(r)
        /\ \A j \in 1 .. L : d[j] = c[j] - 1
    BY <1>1, <1>3, <1>4, <1>7 DEF d
  <2>6. ASSUME NEW j \in 1 .. L
        PROVE  /\ d[j] = d[j - 1] + Size(hs[j])
               /\ \A m \in 1 .. Size(hs[j]) : r[d[j - 1] + m] = hs[j].begin + m - 1
    <3>1. CASE j = 1
      <4>1. d[1] = Size(g) /\ d[0] = 0 /\ Size(g) \in Nat
        BY <1>1, <1>2, <1>3, <2>1, <2>5
      <4>2. ASSUME NEW m \in 1 .. Size(g) PROVE r[0 + m] = g.begin + m - 1
        <5>1. m + 1 \in 1 .. Size(h) /\ m \in 1 .. Len(q) - 1
          BY <1>1, <1>2, <1>3, <1>4, <2>1, <4>1
        <5>2. q[0 + (m + 1)] = h.begin + (m + 1) - 1
          BY <1>1, <1>3, <5>1
        <5>3. h.begin \in Nat
          BY <1>2
        <5> QED
          BY <1>7, <2>1, <5>1, <5>2, <5>3
      <4> QED
        BY <2>3, <3>1, <4>1, <4>2
    <3>2. CASE j # 1
      <4>1. /\ j \in 2 .. L /\ j - 1 \in 1 .. L /\ hs[j] = gs[j]
            /\ d[j] = c[j] - 1 /\ d[j - 1] = c[j - 1] - 1
        BY <1>1, <2>3, <2>5, <3>2
      <4>2. /\ c[j] = c[j - 1] + Size(gs[j]) /\ c[j - 1] \in Nat \ {0} /\ c[j] <= Len(q)
            /\ Size(gs[j]) \in Nat
        <5>1. c[j] = c[j - 1] + Size(gs[j])
          BY <1>3
        <5>2. c[j - 1] \in Nat \ {0} /\ c[j] <= Len(q)
          BY <1>1, <1>4, <4>1
        <5>3. Size(gs[j]) \in Nat
          BY <1>1, GeneratorSize
        <5> QED
          BY <5>1, <5>2, <5>3
      <4>3. ASSUME NEW m \in 1 .. Size(gs[j]) PROVE r[d[j - 1] + m] = gs[j].begin + m - 1
        <5>1. d[j - 1] + m \in 1 .. Len(q) - 1 /\ (d[j - 1] + m) + 1 = c[j - 1] + m
          BY <1>n, <4>1, <4>2
        <5>2. q[c[j - 1] + m] = gs[j].begin + m - 1
          BY <1>3
        <5> QED
          BY <1>7, <5>1, <5>2
      <4> QED
        BY <4>1, <4>2, <4>3
    <3> QED
      BY <3>1, <3>2
  <2>7. Cuts(hs, r, d)
    BY <2>3, <2>5, <2>6 DEF Cuts
  <2> QED
    BY <1>5, <1>6, <2>4, <2>7 DEF r, h
<1> QED
  BY <1>10, <1>11

LEMMA FlattenPop ==
  ASSUME NEW gs \in Lists, gs # << >>
  PROVE  /\ Group!Flatten(gs) # << >>
         /\ Head(Group!Flatten(gs)) = Head(gs).begin
         /\ Group!PopFront(gs) \in Lists
         /\ Group!Flatten(Group!PopFront(gs)) = Tail(Group!Flatten(gs))
<1>1. PICK c : Cuts(gs, Group!Flatten(gs), c) /\ Group!Flatten(gs) \in Seq(Group!IPs)
  BY FlattenCuts
<1>2. Group!Flatten(gs) # << >> => Tail(Group!Flatten(gs)) \in Seq(Group!IPs)
  BY <1>1, HeadTailProperties
<1> QED
  BY <1>1, <1>2, PopCuts, FlattenOfCuts

LEMMA FlattenEmpty == << >> \in Lists /\ Group!Flatten(<< >>) = << >>
<1>1. << >> \in Lists /\ << >> \in Seq(Group!IPs)
  BY DEF Lists
<1>2. Cuts(<< >>, << >>, [j \in 0 .. 0 |-> 0])
  BY DEF Cuts
<1> QED
  BY <1>1, <1>2, FlattenOfCuts

-----------------------------------------------------------------------------
\* How often an address occurs in two sequences put together.
LEMMA CountConcat ==
  ASSUME NEW s \in Seq(Group!IPs), NEW t \in Seq(Group!IPs), NEW ip
  PROVE  /\ Group!Count(s, ip) \in Nat /\ Group!Count(t, ip) \in Nat
         /\ Group!Count(s \o t, ip) = Group!Count(s, ip) + Group!Count(t, ip)
<1> DEFINE At(r) == {j \in 1 .. Len(r) : r[j] = ip}
           n == Len(s)
           Shifted == {j \in n + 1 .. n + Len(t) : (s \o t)[j] = ip}
           f == [j \in At(t) |-> n + j]
<1>0. n \in Nat /\ Len(t) \in Nat
  OBVIOUS
<1>1. IsFiniteSet(At(s)) /\ IsFiniteSet(At(t)) /\ IsFiniteSet(Shifted)
  <2>1. IsFiniteSet(1 .. n) /\ IsFiniteSet(1 .. Len(t)) /\ IsFiniteSet(n + 1 .. n + Len(t))
    BY <1>0, FS_Interval
  <2>2. At(s) \subseteq 1 .. n /\ At(t) \subseteq 1 .. Len(t) /\ Shifted \subseteq n + 1 .. n + Len(t)
    OBVIOUS
  <2> HIDE DEF At, Shifted
  <2> QED
    BY <2>1, <2>2, FS_Subset
<1>2. /\ Len(s \o t) = n + Len(t)
      /\ \A j \in 1 .. n + Len(t) : (s \o t)[j] = IF j <= n THEN s[j] ELSE t[j - n]
  BY ConcatProperties
<1>3. At(s \o t) = At(s) \cup Shifted /\ At(s) \cap Shifted = {}
  BY <1>0, <1>2
<1>4. Cardinality(Shifted) = Cardinality(At(t))
  <2>1. f \in [At(t) -> Shifted]
    BY <1>0, <1>2
  <2>2. \A x, y \in At(t) : f[x] = f[y] => x = y
    BY <1>0
  <2>3. \A y \in Shifted : \E x \in At(t) : f[x] = y
    <3> SUFFICES ASSUME NEW y \in Shifted PROVE y - n \in At(t) /\ f[y - n] = y
      OBVIOUS
    <3> QED
      BY <1>0, <1>2
  <2> HIDE DEF f, At, Shifted
  <2>4. f \in Bijection(At(t), Shifted)
    BY <2>1, <2>2, <2>3 DEF Bijection, Injection, Surjection, IsInjective
  <2> QED
    BY <1>1, <2>4, FS_Bijection DEF ExistsBijection
<1>5. Cardinality(At(s \o t)) = Cardinality(At(s)) + Cardinality(At(t))
  <2> HIDE DEF At, Shifted
  <2>1. Cardinality(At(s)) \in Nat /\ Cardinality(At(t)) \in Nat
    BY <1>1, FS_CardinalityType
  <2>2. Cardinality(At(s) \cup Shifted)
          = Cardinality(At(s)) + Cardinality(Shifted) - Cardinality(At(s) \cap Shifted)
    BY <1>1, FS_Union
  <2>3. Cardinality(At(s) \cap Shifted) = 0
    BY <1>3, FS_EmptySet
  <2> QED
    BY <1>3, <1>4, <2>1, <2>2, <2>3
<1>6. \A r : Group!Count(r, ip) = Cardinality(At(r))
  BY GroupCardinality DEF Group!Count
<1> HIDE DEF At
<1> QED
  BY <1>1, <1>5, <1>6, FS_CardinalityType

-----------------------------------------------------------------------------
\* What the client has been given ahead of the list.
Ahead == IF state = "taken" /\ mode = "all" THEN <<text>> ELSE << >>

\* p has come out of the list, and it went to the client and its source.
Ledger(p) ==
  /\ expect = p \o Group!Flatten(gens)
  /\ ~lost /\ ~repeated =>
       \A ip \in Group!IPs : Group!Count(out \o Group!InHand, ip) = Group!Count(p \o Ahead, ip)

\* The inductive invariant of a group.
GInd ==
  /\ Group!TypeOK /\ gens \in Lists
  /\ ipNumber = Len(Group!Flatten(gens))
  /\ Group!Live /\ mode = "all" => gens # << >> /\ text = Head(gens).begin
  /\ \E p \in Seq(Group!IPs) : Ledger(p)

\* Every generator a list may have fits the type of the list.
LEMMA ListsType == \A gs \in Lists :
  /\ gs \in Seq(Group!Generators)
  /\ \A j \in 1 .. Len(gs) : Group!hasNext(gs[j])
  /\ gs # << >> => Head(gs).begin \in Group!IPs
<1> SUFFICES ASSUME NEW gs \in Lists
             PROVE  /\ gs \in Seq(Group!Generators)
                    /\ \A j \in 1 .. Len(gs) : Group!hasNext(gs[j])
                    /\ gs # << >> => Head(gs).begin \in Group!IPs
  OBVIOUS
<1>1. gs \in Seq(Unspent) /\ Unspent \subseteq Group!Generators
  BY DEF Lists, Unspent
<1>2. gs \in Seq(Group!Generators)
  BY <1>1, SeqMonotonic
<1>3. \A j \in 1 .. Len(gs) : gs[j] \in Unspent
  BY <1>1, ElementOfSeq
<1>4. gs # << >> => Head(gs) \in Group!Generators
  BY <1>2
<1> QED
  BY <1>2, <1>3, <1>4 DEF Unspent, Group!Generators

LEMMA GInit == Group!Init => GInd
<1> SUFFICES ASSUME Group!Init PROVE GInd
  OBVIOUS
<1>1. Group!TypeOK
  <2>1. lost \in BOOLEAN /\ repeated \in BOOLEAN
    BY DEF Group!Init
  <2>2. 0 \in Group!IPs /\ 0 \in 0 .. MaxRanges /\ 0 \in 0 .. GroupDrops
    BY DEF Group!IPs
  <2> QED
    BY <2>1, <2>2 DEF Group!Init, Group!TypeOK
<1>2. Ledger(<< >>)
  <2>1. << >> \in Seq(Group!IPs) /\ << >> \o << >> = << >>
    OBVIOUS
  <2> QED
    BY <2>1, FlattenEmpty DEF Group!Init, Ledger, Ahead, Group!InHand
<1>3. /\ gens \in Lists /\ ipNumber = Len(Group!Flatten(gens)) /\ ~Group!Live
      /\ << >> \in Seq(Group!IPs)
  <2>1. gens = << >> /\ ipNumber = 0 /\ state = "none"
    BY DEF Group!Init
  <2> QED
    BY <2>1, FlattenEmpty DEF Group!Live
<1> QED
  BY <1>1, <1>2, <1>3 DEF GInd

\* getIpNumber is the size of what the constructor makes, unless there is no address.
LEMMA AddedRange ==
  ASSUME NEW b \in Ends, NEW e \in Ends, Group!hasNext(Group!IpGenerator(b, e))
  PROVE  /\ Group!IpGenerator(b, e) \in Unspent
         /\ Group!getIpNumber(Group!IpGenerator(b, e)) = Size(Group!IpGenerator(b, e))
<1> DEFINE g == Group!IpGenerator(b, e)
<1>1. g \in Group!Generators /\ g.end < GroupTop
  <2>1. b \in 0 .. GroupTop /\ e \in 0 .. GroupTop /\ GroupTop \in Nat \ {0}
    BY GroupAssumption
  <2> QED
    BY <2>1 DEF Group!IpGenerator, Group!Generators, Group!IPs
<1> HIDE DEF g
<1>2. g \in Unspent
  BY <1>1 DEF g, Unspent
<1>3. Size(g) \in 0 .. GroupTop
  BY <1>2 DEF Unspent, Group!Generators, Group!IPs, Group!hasNext, Size
<1>4. \A n \in 0 .. GroupTop : n % (GroupTop + 1) = n
  OBVIOUS
<1>5. Group!getIpNumber(g) = Size(g)
  BY <1>3, <1>4 DEF Group!getIpNumber, Size
<1> QED
  BY <1>2, <1>5 DEF g

\* Counts of the sequences the client and its source have.
LEMMA HandTypes ==
  ASSUME GInd
  PROVE  /\ out \in Seq(Group!IPs) /\ Group!InHand \in Seq(Group!IPs) /\ Ahead \in Seq(Group!IPs)
         /\ text \in Group!IPs /\ Group!Flatten(gens) \in Seq(Group!IPs)
         /\ ipNumber > 0 <=> gens # << >>
BY FlattenCuts, FlattenEmpty, FlattenPop DEF GInd, Group!TypeOK, Group!InHand, Ahead

\* A range added goes to the end of the list and of what is expected.
LEMMA AddStep ==
  ASSUME GInd, NEW b \in Ends, NEW e \in Ends, Group!addIpRange(b, e)
  PROVE  GInd'
<1> DEFINE g == Group!IpGenerator(b, e)
<1>0. /\ UNCHANGED <<state, mode, size, count, text, abandoned, out, lost, repeated>>
      /\ added' \in 0 .. MaxRanges
  <2>1. added \in 0 .. MaxRanges /\ added < MaxRanges /\ added' = added + 1
    BY DEF Group!addIpRange, GInd, Group!TypeOK
  <2> QED
    BY <2>1 DEF Group!addIpRange, Group!source
<1>1. Group!InHand' = Group!InHand /\ Ahead' = Ahead
  BY <1>0 DEF Group!InHand, Ahead
<1>2. CASE ~Group!hasNext(g)
  <2>1. UNCHANGED <<gens, ipNumber, expect>>
    BY <1>2 DEF Group!addIpRange
  <2> QED
    BY <1>0, <1>1, <2>1 DEF GInd, Group!TypeOK, Group!Live, Ledger
<1>3. CASE Group!hasNext(g)
  <2>0. g \in Unspent /\ Group!getIpNumber(g) = Size(g)
    BY <1>3, AddedRange
  <2>1. /\ ipNumber' = ipNumber + Size(g) /\ gens' = Append(gens, g)
        /\ expect' = expect \o Group!Addresses(g)
    BY <1>3, <2>0 DEF Group!addIpRange
  <2> HIDE DEF g
  <2>2. /\ Group!Addresses(g) \in Seq(Group!IPs) /\ Len(Group!Addresses(g)) = Size(g)
        /\ Size(g) \in Nat
    BY <2>0, GeneratorSize DEF Unspent
  <2>3. /\ gens' \in Lists
        /\ Group!Flatten(gens)' = Group!Flatten(gens) \o Group!Addresses(g)
    BY <2>0, <2>1, FlattenAppend DEF GInd
  <2>4. Group!Flatten(gens) \in Seq(Group!IPs)
    BY FlattenCuts DEF GInd
  <2>5. ipNumber' = Len(Group!Flatten(gens)') /\ ipNumber' \in Nat
    BY <2>1, <2>2, <2>3, <2>4 DEF GInd, Group!TypeOK
  <2>6. gens # << >> => gens' # << >> /\ Head(gens') = Head(gens)
    BY <2>0, <2>1 DEF GInd, Lists
  <2>7. PICK p \in Seq(Group!IPs) : Ledger(p)
    BY DEF GInd
  <2>8. Ledger(p)'
    <3>1. (p \o Group!Flatten(gens)) \o Group!Addresses(g)
            = p \o (Group!Flatten(gens) \o Group!Addresses(g))
      BY <2>2, <2>4, ConcatAssociative, SMTT(60)
    <3>2. expect = p \o Group!Flatten(gens)
      BY <2>7 DEF Ledger
    <3>3. expect' = p \o Group!Flatten(gens)'
      BY <2>1, <2>3, <3>1, <3>2
    <3>4. ASSUME ~lost', ~repeated', NEW ip \in Group!IPs
          PROVE  Group!Count(out' \o Group!InHand', ip) = Group!Count(p \o Ahead', ip)
      <4>1. Group!Count(out \o Group!InHand, ip) = Group!Count(p \o Ahead, ip)
        BY <1>0, <2>7, <3>4 DEF Ledger
      <4> QED
        BY <1>0, <1>1, <4>1
    <3> QED
      BY <3>3, <3>4 DEF Ledger
  <2>9. Group!TypeOK'
    <3>1. gens' \in Seq(Group!Generators)
      BY <2>3, ListsType
    <3>2. expect' \in Seq(Group!IPs)
      BY <2>1, <2>2 DEF GInd, Group!TypeOK
    <3> QED
      BY <1>0, <2>5, <3>1, <3>2 DEF GInd, Group!TypeOK
  <2> QED
    BY <1>0, <2>3, <2>5, <2>6, <2>8, <2>9 DEF GInd, Group!Live
<1> QED
  BY <1>2, <1>3

LEMMA ClearStep == ASSUME GInd, Group!clear PROVE GInd'
<1>0. /\ UNCHANGED <<state, mode, size, count, text, added, abandoned, out, lost, repeated>>
      /\ ipNumber' = 0 /\ gens' = << >> /\ ~(Group!Live /\ mode = "all")
      /\ expect' = SubSeq(expect, 1, Len(expect) - Len(Group!Flatten(gens)))
  BY DEF Group!clear, Group!source, Group!MayPop
<1>1. Group!InHand' = Group!InHand /\ Ahead' = Ahead /\ ~(Group!Live /\ mode = "all")'
  BY <1>0 DEF Group!InHand, Ahead, Group!Live
<1>2. PICK p \in Seq(Group!IPs) : Ledger(p)
  BY DEF GInd
<1>3. expect' = p
  <2> DEFINE q == Group!Flatten(gens)
  <2>1. q \in Seq(Group!IPs) /\ expect = p \o q
    BY <1>2, HandTypes DEF Ledger
  <2> HIDE DEF q
  <2>2. Len(p) \in Nat /\ Len(q) \in Nat /\ Len(expect) = Len(p) + Len(q)
    BY <2>1, ConcatProperties
  <2>3. expect' = SubSeq(p \o q, 1, Len(p))
    BY <1>0, <2>1, <2>2 DEF q
  <2>4. SubSeq(p \o q, 1, Len(p)) = p
    <3>1. CASE Len(p) = 0
      BY <2>1, <2>2, <3>1, SubSeqEmpty
    <3>2. CASE Len(p) # 0
      <4>1. 1 \in 1 .. Len(p) /\ Len(p) \in 1 .. Len(p)
        BY <2>2, <3>2
      <4> QED
        BY <2>1, <4>1, SubSeqOfConcat1, SubSeqFull
    <3> QED
      BY <3>1, <3>2
  <2> QED
    BY <2>3, <2>4
<1>4. Ledger(p)'
  <2>1. p \o << >> = p /\ Group!Flatten(gens)' = << >>
    BY <1>0, FlattenEmpty
  <2> QED
    BY <1>0, <1>1, <1>2, <1>3, <2>1 DEF Ledger
<1>5. Group!TypeOK'
  <2>1. gens' \in Seq(Group!Generators) /\ ipNumber' \in Nat
    BY <1>0
  <2> QED
    BY <1>0, <1>3, <2>1 DEF GInd, Group!TypeOK
<1>6. gens' \in Lists /\ ipNumber' = Len(Group!Flatten(gens)')
  BY <1>0, FlattenEmpty
<1> QED
  BY <1>1, <1>4, <1>5, <1>6 DEF GInd

\* The front of the list comes off it.
LEMMA PopList ==
  ASSUME GInd, gens # << >>, gens' = Group!PopFront(gens), ipNumber' = ipNumber - 1,
         expect' = expect, NEW p \in Seq(Group!IPs), Ledger(p)
  PROVE  /\ gens' \in Lists /\ gens' \in Seq(Group!Generators)
         /\ ipNumber' \in Nat /\ ipNumber' = Len(Group!Flatten(gens)')
         /\ Group!NextIp(gens) \in Group!IPs
         /\ p \o <<Group!NextIp(gens)>> \in Seq(Group!IPs)
         /\ expect' = (p \o <<Group!NextIp(gens)>>) \o Group!Flatten(gens)'
<1> DEFINE q == Group!Flatten(gens)
           h == Group!NextIp(gens)
<1>1. gens \in Lists /\ ipNumber = Len(q) /\ expect = p \o q
  BY DEF GInd, Ledger
<1>2. /\ q # << >> /\ Head(q) = h /\ gens' \in Lists /\ Group!Flatten(gens)' = Tail(q)
      /\ q \in Seq(Group!IPs)
  BY <1>1, FlattenPop, FlattenCuts DEF Group!NextIp
<1>3. h \in Group!IPs /\ gens' \in Seq(Group!Generators)
  BY <1>1, <1>2, ListsType DEF Group!NextIp
<1> HIDE DEF q, h
<1>4. /\ Len(q) \in Nat \ {0} /\ Len(Tail(q)) = Len(q) - 1 /\ Tail(q) \in Seq(Group!IPs)
      /\ q = <<h>> \o Tail(q) /\ <<h>> \in Seq(Group!IPs)
  BY <1>2, <1>3
<1>5. p \o (<<h>> \o Tail(q)) = (p \o <<h>>) \o Tail(q) /\ p \o <<h>> \in Seq(Group!IPs)
  BY <1>4, ConcatAssociative, ConcatProperties
<1> QED
  BY <1>1, <1>2, <1>3, <1>4, <1>5 DEF h

\* How many times each address is where a sequence of one address goes.
LEMMA CountOne ==
  ASSUME NEW s \in Seq(Group!IPs), NEW t \in Seq(Group!IPs), NEW h \in Group!IPs, NEW ip
  PROVE  /\ Group!Count(s, ip) \in Nat /\ Group!Count(t, ip) \in Nat
         /\ Group!Count(<<h>>, ip) \in Nat /\ Group!Count(<< >>, ip) = 0
         /\ Group!Count(s \o t, ip) = Group!Count(s, ip) + Group!Count(t, ip)
         /\ Group!Count(Append(s, h), ip) = Group!Count(s, ip) + Group!Count(<<h>>, ip)
         /\ Group!Count(s \o <<h>>, ip) = Group!Count(s, ip) + Group!Count(<<h>>, ip)
         /\ Group!Count(Append(s, h) \o t, ip)
              = Group!Count(s, ip) + Group!Count(<<h>>, ip) + Group!Count(t, ip)
         /\ Group!Count((s \o <<h>>) \o t, ip)
              = Group!Count(s, ip) + Group!Count(<<h>>, ip) + Group!Count(t, ip)
<1> DEFINE one == <<h>>
           none == << >>
           C(r) == Group!Count(r, ip)
<1>1. one \in Seq(Group!IPs) /\ none \in Seq(Group!IPs)
  OBVIOUS
<1>2. s \o one \in Seq(Group!IPs) /\ Append(s, h) = s \o one /\ s \o none = s
  BY <1>1, AppendIsConcat, ConcatProperties, ConcatEmptySeq
<1> HIDE DEF one, none
<1>3. C(s) \in Nat /\ C(t) \in Nat /\ C(one) \in Nat /\ C(none) \in Nat
  BY <1>1, CountConcat
<1>4. C(s \o t) = C(s) + C(t) /\ C(s \o none) = C(s) + C(none)
  BY <1>1, CountConcat
<1>5. C(s \o one) = C(s) + C(one) /\ C((s \o one) \o t) = C(s \o one) + C(t)
  <2> DEFINE r == s \o one
  <2>1. C(r) = C(s) + C(one)
    BY <1>1, CountConcat
  <2>2. r \in Seq(Group!IPs)
    BY <1>2
  <2> HIDE DEF r
  <2>3. C(r \o t) = C(r) + C(t)
    BY <2>2, CountConcat
  <2> QED BY <2>1, <2>3 DEF r
<1> HIDE DEF C
<1>6. C(none) = 0
  BY <1>2, <1>3, <1>4
<1>7. C((s \o one) \o t) = C(s) + C(one) + C(t) /\ C(Append(s, h)) = C(s) + C(one)
  <2>1. C(s \o one) = C(s) + C(one) /\ C((s \o one) \o t) = C(s \o one) + C(t)
    BY <1>5
  <2>2. C((s \o one) \o t) = C(s) + C(one) + C(t)
    BY <1>3, <2>1
  <2> QED
    BY <1>2, <2>1, <2>2
<1>8. C(Append(s, h) \o t) = C(s) + C(one) + C(t)
  BY <1>2, <1>7
<1>9. /\ C(s) \in Nat /\ C(t) \in Nat /\ C(one) \in Nat /\ C(none) = 0
      /\ C(s \o t) = C(s) + C(t)
      /\ C(Append(s, h)) = C(s) + C(one)
      /\ C(s \o one) = C(s) + C(one)
      /\ C(Append(s, h) \o t) = C(s) + C(one) + C(t)
      /\ C((s \o one) \o t) = C(s) + C(one) + C(t)
  BY <1>3, <1>4, <1>5, <1>6, <1>7, <1>8
<1> QED
  BY <1>9, Zenon DEF C, one, none

LEMMA NextStep == ASSUME GInd, Group!next PROVE GInd'
<1>0. /\ UNCHANGED <<state, mode, size, count, text, added, abandoned, lost, repeated, expect>>
      /\ ipNumber' = ipNumber - 1 /\ gens' = Group!PopFront(gens) /\ gens # << >>
      /\ ~(Group!Live /\ mode = "all") /\ out' = Append(out, Group!NextIp(gens))
  BY HandTypes DEF Group!next, Group!source, Group!MayPop, Group!HasNext
<1>1. Group!InHand' = Group!InHand /\ Ahead = << >> /\ Ahead' = << >> /\ ~(Group!Live /\ mode = "all")'
  BY <1>0 DEF Group!InHand, Ahead, Group!Live
<1>2. PICK p \in Seq(Group!IPs) : Ledger(p)
  BY DEF GInd
<1> PICK h : h = Group!NextIp(gens)
  OBVIOUS
<1> PICK r : r = p \o <<h>>
  OBVIOUS
<1>3. /\ gens' \in Lists /\ gens' \in Seq(Group!Generators)
      /\ ipNumber' \in Nat /\ ipNumber' = Len(Group!Flatten(gens)')
      /\ h \in Group!IPs /\ r \in Seq(Group!IPs)
      /\ expect' = r \o Group!Flatten(gens)'
  BY <1>0, <1>2, PopList
<1>4. Ledger(r)'
  <2> SUFFICES ASSUME ~lost, ~repeated, NEW ip \in Group!IPs
               PROVE  Group!Count(out' \o Group!InHand', ip) = Group!Count(r \o Ahead', ip)
    BY <1>0, <1>3 DEF Ledger
  <2>1. Group!Count(out \o Group!InHand, ip) = Group!Count(p \o << >>, ip)
    BY <1>1, <1>2 DEF Ledger
  <2>2. << >> \in Seq(Group!IPs)
    OBVIOUS
  <2>3. /\ Group!Count(Append(out, h) \o Group!InHand, ip)
             = Group!Count(out, ip) + Group!Count(<<h>>, ip) + Group!Count(Group!InHand, ip)
        /\ Group!Count(out \o Group!InHand, ip) = Group!Count(out, ip) + Group!Count(Group!InHand, ip)
        /\ Group!Count(out, ip) \in Nat /\ Group!Count(Group!InHand, ip) \in Nat
    BY <1>3, HandTypes, CountOne
  <2>4. /\ Group!Count((p \o <<h>>) \o << >>, ip)
             = Group!Count(p, ip) + Group!Count(<<h>>, ip) + Group!Count(<< >>, ip)
        /\ Group!Count(p \o << >>, ip) = Group!Count(p, ip) + Group!Count(<< >>, ip)
        /\ Group!Count(p, ip) \in Nat /\ Group!Count(<<h>>, ip) \in Nat /\ Group!Count(<< >>, ip) = 0
    BY <1>2, <1>3, <2>2, CountOne
  <2>5. out' = Append(out, h)
    BY <1>0
  <2> QED
    BY <1>1, <2>1, <2>3, <2>4, <2>5
<1>5. Group!TypeOK'
  <2>1. expect' \in Seq(Group!IPs) /\ out' \in Seq(Group!IPs)
    BY <1>0, <1>3 DEF GInd, Group!TypeOK
  <2> QED
    BY <1>0, <1>3, <2>1 DEF GInd, Group!TypeOK
<1> QED
  BY <1>1, <1>3, <1>4, <1>5 DEF GInd

\* A source is constructed or resumed by genIpRange(): the address it has given goes
\* off the list, and it holds the next.
LEMMA RunAllStep ==
  ASSUME GInd, mode' = "all",
         UNCHANGED <<added, abandoned, expect, out, lost, repeated>>,
         \/ ~Group!Live /\ Group!RunAll(gens, ipNumber)
         \/ /\ state = "taken" /\ mode = "all"
            /\ Group!RunAll(Group!PopFront(gens), ipNumber - 1)
  PROVE  GInd'
<1>0. /\ UNCHANGED <<size, count, added, abandoned, lost, repeated, expect, out>>
      /\ state' = IF gens' = << >> THEN "spent" ELSE "held"
      /\ text' = IF gens' = << >> THEN text ELSE Head(gens').begin
  BY DEF Group!RunAll, Group!NextIp
<1>1. Group!InHand = << >> /\ Group!InHand' = << >> /\ Ahead' = << >>
  BY <1>0 DEF Group!InHand, Ahead, Group!Live
<1>2. PICK p \in Seq(Group!IPs) : Ledger(p)
  BY DEF GInd
<1>3. /\ gens' \in Lists /\ gens' \in Seq(Group!Generators)
      /\ ipNumber' \in Nat /\ ipNumber' = Len(Group!Flatten(gens)')
      /\ \E r \in Seq(Group!IPs) : Ledger(r)'
  <2>1. CASE ~Group!Live /\ Group!RunAll(gens, ipNumber)
    <3>1. UNCHANGED <<gens, ipNumber>> /\ Ahead = << >>
      BY <2>1 DEF Group!RunAll, Group!Live, Ahead
    <3>2. Ledger(p)'
      BY <1>0, <1>1, <1>2, <3>1 DEF Ledger
    <3> QED
      BY <1>2, <3>1, <3>2 DEF GInd, Group!TypeOK
  <2>2. CASE /\ state = "taken" /\ mode = "all"
             /\ Group!RunAll(Group!PopFront(gens), ipNumber - 1)
    <3> PICK h : h = Group!NextIp(gens)
      OBVIOUS
    <3>1. /\ gens' = Group!PopFront(gens) /\ ipNumber' = ipNumber - 1 /\ gens # << >>
          /\ Ahead = <<h>>
      BY <2>2 DEF Group!RunAll, GInd, Group!Live, Ahead, Group!NextIp
    <3>2. /\ gens' \in Lists /\ gens' \in Seq(Group!Generators)
          /\ ipNumber' \in Nat /\ ipNumber' = Len(Group!Flatten(gens)')
          /\ p \o <<h>> \in Seq(Group!IPs)
          /\ expect' = (p \o <<h>>) \o Group!Flatten(gens)'
      BY <1>0, <1>2, <3>1, PopList
    <3>3. (p \o <<h>>) \o << >> = p \o <<h>>
      BY <3>2, ConcatEmptySeq
    <3> PICK r : r = p \o <<h>>
      OBVIOUS
    <3>4. Ledger(r)'
      <4>1. out' \o Group!InHand' = out \o Group!InHand /\ r \o Ahead' = p \o Ahead
        BY <1>0, <1>1, <3>1, <3>3
      <4>2. expect' = r \o Group!Flatten(gens)'
        BY <3>2
      <4>3. r \in Seq(Group!IPs)
        BY <3>2
      <4>4. ASSUME ~lost', ~repeated', NEW ip \in Group!IPs
            PROVE  Group!Count(out' \o Group!InHand', ip) = Group!Count(r \o Ahead', ip)
        <5>1. Group!Count(out \o Group!InHand, ip) = Group!Count(p \o Ahead, ip)
          BY <1>0, <1>2, <4>4 DEF Ledger
        <5> QED
          BY <4>1, <5>1
      <4> QED
        BY <4>2, <4>3, <4>4 DEF Ledger
    <3> QED
      BY <3>2, <3>4
  <2> QED
    BY <2>1, <2>2
<1>4. gens' # << >> => Head(gens').begin \in Group!IPs
  BY <1>3, ListsType
<1>5. Group!TypeOK'
  BY <1>0, <1>3, <1>4 DEF GInd, Group!TypeOK
<1>6. (Group!Live /\ mode = "all" => gens # << >> /\ text = Head(gens).begin)'
  BY <1>0 DEF Group!Live
<1> QED
  BY <1>3, <1>5, <1>6 DEF GInd

\* genIpRange(stepSize) takes an address off the list before it holds it.
LEMMA RunStepStep ==
  ASSUME GInd, NEW s \in GroupSteps \cup {0}, NEW n \in Nat, Group!RunStep(s, n),
         mode' = "step", size' = s, UNCHANGED <<added, abandoned, expect, out, lost, repeated>>,
         ~Group!Live \/ (state = "taken" /\ mode = "step")
  PROVE  GInd'
<1>1. /\ Group!InHand = << >> /\ Ahead = << >> /\ Ahead' = << >> /\ count' \in Nat
      /\ ~(Group!Live /\ mode = "all")'
  BY DEF Group!InHand, Ahead, Group!Live, Group!RunStep
<1>2. PICK p \in Seq(Group!IPs) : Ledger(p)
  BY DEF GInd
<1>3. CASE n < s /\ Group!HasNext(ipNumber)
  <2> PICK h : h = Group!NextIp(gens)
    OBVIOUS
  <2> PICK r : r = p \o <<h>>
    OBVIOUS
  <2>1. /\ state' = "held" /\ text' = h /\ gens' = Group!PopFront(gens)
        /\ ipNumber' = ipNumber - 1 /\ gens # << >>
    BY <1>3, HandTypes DEF Group!RunStep, Group!HasNext
  <2>2. /\ gens' \in Lists /\ gens' \in Seq(Group!Generators)
        /\ ipNumber' \in Nat /\ ipNumber' = Len(Group!Flatten(gens)')
        /\ h \in Group!IPs /\ r \in Seq(Group!IPs)
        /\ expect' = r \o Group!Flatten(gens)'
    BY <1>2, <2>1, PopList
  <2>3. Group!InHand' = <<h>>
    BY <2>1 DEF Group!InHand
  <2>4. Ledger(r)'
    <3> SUFFICES ASSUME ~lost, ~repeated, NEW ip \in Group!IPs
                 PROVE  Group!Count(out \o <<h>>, ip) = Group!Count(r \o << >>, ip)
      BY <1>1, <2>2, <2>3 DEF Ledger
    <3>1. << >> \in Seq(Group!IPs) /\ out \in Seq(Group!IPs)
      BY HandTypes
    <3>2. Group!Count(out \o << >>, ip) = Group!Count(p \o << >>, ip)
      BY <1>1, <1>2 DEF Ledger
    <3>3. /\ Group!Count(out \o <<h>>, ip) = Group!Count(out, ip) + Group!Count(<<h>>, ip)
          /\ Group!Count(out \o << >>, ip) = Group!Count(out, ip) + Group!Count(<< >>, ip)
          /\ Group!Count(out, ip) \in Nat /\ Group!Count(<< >>, ip) = 0
      BY <2>2, <3>1, CountOne
    <3>4. /\ Group!Count((p \o <<h>>) \o << >>, ip)
               = Group!Count(p, ip) + Group!Count(<<h>>, ip) + Group!Count(<< >>, ip)
          /\ Group!Count(p \o << >>, ip) = Group!Count(p, ip) + Group!Count(<< >>, ip)
          /\ Group!Count(p, ip) \in Nat /\ Group!Count(<<h>>, ip) \in Nat
      BY <1>2, <2>2, <3>1, CountOne
    <3> QED
      BY <3>2, <3>3, <3>4
  <2>5. Group!TypeOK'
    BY <1>1, <2>1, <2>2 DEF GInd, Group!TypeOK
  <2> QED
    BY <1>1, <2>2, <2>4, <2>5 DEF GInd
<1>4. CASE ~(n < s /\ Group!HasNext(ipNumber))
  <2>1. state' = "spent" /\ UNCHANGED <<text, gens, ipNumber>>
    BY <1>4 DEF Group!RunStep
  <2>2. Group!InHand' = << >>
    BY <2>1 DEF Group!InHand
  <2>3. Ledger(p)'
    BY <1>1, <1>2, <2>1, <2>2 DEF Ledger
  <2>4. Group!TypeOK'
    BY <1>1, <2>1 DEF GInd, Group!TypeOK
  <2> QED
    BY <1>1, <1>2, <2>1, <2>3, <2>4 DEF GInd
<1> QED
  BY <1>3, <1>4

LEMMA TakeStepGroup == ASSUME GInd, Group!Take PROVE GInd'
<1>0. /\ UNCHANGED <<gens, ipNumber, mode, size, count, text, added, abandoned, expect, lost, repeated>>
      /\ state = "held" /\ state' = "taken" /\ out' = Append(out, text)
  BY DEF Group!Take
<1>1. PICK p \in Seq(Group!IPs) : Ledger(p)
  BY DEF GInd
<1> PICK h : h = text
  OBVIOUS
<1>2. h \in Group!IPs /\ << >> \in Seq(Group!IPs) /\ out \in Seq(Group!IPs) /\ mode \in {"all", "step"}
  BY HandTypes DEF GInd, Group!TypeOK
<1>3. Ledger(p)'
  <2> SUFFICES ASSUME ~lost, ~repeated, NEW ip \in Group!IPs
               PROVE  Group!Count(out' \o Group!InHand', ip) = Group!Count(p \o Ahead', ip)
    BY <1>0, <1>1 DEF Ledger
  <2>1. Group!Count(out \o Group!InHand, ip) = Group!Count(p \o Ahead, ip)
    BY <1>1 DEF Ledger
  <2>2. Group!InHand' = << >> /\ Ahead = << >> /\ out' = Append(out, h)
    BY <1>0 DEF Group!InHand, Ahead
  <2>3. /\ Group!Count(Append(out, h) \o << >>, ip)
             = Group!Count(out, ip) + Group!Count(<<h>>, ip) + Group!Count(<< >>, ip)
        /\ Group!Count(out \o << >>, ip) = Group!Count(out, ip) + Group!Count(<< >>, ip)
        /\ Group!Count(out \o <<h>>, ip) = Group!Count(out, ip) + Group!Count(<<h>>, ip)
        /\ Group!Count(out, ip) \in Nat /\ Group!Count(<<h>>, ip) \in Nat /\ Group!Count(<< >>, ip) = 0
    BY <1>2, CountOne
  <2>4. /\ Group!Count(p \o << >>, ip) = Group!Count(p, ip) + Group!Count(<< >>, ip)
        /\ Group!Count(p \o <<h>>, ip) = Group!Count(p, ip) + Group!Count(<<h>>, ip)
        /\ Group!Count(p, ip) \in Nat
    BY <1>2, CountOne
  <2>5. CASE mode = "all"
    <3>1. Group!InHand = << >> /\ Ahead' = <<h>>
      BY <1>0, <2>5 DEF Group!InHand, Ahead
    <3> QED
      BY <2>1, <2>2, <2>3, <2>4, <3>1
  <2>6. CASE mode = "step"
    <3>1. Group!InHand = <<h>> /\ Ahead' = << >>
      BY <1>0, <2>6 DEF Group!InHand, Ahead
    <3> QED
      BY <2>1, <2>2, <2>3, <2>4, <3>1
  <2> QED
    BY <1>2, <2>5, <2>6
<1>4. Group!TypeOK'
  BY <1>0, <1>2 DEF GInd, Group!TypeOK
<1> QED
  BY <1>0, <1>3, <1>4 DEF GInd, Group!Live

\* A source destroyed while genIpRange(n) holds an address loses it; one destroyed
\* after genIpRange() gave an address repeats it; any other leaves the accounts right.
LEMMA DropStep == ASSUME GInd, Group!Drop PROVE GInd'
<1>0. /\ UNCHANGED <<gens, ipNumber, mode, size, count, text, added, expect, out>>
      /\ Group!Live /\ state' = "none" /\ abandoned' = abandoned + 1 /\ abandoned < GroupDrops
      /\ lost' = (lost \/ (state = "held" /\ mode = "step"))
      /\ repeated' = (repeated \/ (state = "taken" /\ mode = "all"))
  BY DEF Group!Drop
<1>1. PICK p \in Seq(Group!IPs) : Ledger(p)
  BY DEF GInd
<1>2. Group!InHand' = << >> /\ Ahead' = << >>
  BY <1>0 DEF Group!InHand, Ahead
<1>3. ~lost' /\ ~repeated' => ~lost /\ ~repeated /\ Group!InHand = << >> /\ Ahead = << >>
  BY <1>0 DEF Group!InHand, Ahead
<1>4. Ledger(p)'
  BY <1>0, <1>1, <1>2, <1>3 DEF Ledger
<1>5. Group!TypeOK'
  <2>1. lost' \in BOOLEAN /\ repeated' \in BOOLEAN
    BY <1>0
  <2>2. abandoned' \in 0 .. GroupDrops
    BY <1>0 DEF GInd, Group!TypeOK
  <2> QED
    BY <1>0, <2>1, <2>2 DEF GInd, Group!TypeOK
<1>6. ~Group!Live'
  BY <1>0 DEF Group!Live
<1> QED
  BY <1>0, <1>4, <1>5, <1>6 DEF GInd

LEMMA GNext == ASSUME GInd, [Group!Next]_(Group!vars) PROVE GInd'
<1>1. ASSUME NEW b \in Ends, NEW e \in Ends, Group!addIpRange(b, e) PROVE GInd'
  BY <1>1, AddStep
<1>2. CASE Group!genIpRange
  <2>1. /\ ~Group!Live /\ mode' = "all" /\ Group!RunAll(gens, ipNumber)
        /\ UNCHANGED <<added, abandoned, expect, out, lost, repeated>>
    BY <1>2 DEF Group!genIpRange, Group!history
  <2> QED
    BY <2>1, RunAllStep
<1>3. ASSUME NEW s \in GroupSteps, Group!genIpRangeStep(s) PROVE GInd'
  <2>1. /\ ~Group!Live /\ mode' = "step" /\ size' = s /\ Group!RunStep(s, 0) /\ 0 \in Nat
        /\ UNCHANGED <<added, abandoned, expect, out, lost, repeated>>
    BY <1>3 DEF Group!genIpRangeStep, Group!history
  <2> QED
    BY <2>1, RunStepStep
<1>4. CASE Group!Resume
  <2>0. state = "taken" /\ mode' = mode /\ UNCHANGED <<added, abandoned, expect, out, lost, repeated>>
    BY <1>4 DEF Group!Resume, Group!history
  <2>1. CASE mode = "all" /\ Group!RunAll(Group!PopFront(gens), ipNumber - 1)
    BY <2>0, <2>1, RunAllStep
  <2>2. CASE mode = "step" /\ Group!RunStep(size, count + 1) /\ UNCHANGED size
    <3>1. size \in GroupSteps \cup {0} /\ count + 1 \in Nat
      BY DEF GInd, Group!TypeOK
    <3>2. PICK s \in GroupSteps \cup {0}, n \in Nat : s = size /\ n = count + 1
      BY <3>1
    <3> QED
      BY <2>0, <2>2, <3>2, RunStepStep
  <2> QED
    BY <1>4, <2>1, <2>2 DEF Group!Resume
<1>5. CASE UNCHANGED Group!vars
  <2>1. /\ UNCHANGED <<gens, ipNumber, state, mode, size, count, text, added, abandoned>>
        /\ UNCHANGED <<expect, out, lost, repeated>>
    BY <1>5 DEF Group!vars, Group!source, Group!history
  <2>2. Group!InHand' = Group!InHand /\ Ahead' = Ahead /\ Group!Live' = Group!Live
    BY <2>1 DEF Group!InHand, Ahead, Group!Live
  <2> QED
    BY <2>1, <2>2 DEF GInd, Group!TypeOK, Ledger
<1> QED
  BY <1>1, <1>2, <1>3, <1>4, <1>5, ClearStep, NextStep, TakeStepGroup, DropStep DEF Group!Next

LEMMA GIndIsGroupInv == ASSUME GInd PROVE Group!GroupInv
<1>1. Group!TotalMatchesList
  <2>1. ipNumber = Len(Group!Flatten(gens))
    BY DEF GInd
  <2> QED
    BY <2>1, HandTypes DEF Group!TotalMatchesList, Group!HasNext
<1>2. Group!NoSpentGenerator
  BY ListsType DEF GInd, Group!NoSpentGenerator
<1>3. Group!EachAddressOnce
  <2> DEFINE left == Group!Flatten(gens)
             inList == IF state = "taken" /\ mode = "all" THEN Tail(left) ELSE left
             oh == out \o Group!InHand
  <2> SUFFICES ASSUME ~lost, ~repeated, NEW ip \in Group!IPs
               PROVE  Group!Count(oh \o inList, ip) = Group!Count(expect, ip)
    BY DEF Group!EachAddressOnce
  <2>1. PICK p \in Seq(Group!IPs) : Ledger(p)
    BY DEF GInd
  <2>2. /\ oh \in Seq(Group!IPs) /\ left \in Seq(Group!IPs) /\ text \in Group!IPs
        /\ << >> \in Seq(Group!IPs)
    BY HandTypes, ConcatProperties
  <2>3. Group!Count(oh, ip) = Group!Count(p \o Ahead, ip) /\ expect = p \o left
    BY <2>1 DEF Ledger
  <2> HIDE DEF left, oh
  <2>4. Group!Count(p \o left, ip) = Group!Count(p, ip) + Group!Count(left, ip)
    BY <2>2, CountConcat
  <2>5. CASE state = "taken" /\ mode = "all"
    <3>1. Ahead = <<text>> /\ gens # << >> /\ text = Head(gens).begin
      BY <2>5 DEF Ahead, GInd, Group!Live
    <3>2. left # << >> /\ Head(left) = text
      BY <3>1, FlattenPop DEF left, GInd
    <3>3. Tail(left) \in Seq(Group!IPs) /\ left = <<text>> \o Tail(left) /\ <<text>> \in Seq(Group!IPs)
      BY <2>2, <3>2
    <3> DEFINE one == <<text>>
               tl == Tail(left)
    <3>4. one \in Seq(Group!IPs) /\ tl \in Seq(Group!IPs) /\ left = one \o tl
      BY <3>3
    <3> HIDE DEF one, tl
    <3>5. Group!Count(one \o tl, ip) = Group!Count(one, ip) + Group!Count(tl, ip)
      BY <3>4, CountConcat
    <3>6. Group!Count(oh \o tl, ip) = Group!Count(oh, ip) + Group!Count(tl, ip)
      BY <2>2, <3>4, CountConcat
    <3>7. Group!Count(p \o one, ip) = Group!Count(p, ip) + Group!Count(one, ip)
      BY <2>1, <3>4, CountConcat
    <3>8. Group!Count(p, ip) \in Nat /\ Group!Count(one, ip) \in Nat /\ Group!Count(tl, ip) \in Nat
      BY <2>1, <3>4, CountConcat
    <3>9. Ahead = one /\ inList = tl
      BY <2>5, <3>1 DEF one, tl
    <3> HIDE DEF inList
    <3> QED
      BY <2>3, <2>4, <3>4, <3>5, <3>6, <3>7, <3>8, <3>9
  <2>6. CASE ~(state = "taken" /\ mode = "all")
    <3>1. Ahead = << >> /\ p \o << >> = p
      BY <2>6 DEF Ahead
    <3>2. Group!Count(oh \o left, ip) = Group!Count(oh, ip) + Group!Count(left, ip)
      BY <2>2, CountConcat
    <3> QED
      BY <2>3, <2>4, <2>6, <3>1, <3>2
  <2> QED
    BY <2>5, <2>6
<1> QED
  BY <1>1, <1>2, <1>3 DEF Group!GroupInv, GInd

\* For every width, every set of ranges added and every mix of addIpRange, clear,
\* next() and sources of both kinds, abandoned ones included, ipNumber_ is the number
\* of addresses in the list, and each address of each range added is in one place.
THEOREM GroupCorrect == MCSpec => []GroupInv
<1>1. MCInit => GInd
  BY GInit DEF MCInit
<1>2. GInd /\ [MCNext]_<<vars, generator, group, object>> => GInd'
  <2>1. UNCHANGED group => UNCHANGED Group!vars
    BY DEF group, Group!vars, Group!source, Group!history
  <2> QED
    BY <2>1, GNext DEF MCNext, group
<1>3. GInd => GroupInv
  BY GIndIsGroupInv DEF GroupInv
<1> QED
  BY <1>1, <1>2, <1>3, PTL DEF MCSpec
=============================================================================

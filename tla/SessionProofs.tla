---------------------------- MODULE SessionProofs ----------------------------
(***************************************************************************)
(* Theorems about Session for every size of upload and of response.         *)
(***************************************************************************)
EXTENDS Session, SequenceTheorems, TLAPS

\* The life of the response and the flag running_, on which the answer to
\* "has this session answered?" rests: a session that runs has a response
\* under construction, one that has given its response does not run, and a
\* stopped session that still owns its response is inside clean().
LifeInv ==
  /\ running \in BOOLEAN
  /\ spoiled = FALSE
  /\ resp \in {"none", "building", "given", "deleted"}
  /\ resp \in {"none", "building"} => answers = 0
  /\ resp \in {"given", "deleted"} => answers = 1
  /\ running => resp = "building"
  /\ resp = "building" => running \/ pc = "closing"
  /\ pc = "closing" => resp = "building" /\ ~running /\ err \in Codes
  /\ pc = "consumer" => resp = "given"
  /\ pc = "new" => resp = "none" /\ delay = "none"
  /\ delay # "none" => resp = "none"
  /\ opRes \in {"waiting", "ok", "eof", "error", "aborted"}

\* Initial states.
LEMMA InitLife == Init => LifeInv
BY DEF Init, LifeInv

\* yield() with an error code keeps the invariant when the response is still
\* the session's own.
LEMMA YieldLife ==
  ASSUME LifeInv, running = TRUE, pc \in {"loop"}, NEW ec \in Codes, NEW o,
         NEW r \in {"waiting", "ok", "eof", "error", "aborted"}, NEW t,
         yield(ec, o, r, t), delay' = delay
  PROVE  LifeInv'
<1>1. clean(ec, o, r, t)
  BY DEF yield, Codes
<1>2. resp = "building" /\ answers = 0 /\ spoiled = FALSE /\ delay' = "none"
  BY DEF LifeInv
<1>3. running' = FALSE
  BY <1>1 DEF clean
<1>4. opRes' \in {"waiting", "ok", "eof", "error", "aborted"}
  BY <1>1 DEF clean, Abort
<1>5. CASE MustWaitForPeer(ec)
  <2>1. pc' = "closing" /\ resp' = resp /\ answers' = answers /\ spoiled' = spoiled /\ err' = ec
    BY <1>1, <1>5 DEF clean
  <2> QED BY <1>2, <1>3, <1>4, <2>1 DEF LifeInv
<1>6. CASE ~MustWaitForPeer(ec)
  <2>1. pc' = "consumer" /\ resp' = "given" /\ answers' = 1
    BY <1>1, <1>2, <1>6 DEF clean, Give
  <2>2. spoiled' = FALSE
    BY <1>1, <1>2, <1>6 DEF clean, Give
  <2> QED BY <1>2, <1>3, <1>4, <2>1, <2>2 DEF LifeInv
<1> QED BY <1>5, <1>6

\* Starting the next operation keeps it.
LEMMA ContinueLife ==
  ASSUME LifeInv, NEW o, NEW k, NEW t, Continue(o, k, t), delay' = delay
  PROVE  LifeInv'
BY DEF LifeInv, Continue

\* So does whatever follows a connection or a write.
LEMMA WriteLife ==
  ASSUME LifeInv, running = TRUE, pc = "loop", NEW t, delay' = delay,
         writeContent(t) \/ inFileUpload(t)
  PROVE  LifeInv'
<1>1. ASSUME inFileUpload(t) PROVE LifeInv'
  <2>1. CASE req.file.readable
    BY <1>1, <2>1, ContinueLife DEF inFileUpload
  <2>2. CASE ~req.file.readable
    BY <1>1, <2>2, YieldLife DEF inFileUpload, Codes
  <2> QED BY <2>1, <2>2
<1>2. ASSUME writeContent(t) PROVE LifeInv'
  <2>1. CASE ~req.upload
    BY <1>2, <2>1, ContinueLife DEF writeContent
  <2>2. CASE req.upload /\ req.tagFound
    BY <1>2, <2>2, ContinueLife DEF writeContent
  <2>3. CASE req.upload /\ ~req.tagFound
    BY <1>2, <2>3, <1>1 DEF writeContent
  <2> QED BY <2>1, <2>2, <2>3
<1> QED BY <1>1, <1>2

\* Every step preserves the invariant.
LEMMA NextLife == LifeInv /\ [Next]_vars => LifeInv'
<1> SUFFICES ASSUME LifeInv, [Next]_vars PROVE LifeInv'
  OBVIOUS
<1>0. ASSUME NEW o, Handler(o) PROVE running = TRUE /\ pc = "loop"
  BY <1>0 DEF Handler, Ignored, LifeInv
<1>1. CASE run
  <2>1. resp = "none" /\ ~running /\ answers = 0 /\ delay = "none" /\ spoiled' = spoiled
    BY <1>1 DEF run, LifeInv
  <2>2. CASE pc' = "loop" /\ delay' = "waiting" /\ UNCHANGED <<running, conn, timer, answer>>
    BY <2>1, <2>2 DEF LifeInv, conn, answer
  <2>3. CASE pc' = "loop" /\ runResolved /\ UNCHANGED delay
    BY <2>1, <2>3 DEF LifeInv, runResolved
  <2>4. CASE runThrows /\ UNCHANGED delay
    BY <2>1, <2>4 DEF LifeInv, runThrows, conn
  <2> QED BY <1>1, <2>2, <2>3, <2>4 DEF run
<1>2. CASE onDelay
  BY <1>2 DEF onDelay, runResolved, runThrows, LifeInv, conn
<1>3. CASE onIgnored
  BY <1>3 DEF onIgnored, LifeInv, kept, answer
<1>4. CASE onFailure
  <2>1. running = TRUE /\ pc = "loop" /\ delay' = delay
    BY <1>4, <1>0 DEF onFailure, kept
  <2>2. opRes \in Codes
    BY <1>4 DEF onFailure, Handler, Ignored, LifeInv, Codes
  <2> QED BY <1>4, <2>1, <2>2, YieldLife DEF onFailure
<1>5. CASE onConnect
  <2>1. running = TRUE /\ pc = "loop" /\ delay' = delay
    BY <1>5, <1>0 DEF onConnect, kept
  <2> QED BY <1>5, <2>1, WriteLife, ContinueLife DEF onConnect
<1>6. CASE onHandshake
  <2>1. running = TRUE /\ pc = "loop" /\ delay' = delay
    BY <1>6, <1>0 DEF onHandshake, kept
  <2> QED BY <1>6, <2>1, WriteLife DEF onHandshake
<1>7. CASE onWritten
  <2>1. running = TRUE /\ pc = "loop" /\ delay' = delay
    BY <1>7, <1>0 DEF onWritten, kept
  <2>2. op \in {"write", "prefix", "chunk", "suffix"}
    BY <1>7 DEF onWritten, Handler
  <2>3. CASE op \in {"write", "suffix"}
    BY <1>7, <2>1, <2>3, ContinueLife DEF onWritten, written
  <2>4. CASE op = "prefix"
    BY <1>7, <2>1, <2>4, WriteLife DEF onWritten, written
  <2>5. CASE op = "chunk"
    BY <1>7, <2>1, <2>5, ContinueLife DEF onWritten, written
  <2> QED BY <2>2, <2>3, <2>4, <2>5
<1>8. CASE onRead
  <2>1. running = TRUE
    BY <1>8, <1>0 DEF onRead
  <2> QED BY <1>8, <2>1 DEF onRead, LifeInv, kept
<1>9. CASE onTimer
  <2>1. CASE ~running \/ timer = "aborted"
    BY <1>9, <2>1 DEF onTimer, LifeInv, kept
  <2>2. CASE ~(~running \/ timer = "aborted")
    <3>1. running = TRUE /\ pc = "loop" /\ delay' = delay
      BY <1>9, <2>2 DEF onTimer, LifeInv, kept
    <3>2. opRes \in {"waiting", "ok", "eof", "error", "aborted"}
      BY DEF LifeInv
    <3> QED BY <1>9, <2>2, <3>1, <3>2, YieldLife DEF onTimer, Codes
  <2> QED BY <2>1, <2>2
<1>10. CASE shutdownReturns
  BY <1>10 DEF shutdownReturns, Give, Abort, LifeInv
<1>11. CASE resumeSession
  <2>1. ~running
    BY <1>11 DEF resumeSession, LifeInv
  <2> QED BY <1>11, <2>1 DEF resumeSession, LifeInv, answer
<1>12. CASE consumerReturns
  BY <1>12 DEF consumerReturns, LifeInv, conn
<1>13. CASE ioServiceEnds
  BY <1>13 DEF ioServiceEnds, LifeInv, conn, answer
<1>14. CASE Complete
  BY <1>14 DEF Complete, Results, LifeInv, answer
<1>15. CASE timerExpires \/ delayExpires
  BY <1>15 DEF timerExpires, delayExpires, LifeInv, conn, answer
<1>16. CASE Finished \/ UNCHANGED vars
  BY <1>16 DEF Finished, vars, LifeInv, conn, answer
<1> QED
  BY <1>1, <1>2, <1>3, <1>4, <1>5, <1>6, <1>7, <1>8, <1>9, <1>10, <1>11,
     <1>12, <1>13, <1>14, <1>15, <1>16 DEF Next

\* The invariant holds throughout.
THEOREM LifeCorrect == Spec => []LifeInv
BY InitLife, NextLife, PTL DEF Spec

\* Whatever the order of completions, expiry and cancellation, a session
\* answers at most once and never touches a response it has given away.
THEOREM AnswersOnce == Spec => []OneResponse
<1>1. LifeInv => OneResponse
  BY DEF LifeInv, OneResponse
<1> QED
  BY <1>1, LifeCorrect, PTL

-----------------------------------------------------------------------------
\* What a step may do to the contract's view of the session.
Kept == Phase' = Phase /\ Code' = Code

\* yield() with an error code answers, or begins to close.
LEMMA YieldRefines ==
  ASSUME LifeInv, running = TRUE, pc = "loop", NEW ec \in Codes, NEW o, NEW r, NEW t,
         yield(ec, o, r, t)
  PROVE  Kept \/ C!Respond
<1>1. clean(ec, o, r, t)
  BY DEF yield, Codes
<1>2. resp = "building" /\ Phase = "open" /\ Code = "none"
  BY DEF LifeInv, Phase, Code
<1>3. CASE MustWaitForPeer(ec)
  <2>1. pc' = "closing" /\ resp' = "building"
    BY <1>1, <1>2, <1>3 DEF clean
  <2> QED BY <1>2, <2>1 DEF Kept, Phase, Code
<1>4. CASE ~MustWaitForPeer(ec)
  <2>1. pc' = "consumer" /\ resp' = "given" /\ err' = ec
    BY <1>1, <1>2, <1>4 DEF clean, Give
  <2>2. Phase' = "answered" /\ Code' = ec
    BY <2>1 DEF Phase, Code
  <2> QED BY <1>2, <2>2 DEF C!Respond
<1> QED BY <1>3, <1>4

\* Starting the next operation is invisible to the contract.
LEMMA ContinueRefines ==
  ASSUME NEW o, NEW k, NEW t, Continue(o, k, t)
  PROVE  Kept
BY DEF Continue, Kept, Phase, Code

\* So is, or answers, whatever follows a connection or a write.
LEMMA WriteRefines ==
  ASSUME LifeInv, running = TRUE, pc = "loop", NEW t, writeContent(t) \/ inFileUpload(t)
  PROVE  Kept \/ C!Respond
<1>1. ASSUME inFileUpload(t) PROVE Kept \/ C!Respond
  <2>1. CASE req.file.readable
    BY <1>1, <2>1, ContinueRefines DEF inFileUpload
  <2>2. CASE ~req.file.readable
    BY <1>1, <2>2, YieldRefines DEF inFileUpload, Codes
  <2> QED BY <2>1, <2>2
<1>2. ASSUME writeContent(t) PROVE Kept \/ C!Respond
  <2>1. CASE ~req.upload
    BY <1>2, <2>1, ContinueRefines DEF writeContent
  <2>2. CASE req.upload /\ req.tagFound
    BY <1>2, <2>2, ContinueRefines DEF writeContent
  <2>3. CASE req.upload /\ ~req.tagFound
    BY <1>2, <2>3, <1>1 DEF writeContent
  <2> QED BY <2>1, <2>2, <2>3
<1> QED BY <1>1, <1>2

\* The resolver's two outcomes are the contract's Start and Throw.
LEMMA RunRefines ==
  ASSUME resp = "none", pc \in {"new", "loop"}
  PROVE  /\ runResolved /\ pc' = "loop" => C!Start
         /\ runThrows => C!Throw
BY DEF runResolved, runThrows, Phase, Code, C!Start, C!Throw

\* Every step of a session is a step of the contract or invisible to it.
LEMMA StepRefines == LifeInv /\ LifeInv' /\ [Next]_vars => [C!CNext]_(C!contractVars)
<1> SUFFICES ASSUME LifeInv, LifeInv', [Next]_vars
             PROVE  Kept \/ C!Start \/ C!Throw \/ C!Respond
  BY DEF Kept, C!CNext, C!contractVars
<1>0. ASSUME NEW o, Handler(o) PROVE running = TRUE /\ pc = "loop"
  BY <1>0 DEF Handler, Ignored, LifeInv
<1>1. CASE run
  <2>1. resp = "none" /\ pc = "new"
    BY <1>1 DEF run, LifeInv
  <2>2. CASE pc' = "loop" /\ UNCHANGED answer
    BY <2>1, <2>2 DEF Kept, Phase, Code, answer
  <2> QED BY <1>1, <2>1, <2>2, RunRefines DEF run
<1>2. CASE onDelay
  <2>1. resp = "none" /\ pc = "loop"
    BY <1>2 DEF onDelay, LifeInv
  <2> QED BY <1>2, <2>1, RunRefines DEF onDelay
<1>3. CASE onIgnored
  BY <1>3 DEF onIgnored, Kept, Phase, Code, answer
<1>4. CASE onFailure
  <2>1. running = TRUE /\ pc = "loop"
    BY <1>4, <1>0 DEF onFailure
  <2>2. opRes \in Codes
    BY <1>4 DEF onFailure, Handler, Ignored, LifeInv, Codes
  <2> QED BY <1>4, <2>1, <2>2, YieldRefines DEF onFailure
<1>5. CASE onConnect
  <2>1. running = TRUE /\ pc = "loop"
    BY <1>5, <1>0 DEF onConnect
  <2> QED BY <1>5, <2>1, WriteRefines, ContinueRefines DEF onConnect
<1>6. CASE onHandshake
  <2>1. running = TRUE /\ pc = "loop"
    BY <1>6, <1>0 DEF onHandshake
  <2> QED BY <1>6, <2>1, WriteRefines DEF onHandshake
<1>7. CASE onWritten
  <2>1. running = TRUE /\ pc = "loop"
    BY <1>7, <1>0 DEF onWritten
  <2>2. op \in {"write", "prefix", "chunk", "suffix"}
    BY <1>7 DEF onWritten, Handler
  <2>3. CASE op \in {"write", "suffix"}
    BY <1>7, <2>3, ContinueRefines DEF onWritten, written
  <2>4. CASE op = "prefix"
    BY <1>7, <2>1, <2>4, WriteRefines DEF onWritten, written
  <2>5. CASE op = "chunk"
    BY <1>7, <2>5, ContinueRefines DEF onWritten, written
  <2> QED BY <2>2, <2>3, <2>4, <2>5
<1>8. CASE onRead
  BY <1>8 DEF onRead, Kept, Phase, Code
<1>9. CASE onTimer
  <2>1. CASE ~running \/ timer = "aborted"
    BY <1>9, <2>1 DEF onTimer, Kept, Phase, Code
  <2>2. CASE ~(~running \/ timer = "aborted")
    <3>1. running = TRUE /\ pc = "loop"
      BY <1>9, <2>2 DEF onTimer, LifeInv
    <3> QED BY <1>9, <2>2, <3>1, YieldRefines DEF onTimer, Codes
  <2> QED BY <2>1, <2>2
<1>10. CASE shutdownReturns
  <2>1. resp = "building" /\ pc # "thrown" /\ err \in Codes
    BY <1>10 DEF shutdownReturns, LifeInv
  <2>2. Phase = "open" /\ Phase' = "answered" /\ Code' = err
    BY <1>10, <2>1 DEF shutdownReturns, Give, Phase, Code
  <2> QED BY <2>1, <2>2 DEF C!Respond
<1>11. CASE resumeSession
  <2>1. ~running
    BY <1>11 DEF resumeSession, LifeInv
  <2> QED BY <1>11, <2>1 DEF resumeSession, Kept, Phase, Code, answer
<1>12. CASE consumerReturns
  <2>1. resp = "given" /\ ~running
    BY <1>12 DEF consumerReturns, LifeInv
  <2> QED BY <1>12, <2>1 DEF consumerReturns, Kept, Phase, Code
<1>13. CASE ioServiceEnds
  BY <1>13 DEF ioServiceEnds, Kept, Phase, Code, answer
<1>14. CASE Complete
  BY <1>14 DEF Complete, Kept, Phase, Code, answer
<1>15. CASE timerExpires \/ delayExpires
  BY <1>15 DEF timerExpires, delayExpires, Kept, Phase, Code, answer
<1>16. CASE Finished \/ UNCHANGED vars
  BY <1>16 DEF Finished, vars, Kept, Phase, Code, answer
<1> QED
  BY <1>1, <1>2, <1>3, <1>4, <1>5, <1>6, <1>7, <1>8, <1>9, <1>10, <1>11,
     <1>12, <1>13, <1>14, <1>15, <1>16 DEF Next

\* The session implements the contract that its submitter relies on: it starts
\* once or throws, and answers once with an error code, for every upload size.
THEOREM SessionRefinesContract == Spec => ImplementsContract
<1>1. Init => C!CInit
  BY DEF Init, C!CInit, Phase, Code
<1>2. LifeInv /\ LifeInv' /\ [Next]_vars => [C!CNext]_(C!contractVars)
  BY StepRefines
<1> QED
  BY <1>1, <1>2, LifeCorrect, PTL DEF Spec, ImplementsContract, C!Contract
-----------------------------------------------------------------------------
\* What goes over the wire.  How many pieces a request has, and the i-th.
PieceCount(r) ==
  IF ~r.upload THEN 1
  ELSE r.file.chunks + (IF r.tagFound THEN 2 ELSE 0)

Piece(r, i) ==
  IF ~r.upload THEN <<"write", 0>>
  ELSE IF ~r.tagFound THEN <<"chunk", i>>
  ELSE IF i = 1 THEN <<"prefix", 0>>
  ELSE IF i = PieceCount(r) THEN <<"suffix", 0>>
  ELSE <<"chunk", i - 1>>

Writes == {"write", "prefix", "chunk", "suffix"}
WirePieces == (Ops \X {0}) \cup ({"chunk"} \X (1 .. MaxChunks))

\* Operation o, with k pieces of the file read, is the one that comes after n
\* pieces of the request.
Comes(r, o, k, n) ==
  /\ o \in {"connect", "handshake"} => n = 0
  /\ o = "write" => ~r.upload /\ n = 0
  /\ o = "prefix" => r.tagFound /\ n = 0
  /\ o = "chunk" => /\ r.upload /\ k \in 1 .. r.file.chunks
                    /\ n = k - (IF r.tagFound THEN 0 ELSE 1)
  /\ o = "suffix" => r.tagFound /\ n = r.file.chunks + 1
  /\ o = "read" => n = PieceCount(r)

\* The pieces sent are the first ones of the request; the outstanding operation
\* writes the next one, or has written the last of them; and a code is only set
\* when the session stops, with eof for a read and not_found before the file.
WireInv ==
  /\ Len(sent) <= PieceCount(req)
  /\ \A i \in 1 .. Len(sent) : sent[i] = Piece(req, i)
  /\ IF op \in Writes /\ opRes = "ok"
     THEN sent # << >> /\ Comes(req, op, pos, Len(sent) - 1)
     ELSE Comes(req, op, pos, Len(sent))
  /\ opRes = "eof" => op = "read"
  /\ op = "read" /\ opRes = "ok" => content < MaxReads
  /\ resp = "none" => sent = << >> /\ op = "none"
  /\ running \/ resp = "none" => err = "none"
  /\ err \in {"eof", "not_found"} => op = "none"
  /\ err = "eof" => Len(sent) = PieceCount(req)
  /\ err = "not_found" => sent = << >> \/ (req.tagFound /\ Len(sent) = 1)

\* All of the session's state.
AllInv == LifeInv /\ TypeOK /\ WireInv

\* The parts of a request.
LEMMA RequestParts ==
  ASSUME NEW r \in Requests
  PROVE  /\ r.upload \in BOOLEAN /\ r.tagFound \in BOOLEAN /\ r.final \in BOOLEAN
         /\ r.file.readable \in BOOLEAN /\ r.file.partial \in BOOLEAN
         /\ r.file.chunks \in 0 .. MaxChunks /\ r.file.chunks \in Nat
         /\ r.tagFound => r.upload
         /\ PieceCount(r) \in Nat
<1>1. r \in RequestFields /\ (~r.upload => ~r.tagFound)
  BY DEF Requests
<1>2. r.upload \in BOOLEAN /\ r.tagFound \in BOOLEAN /\ r.final \in BOOLEAN /\ r.file \in Files
  BY <1>1 DEF RequestFields
<1>3. /\ r.file.readable \in BOOLEAN /\ r.file.partial \in BOOLEAN
      /\ r.file.chunks \in 0 .. MaxChunks /\ r.file.chunks \in Nat
  BY <1>2, MaxChunksAssumption DEF Files
<1> QED
  BY <1>1, <1>2, <1>3 DEF PieceCount

\* The first states: nothing is sent.
LEMMA InitAll == Init => AllInv
<1> SUFFICES ASSUME Init PROVE AllInv
  OBVIOUS
<1>1. sent = << >> /\ Len(sent) = 0 /\ sent \in Seq(WirePieces)
  BY EmptySeq DEF Init
<1>2. 0 \in 0 .. MaxChunks /\ 0 \in 0 .. MaxReads
  BY MaxChunksAssumption, MaxReadsAssumption
<1>3. TypeOK
  BY <1>1, <1>2 DEF Init, TypeOK, WirePieces, Ops
<1>4. WireInv
  BY <1>1, RequestParts DEF Init, WireInv, Comes, Writes
<1> QED
  BY <1>3, <1>4, InitLife DEF AllInv

\* Starting an operation that comes next.
LEMMA ContinueWire ==
  ASSUME AllInv, NEW o \in Ops \ {"none"}, NEW k \in 0 .. MaxChunks,
         NEW t \in {"none", "waiting", "expired", "aborted"},
         Continue(o, k, t), UNCHANGED <<content, kept>>, running = TRUE,
         Comes(req, o, IF o = "chunk" THEN k + 1 ELSE k, Len(sent))
  PROVE  TypeOK' /\ WireInv'
<1>1. /\ op' = o /\ opRes' = "waiting" /\ pos' = IF o = "chunk" THEN k + 1 ELSE k
      /\ timer' = t /\ UNCHANGED <<pc, running, socket, resp, err, answers, spoiled>>
      /\ UNCHANGED <<content, req, secured, sent, delay, resumed>>
  BY DEF Continue, kept
<1>2. pos' \in 0 .. MaxChunks
  BY <1>1, RequestParts, MaxChunksAssumption DEF Comes, AllInv, TypeOK
<1>3. TypeOK'
  BY <1>1, <1>2 DEF AllInv, TypeOK
<1>4. resp = "building" /\ err = "none"
  BY DEF AllInv, LifeInv, WireInv
<1>5. WireInv'
  BY <1>1, <1>4 DEF AllInv, WireInv
<1> QED
  BY <1>3, <1>5

\* Stopping with a code: at a timeout, or when an operation is over and the
\* code tells of it.
LEMMA YieldWire ==
  ASSUME AllInv, running = TRUE, NEW ec \in Codes, NEW o, NEW r,
         NEW t \in {"none", "waiting", "expired", "aborted"},
         yield(ec, o, r, t), UNCHANGED <<pos, content, kept>>,
         \/ ec \notin {"eof", "not_found"} /\ o = op /\ r = opRes
         \/ o = "none" /\ r = "waiting",
         ec = "eof" => Len(sent) = PieceCount(req),
         ec = "not_found" => sent = << >> \/ (req.tagFound /\ Len(sent) = 1)
  PROVE  TypeOK' /\ WireInv'
<1>1. clean(ec, o, r, t)
  BY DEF yield, Codes
<1>2. UNCHANGED <<pos, content, req, secured, sent, delay, resumed>>
  BY DEF kept
<1>3. /\ running' = FALSE /\ timer' = Abort(t) /\ op' = o /\ err' = ec
      /\ opRes' \in {r, Abort(r)}
      /\ pc' \in {"closing", "consumer"} /\ spoiled' \in BOOLEAN
      /\ socket' \in {socket, "closed"} /\ resp' \in {resp, "given"}
      /\ answers' \in {answers, answers + 1}
  BY <1>1 DEF clean, Give, AllInv, TypeOK
<1>4. resp = "building" /\ resp' # "none"
  BY <1>3 DEF AllInv, LifeInv
<1>5. TypeOK'
  <2>1. op' \in Ops /\ opRes' \in {"waiting", "ok", "eof", "error", "aborted"}
    BY <1>3 DEF AllInv, TypeOK, Abort, Ops
  <2>2. timer' \in {"none", "waiting", "expired", "aborted"} /\ err' \in Codes \cup {"none"}
    BY <1>3 DEF Abort
  <2>3. socket' \in {"none", "open", "closed"} /\ resp' \in {"none", "building", "given", "deleted"}
    BY <1>3 DEF AllInv, TypeOK
  <2>4. answers' \in Nat
    BY <1>3 DEF AllInv, TypeOK
  <2>5. running' \in BOOLEAN /\ spoiled' \in BOOLEAN
    BY <1>3
  <2>6. pc' \in {"new", "loop", "closing", "consumer", "ended", "thrown"}
    BY <1>3
  <2> QED
    BY <1>2, <2>1, <2>2, <2>3, <2>4, <2>5, <2>6 DEF AllInv, TypeOK
<1>6. IF op' \in Writes /\ opRes' = "ok"
      THEN sent # << >> /\ Comes(req, op', pos, Len(sent) - 1)
      ELSE Comes(req, op', pos, Len(sent))
  BY <1>3 DEF AllInv, WireInv, Abort, Writes, Comes
<1>7. (opRes' = "eof" => op' = "read") /\ (op' = "read" /\ opRes' = "ok" => content < MaxReads)
  BY <1>3 DEF AllInv, WireInv, Abort
<1>8. WireInv'
  BY <1>2, <1>3, <1>4, <1>6, <1>7 DEF AllInv, WireInv
<1> QED
  BY <1>5, <1>8

\* What comes after n pieces, before or after the prefix.
LEMMA FileWire ==
  ASSUME AllInv, running = TRUE, NEW t \in {"none", "waiting", "expired", "aborted"},
         inFileUpload(t), UNCHANGED <<content, kept>>, req.upload,
         Len(sent) = IF req.tagFound THEN 1 ELSE 0
  PROVE  TypeOK' /\ WireInv'
<1>1. req \in Requests /\ 0 \in 0 .. MaxChunks
  BY MaxChunksAssumption DEF AllInv, TypeOK
<1>2. CASE req.file.readable
  <2>1. nextChunk(0) \in Ops \ {"none"} /\ Continue(nextChunk(0), 0, t)
    BY <1>2 DEF inFileUpload, nextChunk, afterFile, Ops
  <2>2. Comes(req, nextChunk(0), IF nextChunk(0) = "chunk" THEN 0 + 1 ELSE 0, Len(sent))
    BY <1>1, RequestParts DEF nextChunk, afterFile, Comes, PieceCount
  <2> QED
    BY <1>1, <2>1, <2>2, ContinueWire
<1>3. CASE ~req.file.readable
  <2>1. sent = << >> \/ (req.tagFound /\ Len(sent) = 1)
    BY <1>1, RequestParts, EmptySeq DEF AllInv, TypeOK
  <2> QED
    BY <1>3, <2>1, YieldWire DEF inFileUpload, Codes
<1> QED
  BY <1>2, <1>3

\* What follows the connection, when nothing is sent yet.
LEMMA ContentWire ==
  ASSUME AllInv, running = TRUE, NEW t \in {"none", "waiting", "expired", "aborted"},
         writeContent(t), UNCHANGED <<content, kept>>, Len(sent) = 0
  PROVE  TypeOK' /\ WireInv'
<1>1. req \in Requests /\ pos \in 0 .. MaxChunks /\ 0 \in 0 .. MaxChunks
  BY MaxChunksAssumption DEF AllInv, TypeOK
<1>2. CASE ~req.upload
  <2>1. Continue("write", pos, t) /\ Comes(req, "write", pos, Len(sent))
    BY <1>2 DEF writeContent, Comes
  <2> QED
    BY <1>1, <2>1, ContinueWire DEF Ops
<1>3. CASE req.upload /\ req.tagFound
  <2>1. Continue("prefix", 0, t) /\ Comes(req, "prefix", 0, Len(sent))
    BY <1>3 DEF writeContent, Comes
  <2> QED
    BY <1>1, <2>1, ContinueWire DEF Ops
<1>4. CASE req.upload /\ ~req.tagFound
  BY <1>4, FileWire DEF writeContent
<1> QED
  BY <1>1, <1>2, <1>3, <1>4, RequestParts

\* The handlers of the writes go on with the piece after the one written.
LEMMA WrittenWire ==
  ASSUME AllInv, onWritten
  PROVE  TypeOK' /\ WireInv'
<1>1. /\ op \in Writes /\ opRes = "ok" /\ running = TRUE /\ written
      /\ UNCHANGED <<content, kept>>
  BY DEF onWritten, Handler, Ignored, Writes, AllInv, LifeInv
<1>2. /\ req \in Requests /\ pos \in 0 .. MaxChunks /\ Len(sent) \in Nat
      /\ timer \in {"none", "waiting", "expired", "aborted"}
  BY LenProperties DEF AllInv, TypeOK
<1>3. Comes(req, op, pos, Len(sent) - 1)
  BY <1>1 DEF AllInv, WireInv
<1>4. CASE op \in {"write", "suffix"}
  <2>1. Continue("read", pos, timer)
    BY <1>1, <1>4 DEF written
  <2>2. Comes(req, "read", pos, Len(sent))
    BY <1>2, <1>3, <1>4, RequestParts DEF Comes, PieceCount
  <2> QED
    BY <1>1, <1>2, <2>1, <2>2, ContinueWire DEF Ops
<1>5. CASE op = "prefix"
  <2>1. inFileUpload(timer) /\ req.upload /\ req.tagFound /\ Len(sent) = 1
    BY <1>1, <1>2, <1>3, <1>5, RequestParts DEF written, Comes
  <2> QED
    BY <1>1, <1>2, <2>1, FileWire
<1>6. CASE op = "chunk"
  <2> DEFINE o == IF AtEof(pos) THEN afterFile ELSE nextChunk(pos)
  <2>1. Continue(o, pos, timer)
    BY <1>1, <1>6 DEF written
  <2>2. o \in Ops \ {"none"}
    BY DEF nextChunk, afterFile, Ops
  <2>3. Comes(req, o, IF o = "chunk" THEN pos + 1 ELSE pos, Len(sent))
    BY <1>2, <1>3, <1>6, RequestParts DEF Comes, PieceCount, nextChunk, afterFile, AtEof
  <2> HIDE DEF o
  <2> QED
    BY <1>1, <1>2, <2>1, <2>2, <2>3, ContinueWire
<1> QED
  BY <1>1, <1>4, <1>5, <1>6 DEF Writes

\* The network completes a write: one more piece is sent, the right one.
LEMMA CompleteWire ==
  ASSUME AllInv, Complete
  PROVE  TypeOK' /\ WireInv'
<1>1. PICK r \in Results(op) :
        /\ op = "read" /\ r = "ok" => content < MaxReads
        /\ opRes' = r
        /\ secured' = (secured \/ (op = "handshake" /\ r = "ok"))
        /\ sent' = IF r = "ok" /\ op \in Writes
                   THEN Append(sent, <<op, IF op = "chunk" THEN pos ELSE 0>>)
                   ELSE sent
  BY DEF Complete, Writes
<1>2. /\ op # "none" /\ opRes = "waiting"
      /\ UNCHANGED <<pc, req, running, socket, op, pos, timer, delay, resp, content, err,
                     answers, spoiled, resumed>>
  BY DEF Complete, answer
<1>3. req \in Requests /\ sent \in Seq(WirePieces) /\ Len(sent) \in Nat
  BY LenProperties DEF AllInv, TypeOK, WirePieces
<1>4. Comes(req, op, pos, Len(sent)) /\ err \notin {"eof", "not_found"} /\ resp # "none"
  BY <1>2 DEF AllInv, WireInv
<1>5. r \in {"ok", "eof", "error"} /\ (r = "eof" => op = "read")
  BY DEF Results
<1>6. CASE r = "ok" /\ op \in Writes
  <2> DEFINE piece == <<op, IF op = "chunk" THEN pos ELSE 0>>
  <2>1. piece \in WirePieces
    <3>1. op = "chunk" => pos \in 1 .. MaxChunks
      BY <1>3, <1>4, RequestParts, MaxChunksAssumption DEF Comes
    <3>2. op \in Ops
      BY <1>6 DEF Writes, Ops
    <3> QED
      BY <3>1, <3>2 DEF WirePieces
  <2>2. /\ sent' \in Seq(WirePieces) /\ Len(sent') = Len(sent) + 1
        /\ \A i \in 1 .. Len(sent) : sent'[i] = sent[i]
        /\ sent'[Len(sent) + 1] = piece
    BY <1>1, <1>3, <1>6, <2>1
  <2>3. piece = Piece(req, Len(sent) + 1) /\ Len(sent) + 1 <= PieceCount(req)
    BY <1>3, <1>4, <1>6, RequestParts DEF Comes, Writes, Piece, PieceCount
  <2> HIDE DEF piece
  <2>4. \A i \in 1 .. Len(sent') : sent'[i] = Piece(req, i)
    BY <1>3, <2>2, <2>3 DEF AllInv, WireInv
  <2>5. sent' # << >> /\ Len(sent') - 1 = Len(sent)
    BY <1>3, <2>2
  <2>6. TypeOK'
    BY <1>1, <1>2, <1>5, <2>2 DEF AllInv, TypeOK, WirePieces
  <2>7. WireInv'
    BY <1>1, <1>2, <1>4, <1>6, <2>2, <2>3, <2>4, <2>5 DEF AllInv, WireInv, Writes
  <2> QED
    BY <2>6, <2>7
<1>7. CASE ~(r = "ok" /\ op \in Writes)
  <2>1. TypeOK'
    BY <1>1, <1>2, <1>5, <1>7 DEF AllInv, TypeOK
  <2>2. WireInv'
    BY <1>1, <1>2, <1>4, <1>5, <1>7 DEF AllInv, WireInv
  <2> QED
    BY <2>1, <2>2
<1> QED
  BY <1>6, <1>7

\* Every step preserves the invariant.
LEMMA NextAll == AllInv /\ [Next]_vars => AllInv'
<1> SUFFICES ASSUME AllInv, [Next]_vars PROVE TypeOK' /\ WireInv'
  BY NextLife DEF AllInv
<1> USE DEF AllInv
<1>0. ASSUME NEW o, Handler(o) PROVE running = TRUE /\ pc = "loop" /\ op = o
  BY <1>0 DEF Handler, Ignored, LifeInv
<1>t. timer \in {"none", "waiting", "expired", "aborted"} /\ Len(sent) \in Nat
  BY LenProperties DEF TypeOK
<1>1. CASE run \/ onDelay
  <2>1. /\ resp = "none" /\ sent = << >> /\ op = "none" /\ err = "none"
        /\ sent' = sent /\ req' = req /\ spoiled' = spoiled /\ resumed' = resumed
        /\ pc' \in {"loop", "thrown"} /\ delay' \in {"none", "waiting"}
    BY <1>1 DEF run, onDelay, runThrows, LifeInv, WireInv
  <2>2. CASE runResolved
    <3>1. TypeOK'
      BY <2>1, <2>2 DEF runResolved, setTimeout, TypeOK, Ops
    <3>2. /\ running' = TRUE /\ resp' = "building" /\ err' = "none" /\ content' = content
          /\ op' \in {"none", "connect"} /\ opRes' \in {opRes, "waiting"} /\ pos' = pos
      BY <2>1, <2>2 DEF runResolved
    <3>3. WireInv'
      BY <2>1, <3>2, EmptySeq DEF WireInv, Comes, Writes
    <3> QED
      BY <3>1, <3>3
  <2>3. CASE ~runResolved
    <3>1. /\ UNCHANGED <<conn, timer, content, err, answers>>
          /\ running' \in BOOLEAN /\ resp' \in {"none", "building"}
      BY <1>1, <2>1, <2>3 DEF run, onDelay, runThrows, answer, LifeInv
    <3>2. TypeOK'
      BY <2>1, <3>1 DEF conn, TypeOK
    <3>3. WireInv'
      BY <2>1, <3>1 DEF conn, WireInv
    <3> QED
      BY <3>2, <3>3
  <2> QED
    BY <2>2, <2>3
<1>2. CASE onIgnored
  <2>1. TypeOK'
    BY <1>2 DEF onIgnored, kept, answer, TypeOK, Ops
  <2>2. WireInv'
    BY <1>2 DEF onIgnored, kept, answer, WireInv, Comes, Writes
  <2> QED
    BY <2>1, <2>2
<1>3. CASE onFailure
  <2>1. /\ running = TRUE /\ opRes \in {"eof", "error"} /\ yield(opRes, "none", "waiting", timer)
        /\ UNCHANGED <<pos, content, kept>>
    BY <1>3, <1>0 DEF onFailure, Handler, Ignored, TypeOK
  <2>2. opRes = "eof" => Len(sent) = PieceCount(req)
    BY DEF WireInv, Comes, Writes
  <2> QED
    BY <1>t, <2>1, <2>2, YieldWire DEF Codes
<1>4. CASE onConnect
  <2>1. running = TRUE /\ op = "connect" /\ opRes = "ok" /\ UNCHANGED <<content, kept>>
    BY <1>4, <1>0 DEF onConnect
  <2>2. Len(sent) = 0
    BY <2>1 DEF WireInv, Comes, Writes
  <2>3. CASE req.scheme = "tls"
    <3>1. Continue("handshake", pos, timer) /\ Comes(req, "handshake", pos, Len(sent))
      BY <1>4, <2>2, <2>3 DEF onConnect, Comes
    <3> QED
      BY <1>t, <2>1, <3>1, ContinueWire DEF TypeOK, Ops
  <2>4. CASE req.scheme # "tls"
    BY <1>4, <1>t, <2>1, <2>2, <2>4, ContentWire DEF onConnect
  <2> QED
    BY <2>3, <2>4
<1>5. CASE onHandshake
  <2>1. /\ running = TRUE /\ op = "handshake" /\ opRes = "ok" /\ writeContent(timer)
        /\ UNCHANGED <<content, kept>>
    BY <1>5, <1>0 DEF onHandshake
  <2>2. Len(sent) = 0
    BY <2>1 DEF WireInv, Comes, Writes
  <2> QED
    BY <1>t, <2>1, <2>2, ContentWire
<1>6. CASE onWritten
  BY <1>6, WrittenWire
<1>7. CASE onRead
  <2>1. op = "read" /\ opRes = "ok" /\ content < MaxReads /\ running = TRUE
    BY <1>7, <1>0 DEF onRead, Handler, WireInv
  <2>2. content' \in 0 .. MaxReads
    BY <1>7, <2>1, MaxReadsAssumption DEF onRead, TypeOK
  <2>3. TypeOK'
    BY <1>7, <2>1, <2>2 DEF onRead, kept, TypeOK
  <2>4. WireInv'
    BY <1>7, <2>1 DEF onRead, kept, WireInv, Writes
  <2> QED
    BY <2>3, <2>4
<1>8. CASE onTimer
  <2>1. CASE ~running \/ timer = "aborted"
    <3>1. TypeOK'
      BY <1>8, <2>1 DEF onTimer, kept, TypeOK
    <3>2. WireInv'
      BY <1>8, <2>1 DEF onTimer, kept, WireInv
    <3> QED
      BY <3>1, <3>2
  <2>2. CASE ~(~running \/ timer = "aborted")
    <3>1. /\ running = TRUE /\ yield("timed_out", op, opRes, "none")
          /\ UNCHANGED <<pos, content, kept>>
      BY <1>8, <2>2 DEF onTimer, TypeOK
    <3> QED
      BY <3>1, YieldWire DEF Codes
  <2> QED
    BY <2>1, <2>2
<1>9. CASE shutdownReturns
  <2>1. /\ resp = "building" /\ ~running /\ running' = running
        /\ opRes' = Abort(opRes) /\ pc' = "consumer" /\ resp' = "given" /\ socket' = "closed"
        /\ err' = err /\ answers' = answers + 1 /\ spoiled' \in BOOLEAN
        /\ UNCHANGED <<req, secured, op, pos, timer, delay, content, sent, resumed>>
    BY <1>9 DEF shutdownReturns, Give, LifeInv
  <2>2. TypeOK'
    BY <2>1 DEF TypeOK, Abort
  <2>3. WireInv'
    BY <2>1 DEF WireInv, Abort, Writes
  <2> QED
    BY <2>2, <2>3
<1>10. CASE resumeSession
  <2>1. /\ UNCHANGED <<pc, running, socket, op, opRes, pos, timer, answer, spoiled>>
        /\ UNCHANGED <<req, secured, sent, delay>> /\ resumed' = TRUE
    BY <1>10 DEF resumeSession, LifeInv
  <2>2. TypeOK'
    BY <2>1 DEF TypeOK, answer
  <2>3. WireInv'
    BY <2>1 DEF WireInv, answer
  <2> QED
    BY <2>2, <2>3
<1>11. CASE consumerReturns
  <2>1. /\ resp' \in {"building", "deleted"} /\ pc' = "loop" /\ resp = "given"
        /\ UNCHANGED <<req, running, conn, timer, delay, content, err, answers, sent, spoiled, resumed>>
    BY <1>11 DEF consumerReturns, LifeInv
  <2>2. TypeOK'
    BY <2>1 DEF TypeOK, conn
  <2>3. WireInv'
    BY <2>1 DEF WireInv, conn
  <2> QED
    BY <2>2, <2>3
<1>12. CASE Complete
  BY <1>12, CompleteWire
<1>13. CASE ioServiceEnds \/ timerExpires \/ delayExpires \/ Finished \/ UNCHANGED vars
  <2>1. /\ UNCHANGED <<req, running, conn, answer, sent, spoiled, resumed>>
        /\ pc' \in {pc, "ended"} /\ timer' \in {timer, "expired"} /\ delay' \in {delay, "expired"}
    BY <1>13 DEF ioServiceEnds, timerExpires, delayExpires, Finished, vars
  <2>2. TypeOK'
    BY <2>1 DEF TypeOK, conn, answer
  <2>3. WireInv'
    BY <2>1 DEF WireInv, conn, answer
  <2> QED
    BY <2>2, <2>3
<1> QED
  BY <1>1, <1>2, <1>3, <1>4, <1>5, <1>6, <1>7, <1>8, <1>9, <1>10, <1>11, <1>12,
     <1>13 DEF Next

\* Pieces lists the pieces of the request.
LEMMA PiecesListed ==
  ASSUME req \in Requests
  PROVE  /\ Pieces \in Seq(WirePieces) /\ Len(Pieces) = PieceCount(req)
         /\ \A i \in 1 .. PieceCount(req) : Pieces[i] = Piece(req, i)
<1> DEFINE file == [k \in 1 .. req.file.chunks |-> <<"chunk", k>>]
           first == <<<<"prefix", 0>>>>
           last == <<<<"suffix", 0>>>>
<1>1. req.file.chunks \in Nat /\ 1 .. req.file.chunks \subseteq 1 .. MaxChunks
  BY RequestParts, MaxChunksAssumption
<1>2. file \in Seq(WirePieces) /\ Len(file) = req.file.chunks
  <2>1. file \in [1 .. req.file.chunks -> WirePieces]
    BY <1>1 DEF WirePieces
  <2>2. file \in Seq(WirePieces)
    BY <1>1, <2>1, SeqDef
  <2> QED
    BY <1>1, <2>1, <2>2, LenProperties
<1>3. \A k \in 1 .. req.file.chunks : file[k] = <<"chunk", k>>
  OBVIOUS
<1>4. /\ first \in Seq(WirePieces) /\ Len(first) = 1 /\ first[1] = <<"prefix", 0>>
      /\ last \in Seq(WirePieces) /\ Len(last) = 1 /\ last[1] = <<"suffix", 0>>
      /\ <<<<"write", 0>>>> \in Seq(WirePieces)
  BY DEF WirePieces, Ops
<1>5. CASE ~req.upload
  BY <1>4, <1>5 DEF Pieces, PieceCount, Piece
<1>6. CASE req.upload /\ ~req.tagFound
  <2>1. Pieces = file /\ PieceCount(req) = req.file.chunks
    BY <1>1, <1>6 DEF Pieces, PieceCount
  <2> QED
    BY <1>2, <1>3, <1>6, <2>1 DEF Piece
<1>7. CASE req.upload /\ req.tagFound
  <2> HIDE DEF file, first, last
  <2>1. Pieces = first \o file \o last /\ PieceCount(req) = req.file.chunks + 2
    BY <1>7 DEF Pieces, PieceCount, first, file, last
  <2>2. /\ first \o file \in Seq(WirePieces) /\ Len(first \o file) = 1 + req.file.chunks
        /\ \A i \in 1 .. 1 + req.file.chunks :
             (first \o file)[i] = IF i <= 1 THEN first[i] ELSE file[i - 1]
    <3>1. /\ first \o file \in Seq(WirePieces) /\ Len(first \o file) = Len(first) + Len(file)
          /\ \A i \in 1 .. Len(first) + Len(file) :
               (first \o file)[i] = IF i <= Len(first) THEN first[i] ELSE file[i - Len(first)]
      BY <1>2, <1>4, ConcatProperties
    <3> QED
      BY <1>2, <1>4, <3>1
  <2> DEFINE start == first \o file
  <2>a. /\ start \in Seq(WirePieces) /\ Len(start) = 1 + req.file.chunks
        /\ \A i \in 1 .. 1 + req.file.chunks :
             start[i] = IF i <= 1 THEN first[i] ELSE file[i - 1]
    BY <2>2
  <2>b. Pieces = start \o last
    BY <2>1
  <2> HIDE DEF start
  <2>3. /\ Pieces \in Seq(WirePieces) /\ Len(Pieces) = 1 + req.file.chunks + 1
        /\ \A i \in 1 .. 1 + req.file.chunks + 1 :
             Pieces[i] = IF i <= 1 + req.file.chunks THEN start[i] ELSE last[i - (1 + req.file.chunks)]
    <3>1. /\ start \o last \in Seq(WirePieces) /\ Len(start \o last) = Len(start) + Len(last)
          /\ \A i \in 1 .. Len(start) + Len(last) :
               (start \o last)[i] = IF i <= Len(start) THEN start[i] ELSE last[i - Len(start)]
      BY <1>4, <2>a, ConcatProperties
    <3> QED
      BY <1>4, <2>a, <2>b, <3>1
  <2>4. ASSUME NEW i \in 1 .. PieceCount(req) PROVE Pieces[i] = Piece(req, i)
    <3> HIDE DEF file, first, last, start
    <3>0. i \in 1 .. req.file.chunks + 2
      BY <2>1
    <3>1. CASE i = 1
      <4>1. Pieces[i] = first[1]
        BY <1>1, <2>a, <2>3, <3>1
      <4> QED
        BY <1>4, <1>7, <3>1, <4>1 DEF Piece
    <3>2. CASE i \in 2 .. 1 + req.file.chunks
      <4>1. Pieces[i] = file[i - 1] /\ i - 1 \in 1 .. req.file.chunks
        <5>1. i \in 1 .. 1 + req.file.chunks /\ i \in 1 .. 1 + req.file.chunks + 1 /\ ~(i <= 1)
          BY <1>1, <3>2
        <5>2. Pieces[i] = start[i]
          BY <2>3, <5>1, <1>1
        <5>3. start[i] = file[i - 1]
          BY <2>a, <5>1
        <5> QED
          BY <1>1, <3>2, <5>2, <5>3
      <4>2. i # 1 /\ i # PieceCount(req)
        BY <1>1, <2>1, <3>2
      <4> QED
        BY <1>3, <1>7, <4>1, <4>2 DEF Piece, file
    <3>3. CASE i = req.file.chunks + 2
      <4>1. Pieces[i] = last[1]
        <5>1. /\ i \in 1 .. 1 + req.file.chunks + 1 /\ ~(i <= 1 + req.file.chunks)
              /\ i - (1 + req.file.chunks) = 1
          BY <1>1, <3>3
        <5> QED
          BY <2>3, <5>1
      <4>2. i # 1 /\ i = PieceCount(req)
        BY <1>1, <2>1, <3>3
      <4> QED
        BY <1>4, <1>7, <4>1, <4>2 DEF Piece
    <3>4. i = 1 \/ i \in 2 .. 1 + req.file.chunks \/ i = req.file.chunks + 2
      BY <1>1, <3>0
    <3> QED
      BY <3>1, <3>2, <3>3, <3>4
  <2> QED
    BY <1>1, <2>1, <2>3, <2>4
<1> QED
  BY <1>5, <1>6, <1>7, RequestParts

\* The first pieces of the request, all of them where there are as many.
LEMMA SentListed ==
  ASSUME AllInv
  PROVE  /\ sent = SubSeq(Pieces, 1, Len(sent))
         /\ Len(sent) = PieceCount(req) => sent = Pieces
<1>1. /\ req \in Requests /\ sent \in Seq(WirePieces) /\ Len(sent) \in Nat
      /\ PieceCount(req) \in Nat /\ Len(sent) <= PieceCount(req)
      /\ \A i \in 1 .. Len(sent) : sent[i] = Piece(req, i)
  BY LenProperties, RequestParts DEF AllInv, TypeOK, WireInv, WirePieces
<1>2. /\ Pieces \in Seq(WirePieces) /\ Len(Pieces) = PieceCount(req)
      /\ \A i \in 1 .. PieceCount(req) : Pieces[i] = Piece(req, i)
  BY <1>1, PiecesListed
<1> HIDE DEF Pieces
<1>3. \A i \in 1 .. Len(sent) : Pieces[i] \in WirePieces
  BY <1>1, <1>2, ElementOfSeq
<1> DEFINE head == SubSeq(Pieces, 1, Len(sent))
<1>4. /\ head \in Seq(WirePieces) /\ Len(head) = Len(sent)
      /\ \A i \in 1 .. Len(sent) : head[i] = Pieces[i]
  <2>1. /\ head \in Seq(WirePieces)
        /\ Len(head) = IF 1 <= Len(sent) THEN Len(sent) - 1 + 1 ELSE 0
        /\ \A i \in 1 .. Len(sent) - 1 + 1 : head[i] = Pieces[1 + i - 1]
    BY <1>1, <1>3, SubSeqProperties
  <2> QED
    BY <1>1, <2>1
<1> HIDE DEF head
<1>5. sent = head
  BY <1>1, <1>2, <1>4, SeqEqual
<1>6. Len(sent) = PieceCount(req) => sent = Pieces
  BY <1>1, <1>2, SeqEqual
<1> QED
  BY <1>5, <1>6 DEF head

\* The invariant of all of the session's state, in every reachable state.
THEOREM AllCorrect == Spec => []AllInv
BY InitAll, NextAll, PTL DEF Spec

\* For every size of upload and of response: what is on the wire is the
\* request, each piece once and in order; nothing is read before all of it is
\* sent; eof is reported only of a request sent in full, not_found only before
\* any part of the file.
THEOREM WireCorrect == Spec => []WireIsTrue
<1>1. AllInv => WireIsTrue
  <2> SUFFICES ASSUME AllInv PROVE UploadInOrder /\ CodeIsTrue
    BY DEF AllInv, WireIsTrue
  <2>1. op = "read" => Len(sent) = PieceCount(req)
    BY DEF AllInv, WireInv, Comes, Writes
  <2>2. UploadInOrder
    BY <2>1, SentListed DEF UploadInOrder
  <2>3. err = "eof" => sent = Pieces
    BY SentListed DEF AllInv, WireInv
  <2>4. ASSUME err = "not_found", sent # << >> PROVE sent = <<<<"prefix", 0>>>>
    <3>1. /\ req \in Requests /\ req.tagFound /\ req.upload /\ Len(sent) = 1
          /\ sent \in Seq(WirePieces) /\ sent[1] = Piece(req, 1)
      BY <2>4, RequestParts DEF AllInv, TypeOK, WireInv, WirePieces
    <3>2. sent[1] = <<"prefix", 0>>
      BY <3>1 DEF Piece
    <3>3. /\ <<<<"prefix", 0>>>> \in Seq(WirePieces) /\ Len(<<<<"prefix", 0>>>>) = 1
          /\ <<<<"prefix", 0>>>>[1] = <<"prefix", 0>>
      BY DEF WirePieces, Ops
    <3> DEFINE prefix == <<<<"prefix", 0>>>>
    <3> HIDE DEF prefix
    <3>4. /\ prefix \in Seq(WirePieces) /\ Len(sent) = Len(prefix)
          /\ \A i \in 1 .. Len(sent) : sent[i] = prefix[i]
      BY <3>1, <3>2, <3>3 DEF prefix
    <3>5. sent = prefix
      BY <3>1, <3>4, SeqEqual
    <3> QED
      BY <3>5 DEF prefix
  <2> QED
    BY <2>2, <2>3, <2>4 DEF CodeIsTrue
<1> QED
  BY <1>1, AllCorrect, PTL
=============================================================================

------------------------------ MODULE Session ------------------------------
(***************************************************************************)
(* src/src/tcpclient/Session: one request over one connection, driven by    *)
(* asio completion handlers on a single-threaded io_service.                *)
(*                                                                          *)
(* The hard part is what asio allows between an event and its handler: an   *)
(* operation that completed (or a timer that expired) has a handler in the  *)
(* queue which cancel() and close() no longer reach, so it still runs after *)
(* the session has answered.  Operations are therefore waiting, done with a *)
(* result but not yet handled, or aborted.                                  *)
(*                                                                          *)
(* A request is a record chosen at the start: its scheme, whether the       *)
(* session and delay timeouts are positive, is_final_, and for a file       *)
(* upload whether replaceTag_ occurs in content_ and what the file is like. *)
(***************************************************************************)
EXTENDS Integers, Sequences

CONSTANTS MaxChunks,  \* bound: BUFFER_SIZE pieces of the uploaded file
          MaxReads    \* bound: pieces of the response

ASSUME MaxChunksAssumption == MaxChunks \in Nat
ASSUME MaxReadsAssumption == MaxReads \in Nat

\* readable: the ifstream opens.  partial: the last piece is shorter than the
\* buffer, so reading it sets eof.
Files == [readable : BOOLEAN, chunks : 0 .. MaxChunks, partial : BOOLEAN]

RequestFields ==
  [scheme : {"tcp", "tls", "other"}, timed : BOOLEAN, delayed : BOOLEAN,
   final : BOOLEAN, upload : BOOLEAN, tagFound : BOOLEAN, file : Files]

\* Only an upload has a tag and a file, and an empty file no last piece.
Requests ==
  {r \in RequestFields :
     /\ ~r.upload => ~r.tagFound /\ ~r.file.readable
     /\ ~r.file.readable => r.file.chunks = 0
     /\ r.file.chunks = 0 => ~r.file.partial}

VARIABLES
  pc,       \* new, loop, closing, consumer (the response is yielded), ended, thrown
  req,      \* *request_
  running,  \* running_
  socket,   \* none, open or closed (socketTCP_ or socketSSL_)
  secured,  \* the TLS handshake succeeded
  op,       \* the outstanding socket operation
  opRes,    \* waiting, ok, eof, error or aborted
  pos,      \* pieces of the file read so far
  timer,    \* session_timer_: none, waiting, expired or aborted
  delay,    \* delay_timer_: none, waiting or expired
  resp,     \* *response_: none, building, given (to the consumer), deleted
  content,  \* response_->content_: how many pieces
  err,      \* response_->error_code_
  sent,     \* history: the pieces written to the peer, in order
  answers,  \* history: how often responseYield_ was called
  spoiled,  \* history: a handler used the response after it was given away
  resumed   \* history: the consumer called resumeSession

conn == <<socket, secured, op, opRes, pos>>
answer == <<resp, content, err, answers>>
vars == <<pc, req, running, conn, timer, delay, answer, sent, spoiled, resumed>>

Ops == {"none", "connect", "handshake", "write", "prefix", "chunk", "suffix", "read"}
Codes == {"eof", "error", "timed_out", "not_found", "service_not_found"}

TypeOK ==
  /\ pc \in {"new", "loop", "closing", "consumer", "ended", "thrown"}
  /\ req \in Requests
  /\ running \in BOOLEAN /\ secured \in BOOLEAN
  /\ spoiled \in BOOLEAN /\ resumed \in BOOLEAN
  /\ socket \in {"none", "open", "closed"}
  /\ op \in Ops
  /\ opRes \in {"waiting", "ok", "eof", "error", "aborted"}
  /\ pos \in 0 .. MaxChunks
  /\ timer \in {"none", "waiting", "expired", "aborted"}
  /\ delay \in {"none", "waiting", "expired"}
  /\ resp \in {"none", "building", "given", "deleted"}
  /\ content \in 0 .. MaxReads
  /\ err \in Codes \cup {"none"}
  /\ sent \in Seq((Ops \X {0}) \cup ({"chunk"} \X (1 .. MaxChunks)))
  /\ answers \in Nat

Init ==
  /\ pc = "new" /\ req \in Requests
  /\ running = FALSE
  /\ socket = "none" /\ secured = FALSE /\ op = "none" /\ opRes = "waiting" /\ pos = 0
  /\ timer = "none" /\ delay = "none"
  /\ resp = "none" /\ content = 0 /\ err = "none" /\ answers = 0
  /\ sent = << >> /\ spoiled = FALSE /\ resumed = FALSE

-----------------------------------------------------------------------------
\* Mutant: the timer is never started.
setTimeoutNever(positive, old) == old

\* setTimeout: no timer at all unless the timeout is positive.
setTimeout(positive, old) == IF positive THEN "waiting" ELSE old

\* run(request, session_timeout) once the resolver has returned: a new
\* response, the timer, and a connection attempt for a known scheme.  For any
\* other scheme no operation is started.
runResolved ==
  /\ running' = TRUE
  /\ resp' = "building"
  /\ timer' = setTimeout(req.timed, timer)
  /\ IF req.scheme \in {"tcp", "tls"}
     THEN op' = "connect" /\ opRes' = "waiting" /\ socket' = "open"
     ELSE UNCHANGED <<op, opRes, socket>>
  /\ UNCHANGED <<secured, pos, content, err, answers>>

\* The synchronous resolve throws out of run: no timer, no operation, and the
\* exception leaves the event loop.
runThrows ==
  /\ pc' = "thrown"
  /\ running' = TRUE
  /\ resp' = "building"
  /\ UNCHANGED <<conn, timer, content, err, answers>>

\* run(request): with a delay only the delay timer is started.
run ==
  /\ pc = "new"
  /\ \/ /\ req.delayed
        /\ pc' = "loop"
        /\ delay' = "waiting"
        /\ UNCHANGED <<running, conn, timer, answer>>
     \/ /\ ~req.delayed
        /\ pc' = "loop"
        /\ runResolved
        /\ UNCHANGED delay
     \/ /\ ~req.delayed
        /\ runThrows
        /\ UNCHANGED delay
  /\ UNCHANGED <<req, sent, spoiled, resumed>>

\* The handler of the delay timer.
onDelay ==
  /\ pc = "loop" /\ delay = "expired"
  /\ delay' = "none"
  /\ \/ runResolved /\ UNCHANGED pc
     \/ runThrows
  /\ UNCHANGED <<req, sent, spoiled, resumed>>

-----------------------------------------------------------------------------
\* Cancelling aborts what is still waiting; what already completed or expired
\* stays in the queue as it is.
Abort(state) == IF state = "waiting" THEN "aborted" ELSE state

\* Hand the response over: responseYield_(response_).
Give(ec) ==
  /\ resp' = "given"
  /\ err' = ec
  /\ answers' = answers + 1
  /\ pc' = "consumer"
  /\ spoiled' = (spoiled \/ resp # "building")

\* In clean(), socketSSL_->shutdown() is synchronous: on a secured connection
\* that has not failed it returns only when the peer answers.
MustWaitForPeer(ec) == secured /\ ec \in {"timed_out", "not_found"}

\* clean() up to the blocking shutdown, and through it when it does not block.
clean(ec, o, r, t) ==
  /\ running' = FALSE
  /\ timer' = Abort(t)
  /\ op' = o
  /\ IF MustWaitForPeer(ec)
     THEN /\ pc' = "closing" /\ err' = ec /\ opRes' = r
          /\ UNCHANGED <<socket, resp, answers, spoiled>>
     ELSE /\ opRes' = Abort(r)
          /\ socket' = IF socket = "open" THEN "closed" ELSE socket
          /\ Give(ec)

\* Mutant: only the final request of a session closes it.
yieldKeepsOpen(ec, o, r, t) ==
  IF req.final
  THEN clean(ec, o, r, t)
  ELSE /\ Give(ec)
       /\ timer' = Abort(t) /\ op' = o /\ opRes' = r
       /\ UNCHANGED <<running, socket>>

\* yield(ec) while operation o stands at r and the session timer at t: close
\* the session, or, for a request that is not final and no error code, keep it.
yield(ec, o, r, t) ==
  IF req.final \/ ec # "none"
  THEN clean(ec, o, r, t)
  ELSE /\ Give(ec)
       /\ timer' = Abort(t) /\ op' = o /\ opRes' = r
       /\ UNCHANGED <<running, socket>>

\* The blocking TLS shutdown returns; clean() closes the socket and yield()
\* hands the response over.
shutdownReturns ==
  /\ pc = "closing"
  /\ socket' = "closed"
  /\ opRes' = Abort(opRes)
  /\ Give(err)
  /\ UNCHANGED <<req, running, secured, op, pos, timer, delay, content, sent, resumed>>

-----------------------------------------------------------------------------
\* Start operation o with k pieces of the file read before it and the session
\* timer at t; a chunk first reads one more piece into the buffer.
Continue(o, k, t) ==
  /\ op' = o /\ opRes' = "waiting"
  /\ pos' = IF o = "chunk" THEN k + 1 ELSE k
  /\ timer' = t
  /\ UNCHANGED <<pc, running, socket, resp, err, answers, spoiled>>

\* AFTER_FILE_UPLOAD: what follows the tag, or straight on to the answer.
afterFile == IF req.tagFound THEN "suffix" ELSE "read"

\* The chunk writer: fs->read returns a piece unless the file has ended.
nextChunk(k) == IF k < req.file.chunks THEN "chunk" ELSE afterFile

\* fs->eof(): the last read came up short.
AtEof(k) == k = req.file.chunks /\ req.file.partial

\* IN_FILE_UPLOAD: open the file.
inFileUpload(t) ==
  IF req.file.readable
  THEN Continue(nextChunk(0), 0, t)
  ELSE yield("not_found", "none", "waiting", t) /\ UNCHANGED pos

\* writeContent, and BEFORE_FILE_UPLOAD of writeFileContent: without a tag in
\* the content nothing of the content is sent.
writeContent(t) ==
  CASE ~req.upload                   -> Continue("write", pos, t)
    [] req.upload /\ req.tagFound    -> Continue("prefix", 0, t)
    [] req.upload /\ ~req.tagFound   -> inFileUpload(t)

\* Mutant: the upload is over after its first piece.
writtenOnePiece ==
  CASE op \in {"write", "suffix"} -> Continue("read", pos, timer)
    [] op = "prefix"              -> inFileUpload(timer)
    [] op = "chunk"               -> Continue(afterFile, pos, timer)

\* The handlers of the four kinds of write.
written ==
  CASE op \in {"write", "suffix"} -> Continue("read", pos, timer)
    [] op = "prefix"              -> inFileUpload(timer)
    [] op = "chunk" /\ AtEof(pos)  -> Continue(afterFile, pos, timer)
    [] op = "chunk" /\ ~AtEof(pos) -> Continue(nextChunk(pos), pos, timer)

-----------------------------------------------------------------------------
\* Mutant: handlers do not ask whether the session is still running.
IgnoredAborted == opRes = "aborted"

\* The first test of every handler.
Ignored == ~running \/ opRes = "aborted"

\* A completed operation's handler is at the head of the queue.
Handler(o) == pc = "loop" /\ op = o /\ opRes # "waiting" /\ ~Ignored

kept == <<req, secured, sent, delay, resumed>>

\* A handler that finds the session answered, or its operation aborted.
onIgnored ==
  /\ pc = "loop" /\ op # "none" /\ opRes # "waiting" /\ Ignored
  /\ op' = "none" /\ opRes' = "waiting"
  /\ UNCHANGED <<pc, running, socket, pos, timer, answer, spoiled, kept>>

\* Any handler, given an error code; the end of the stream is one.
onFailure ==
  /\ Handler(op) /\ op # "none" /\ opRes # "ok"
  /\ yield(opRes, "none", "waiting", timer)
  /\ UNCHANGED <<pos, content, kept>>

onConnect ==
  /\ Handler("connect") /\ opRes = "ok"
  /\ IF req.scheme = "tls" THEN Continue("handshake", pos, timer) ELSE writeContent(timer)
  /\ UNCHANGED <<content, kept>>

onHandshake ==
  /\ Handler("handshake") /\ opRes = "ok"
  /\ writeContent(timer)
  /\ UNCHANGED <<content, kept>>

onWritten ==
  /\ \E o \in {"write", "prefix", "chunk", "suffix"} : Handler(o)
  /\ opRes = "ok"
  /\ written
  /\ UNCHANGED <<content, kept>>

\* readContent's handler: append to the response and read on.
onRead ==
  /\ Handler("read") /\ opRes = "ok"
  /\ op' = "read" /\ opRes' = "waiting"
  /\ content' = content + 1
  /\ spoiled' = (spoiled \/ resp # "building")
  /\ UNCHANGED <<pc, running, socket, pos, timer, resp, err, answers, kept>>

\* Mutant: the timer's handler does not ask whether the session is running.
onTimerUnchecked ==
  /\ pc = "loop" /\ timer \in {"expired", "aborted"}
  /\ IF timer = "aborted"
     THEN /\ timer' = "none"
          /\ UNCHANGED <<pc, running, socket, op, opRes, resp, err, answers, spoiled>>
     ELSE yield("timed_out", op, opRes, "none")
  /\ UNCHANGED <<pos, content, kept>>

\* setTimeout's handler.
onTimer ==
  /\ pc = "loop" /\ timer \in {"expired", "aborted"}
  /\ IF ~running \/ timer = "aborted"
     THEN /\ timer' = "none"
          /\ UNCHANGED <<pc, running, socket, op, opRes, resp, err, answers, spoiled>>
     ELSE yield("timed_out", op, opRes, "none")
  /\ UNCHANGED <<pos, content, kept>>

-----------------------------------------------------------------------------
\* resumeSession, called by the consumer before it lets go of the response:
\* nothing on a session that is not running, else the request again.
resumeSession ==
  /\ pc = "consumer" /\ ~resumed
  /\ resumed' = TRUE
  /\ IF ~running
     THEN UNCHANGED <<pc, running, socket, op, opRes, pos, timer, answer, spoiled>>
     ELSE LET t == setTimeout(req.delayed, "none") IN
          /\ content' = 0
          /\ IF socket = "none"
             THEN yield("service_not_found", op, opRes, t) /\ UNCHANGED pos
             ELSE writeContent(t)
  /\ UNCHANGED <<req, secured, sent, delay>>

\* The consumer deletes the response and goes back to the event loop.
consumerReturns ==
  /\ pc = "consumer"
  /\ pc' = "loop"
  /\ resp' = IF running THEN "building" ELSE "deleted"
  /\ UNCHANGED <<req, running, conn, timer, delay, content, err, answers, sent, spoiled, resumed>>

\* io_service::run returns when nothing is outstanding.
ioServiceEnds ==
  /\ pc = "loop"
  /\ op = "none" /\ timer = "none" /\ delay = "none"
  /\ pc' = "ended"
  /\ UNCHANGED <<req, running, conn, timer, delay, answer, sent, spoiled, resumed>>

-----------------------------------------------------------------------------
\* The network completes the outstanding operation, in its own time and in any
\* way: the end of the stream is seen by a read.
Results(o) ==
  {"ok", "error"} \cup (IF o = "read" THEN {"eof"} ELSE {})

Complete ==
  /\ op # "none" /\ opRes = "waiting" /\ socket = "open"
  /\ \E r \in Results(op) :
       /\ op = "read" /\ r = "ok" => content < MaxReads
       /\ opRes' = r
       /\ secured' = (secured \/ (op = "handshake" /\ r = "ok"))
       /\ sent' = IF r = "ok" /\ op \in {"write", "prefix", "chunk", "suffix"}
                  THEN Append(sent, <<op, IF op = "chunk" THEN pos ELSE 0>>)
                  ELSE sent
  /\ UNCHANGED <<pc, req, running, socket, op, pos, timer, delay, answer, spoiled, resumed>>

\* The timers expire, in their own time.
timerExpires ==
  /\ timer = "waiting" /\ pc # "new"
  /\ timer' = "expired"
  /\ UNCHANGED <<pc, req, running, conn, delay, answer, sent, spoiled, resumed>>

delayExpires ==
  /\ delay = "waiting"
  /\ delay' = "expired"
  /\ UNCHANGED <<pc, req, running, conn, timer, answer, sent, spoiled, resumed>>

\* Nothing more happens after the event loop returned or was left.
Finished == pc \in {"ended", "thrown"} /\ UNCHANGED vars

Next ==
  \/ run \/ onDelay \/ onIgnored \/ onFailure \/ onConnect \/ onHandshake
  \/ onWritten \/ onRead \/ onTimer \/ shutdownReturns
  \/ resumeSession \/ consumerReturns \/ ioServiceEnds
  \/ Complete \/ timerExpires \/ delayExpires \/ Finished

Spec == Init /\ [][Next]_vars

(***************************************************************************)
(* Fairness: the event loop runs queued handlers, timers expire, the        *)
(* consumer comes back.  Nothing is assumed of the network: an operation    *)
(* need not complete, and a TLS shutdown need not return.                   *)
(***************************************************************************)
FairSpec ==
  /\ Spec
  /\ WF_vars(run) /\ WF_vars(onDelay) /\ WF_vars(onTimer)
  /\ WF_vars(onIgnored \/ onFailure \/ onConnect \/ onHandshake \/ onWritten \/ onRead)
  /\ WF_vars(consumerReturns) /\ WF_vars(ioServiceEnds)
  /\ WF_vars(timerExpires) /\ WF_vars(delayExpires)

-----------------------------------------------------------------------------
\* However completions, expiry, cancellation and the consumer interleave, the
\* consumer is given one response, and no handler touches the response once
\* the consumer has it (it deletes it): the running_ test of every handler.
OneResponse == answers <= 1 /\ ~spoiled

\* The pieces a request is made of on the wire.
Pieces ==
  IF ~req.upload
  THEN <<<<"write", 0>>>>
  ELSE LET file == [k \in 1 .. req.file.chunks |-> <<"chunk", k>>]
       IN  IF req.tagFound
           THEN <<<<"prefix", 0>>>> \o file \o <<<<"suffix", 0>>>>
           ELSE file

\* The file replaces the tag: prefix, the pieces of the file in order and each
\* once whether or not the last one is short, suffix; and nothing is read
\* before all of it is written.
UploadInOrder ==
  /\ sent = SubSeq(Pieces, 1, Len(sent))
  /\ op = "read" => sent = Pieces

\* A response that scripts take for success (eof) answers a request that was
\* sent in full, and not_found is reported only before any part of a file.
CodeIsTrue ==
  /\ err = "eof" => sent = Pieces
  /\ err = "not_found" => sent \in {<< >>, <<<<"prefix", 0>>>>}

\* What is on the wire is the request, and what is reported of it is true.
WireIsTrue == TypeOK /\ UploadInOrder /\ CodeIsTrue

\* With a positive session timeout the session answers (or the resolver threw),
\* although the network completes nothing, or too late.  The one thing the timeout
\* does not cut short is clean()'s own TLS shutdown: a session that does not answer
\* is in it for ever, on a connection whose handshake succeeded.  So a tcp request,
\* and a TLS one that was never secured, always answers.
TimedSessionAnswers ==
  req.timed => \/ <>(answers > 0 \/ pc = "thrown")
               \/ <>[](pc = "closing" /\ req.scheme = "tls" /\ secured)

\* A session that has answered leaves nothing waiting: the event loop ends
\* without any further event from the network.
AnsweredSessionDrains == (resp = "given") ~> (pc = "ended")

\* Session.h: "Resume the session. The request has been updated externally.
\* Resend the request and read the response (reuse the previous connection)."
ResumeResends ==
  [][resumeSession /\ ~req.final => op' \in {"write", "prefix", "chunk", "suffix", "read"}]_vars

\* The contract that the code submitting requests relies on, and what of a
\* session it sees.
Phase ==
  CASE pc = "thrown"                        -> "thrown"
    [] pc # "thrown" /\ resp = "none"       -> "submitted"
    [] pc # "thrown" /\ resp = "building"   -> "open"
    [] pc # "thrown" /\ resp \in {"given", "deleted"} -> "answered"

Code == IF resp \in {"given", "deleted"} THEN err ELSE "none"

C == INSTANCE SessionContract WITH phase <- Phase, code <- Code

\* The session implements the contract.
ImplementsContract == C!Contract
=============================================================================

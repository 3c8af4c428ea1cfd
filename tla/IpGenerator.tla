---------------------------- MODULE IpGenerator ----------------------------
(***************************************************************************)
(* One src/src/utils/IpGenerator object and the client that consumes it,    *)
(* through next() or through the coroutines genIpRange() / genIpRange(n).   *)
(*                                                                          *)
(* A coroutine source runs up to its first yield when it is constructed     *)
(* (boost pull_type), holds the yielded text until the client pulls again,  *)
(* and moves ipLongBegin_ only after it is resumed.  A client may destroy a *)
(* source at any moment: the coroutine is then unwound at its yield and the *)
(* generator object stays as it is.  The client opens one source at a time  *)
(* and calls next() only between sources.                                   *)
(***************************************************************************)
EXTENDS IpRange

\* stepSize of the overload without a limit
Unlimited == -1

VARIABLES
  gen,      \* the generator's two fields
  src,      \* the live source: none, held, taken (the client has its text) or spent
  step,     \* its stepSize, or Unlimited
  i,        \* its loop counter
  val,      \* the text it last yielded
  drops,    \* sources abandoned so far
  first,    \* history: ipLongBegin_ as constructed
  taken,    \* history: the addresses the client received
  again,    \* history: those it received more than once
  redo      \* history: a source was abandoned while the client had its text

vars == <<gen, src, step, i, val, drops, first, taken, again, redo>>

SourceStates == {"none", "held", "taken", "spent"}

TypeOK ==
  /\ gen \in Generators
  /\ src \in SourceStates
  /\ step \in Steps \cup {Unlimited}
  /\ i \in Nat
  /\ val \in IPs
  /\ drops \in 0 .. MaxDrops
  /\ first \in IPs
  /\ taken \in SUBSET IPs
  /\ again \in SUBSET IPs
  /\ redo \in BOOLEAN

\* Any two texts: each end is some address or the invalid one.
Init ==
  /\ \E b, e \in IPs : gen = IpGenerator(b, e)
  /\ first = gen.begin
  /\ src = "none" /\ step = Unlimited /\ i = 0 /\ val = 0
  /\ drops = 0 /\ taken = {} /\ again = {} /\ redo = FALSE

\* The loop test: `i < stepSize && ipLongBegin_ <= ipLongEnd_`.
LoopTest(s, n, g) == (s = Unlimited \/ n < s) /\ hasNext(g)

\* Run the coroutine from its loop test to the next yield or to its end (the
\* overload without a limit counts too, but never reads its counter).
RunTo(s, n, g) ==
  /\ src' = IF LoopTest(s, n, g) THEN "held" ELSE "spent"
  /\ val' = IF LoopTest(s, n, g) THEN g.begin ELSE val
  /\ i' = IF s = Unlimited THEN 0 ELSE n

Deliver(ip) ==
  /\ taken' = taken \cup {ip}
  /\ again' = IF ip \in taken THEN again \cup {ip} ELSE again

\* genIpRange() and genIpRange(stepSize): construct the source.
genIpRange(s) ==
  /\ src \in {"none", "spent"}
  /\ step' = s
  /\ RunTo(s, 0, gen)
  /\ UNCHANGED <<gen, drops, first, taken, again, redo>>

\* source.get(): the client reads the yielded text.
Take ==
  /\ src = "held"
  /\ src' = "taken"
  /\ Deliver(val)
  /\ UNCHANGED <<gen, step, i, val, drops, first, redo>>

\* Mutant: the resumed loop passes over an address.
ResumeSkips ==
  /\ src = "taken"
  /\ gen' = Advance(Advance(gen))
  /\ RunTo(step, i + 1, Advance(Advance(gen)))
  /\ UNCHANGED <<step, drops, first, taken, again, redo>>

\* source(): resume after the yield.
Resume ==
  /\ src = "taken"
  /\ gen' = Advance(gen)
  /\ RunTo(step, i + 1, Advance(gen))
  /\ UNCHANGED <<step, drops, first, taken, again, redo>>

\* The client destroys a source that has not run to its end.
Drop ==
  /\ src \in {"held", "taken"}
  /\ drops < MaxDrops
  /\ drops' = drops + 1
  /\ redo' = (redo \/ src = "taken")
  /\ src' = "none"
  /\ UNCHANGED <<gen, step, i, val, first, taken, again>>

\* next(), which its callers guard with hasNext().
next ==
  /\ src \in {"none", "spent"}
  /\ hasNext(gen)
  /\ Deliver(gen.begin)
  /\ gen' = Advance(gen)
  /\ UNCHANGED <<src, step, i, val, drops, first, redo>>

Next ==
  \/ \E s \in Steps \cup {Unlimited} : genIpRange(s)
  \/ Take
  \/ Resume
  \/ Drop
  \/ next

Spec == Init /\ [][Next]_vars

(***************************************************************************)
(* A client that keeps pulling: it opens another source whenever one is     *)
(* spent and the generator is not, and it drains what it opened.            *)
(***************************************************************************)
Pull == (\E s \in (Steps \ {0}) \cup {Unlimited} : hasNext(gen) /\ genIpRange(s))

FairSpec ==
  Spec /\ WF_vars(Pull) /\ WF_vars(Take) /\ WF_vars(Resume)

-----------------------------------------------------------------------------
\* ipLongBegin_ stays within one past ipLongEnd_ and ipLongEnd_ below
\* 255.255.255.255, so `while (ipLongBegin_ <= ipLongEnd_)` cannot wrap round
\* to 0.0.0.0 (the comment and the assert in genIpRange).
NoWrap == gen.end < Top /\ gen.begin <= gen.end + 1

\* The addresses handed out are exactly the ones the generator has passed,
\* plus at most the one whose yield has not been resumed: no address of the
\* range is skipped by switching between batches, next() and abandoned sources.
NothingSkipped ==
  /\ first .. gen.begin - 1 \subseteq taken
  /\ taken \subseteq first .. gen.begin
  /\ taken \subseteq first .. gen.end

\* An address is handed out twice only after a source was destroyed between
\* get() and the resumption that would have moved ipLongBegin_.
OnceUnlessAbandoned == again # {} => redo

\* getIpNumber() is the number of addresses next() can still return, although
\* it is computed in 32 bits: none for a range of unparsable text, and no
\* overflow for the whole address space.
NumberIsRemaining ==
  getIpNumber(gen) = IF hasNext(gen) THEN gen.end - gen.begin + 1 ELSE 0

\* The inductive invariant: a live source holds the generator's current
\* address, and that address is with the client only between get() and the
\* resumption, or after a source was abandoned there.
SourceHoldsBegin ==
  /\ first <= gen.begin
  /\ src \in {"held", "taken"} => val = gen.begin /\ hasNext(gen)
  /\ src = "taken" => gen.begin \in taken
  /\ gen.begin \in taken => src = "taken" \/ redo

IInv ==
  /\ TypeOK
  /\ NoWrap
  /\ NothingSkipped
  /\ OnceUnlessAbandoned
  /\ SourceHoldsBegin

\* No succession of batches, next() and abandoned sources makes the loop wrap, skips
\* or repeats an address, or leaves a count that is not the number of those left;
\* next() is called between two sources, never while one is live, which would make
\* that source skip an address.
GeneratorInv == IInv /\ NumberIsRemaining

\* A client that keeps pulling reaches the end of the range.
Exhausted == <>[](~hasNext(gen))
=============================================================================

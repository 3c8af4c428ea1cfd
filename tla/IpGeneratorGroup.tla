-------------------------- MODULE IpGeneratorGroup --------------------------
(***************************************************************************)
(* src/src/utils/IpGenerator, class IpGeneratorGroup: a std::list of        *)
(* generators with a running total ipNumber_, consumed in order.            *)
(*                                                                          *)
(* genIpRange() keeps a reference to the front generator and a nested       *)
(* coroutine over it: it counts and advances after it is resumed, and pops  *)
(* the generator when the nested source is spent.  genIpRange(stepSize)     *)
(* yields next(), so it counts and advances before the client sees the      *)
(* text.  The client keeps the protocol the references need: while a        *)
(* genIpRange() source is live it calls neither next() nor clear() (both    *)
(* could destroy the generator the coroutine refers to); addIpRange() only  *)
(* appends to a std::list and is allowed at any time.                       *)
(***************************************************************************)
EXTENDS IpRange, Sequences, FiniteSets

CONSTANTS Ends,      \* the values the two ends of an added range may take
          MaxRanges  \* bound: ranges added

VARIABLES
  gens,      \* ipGenerators_
  ipNumber,  \* ipNumber_
  src,       \* the live source: none, held, taken or spent
  mode,      \* which overload made it: "all" or "step"
  step, i,   \* stepSize and the loop counter of a "step" source
  val,       \* the text last yielded
  added,     \* ranges added so far
  drops,     \* sources abandoned so far
  expect,    \* history: every address of every added range, in order
  out,       \* history: the addresses the client received, in order
  lost, redo \* history: abandoned while held by "step", or taken from "all"

source == <<src, mode, step, i, val>>
history == <<expect, out, lost, redo>>
vars == <<gens, ipNumber, source, added, drops, history>>

\* The addresses of a generator, in the order it yields them.
Addresses(g) ==
  [k \in 1 .. Cardinality(Remaining(g)) |-> g.begin + k - 1]

\* The addresses of a list of generators.
Flatten(gs) ==
  LET F[k \in 0 .. Len(gs)] ==
        IF k = 0 THEN << >> ELSE F[k - 1] \o Addresses(gs[k])
  IN  F[Len(gs)]

TypeOK ==
  /\ gens \in Seq(Generators)
  /\ ipNumber \in Nat
  /\ src \in {"none", "held", "taken", "spent"}
  /\ mode \in {"all", "step"}
  /\ step \in Steps \cup {0}
  /\ i \in Nat
  /\ val \in IPs
  /\ added \in 0 .. MaxRanges
  /\ drops \in 0 .. MaxDrops
  /\ expect \in Seq(IPs) /\ out \in Seq(IPs)
  /\ lost \in BOOLEAN /\ redo \in BOOLEAN

Init ==
  /\ gens = << >> /\ ipNumber = 0
  /\ src = "none" /\ mode = "all" /\ step = 0 /\ i = 0 /\ val = 0
  /\ added = 0 /\ drops = 0
  /\ expect = << >> /\ out = << >> /\ lost = FALSE /\ redo = FALSE

Live == src \in {"held", "taken"}

\* next() and clear() would destroy what a live genIpRange() refers to.
MayPop == ~(Live /\ mode = "all")

-----------------------------------------------------------------------------
\* addIpRange: a range with no address (unparsable text) is ignored.
addIpRange(b, e) ==
  LET ips == IpGenerator(b, e) IN
  /\ added < MaxRanges
  /\ added' = added + 1
  /\ ipNumber' = IF hasNext(ips) THEN ipNumber + getIpNumber(ips) ELSE ipNumber
  /\ gens' = IF hasNext(ips) THEN Append(gens, ips) ELSE gens
  /\ expect' = IF hasNext(ips) THEN expect \o Addresses(ips) ELSE expect
  /\ UNCHANGED <<source, drops, out, lost, redo>>

\* What the live source still holds for the client.
InHand == IF src = "held" /\ mode = "step" THEN <<val>> ELSE << >>

\* clear(): the total and the list.
clear ==
  /\ MayPop
  /\ gens # << >>
  /\ ipNumber' = 0
  /\ gens' = << >>
  /\ expect' = SubSeq(expect, 1, Len(expect) - Len(Flatten(gens)))
  /\ UNCHANGED <<source, added, drops, out, lost, redo>>

\* hasNext()
HasNext(n) == n > 0

\* Advance the front generator; drop it when that exhausts it.
PopFront(gs) ==
  IF hasNext(Advance(Head(gs)))
  THEN <<Advance(Head(gs))>> \o Tail(gs)
  ELSE Tail(gs)

\* next(): the front generator's next address, counted off.
NextIp(gs) == Head(gs).begin

next ==
  /\ MayPop
  /\ HasNext(ipNumber)
  /\ out' = Append(out, NextIp(gens))
  /\ ipNumber' = ipNumber - 1
  /\ gens' = PopFront(gens)
  /\ UNCHANGED <<source, added, drops, expect, lost, redo>>

-----------------------------------------------------------------------------
\* Run a genIpRange() coroutine to its next yield: the front generator's
\* next address, or the end when the list is empty.
RunAll(gs, n) ==
  /\ src' = IF gs = << >> THEN "spent" ELSE "held"
  /\ val' = IF gs = << >> THEN val ELSE NextIp(gs)
  /\ gens' = gs /\ ipNumber' = n
  /\ UNCHANGED <<step, i>>

\* Run a genIpRange(stepSize) coroutine from its loop test: it takes next()
\* out of the group before it yields.
RunStep(s, n) ==
  /\ i' = n
  /\ IF n < s /\ HasNext(ipNumber)
     THEN /\ src' = "held"
          /\ val' = NextIp(gens)
          /\ gens' = PopFront(gens)
          /\ ipNumber' = ipNumber - 1
     ELSE /\ src' = "spent"
          /\ UNCHANGED <<val, gens, ipNumber>>

genIpRange ==
  /\ ~Live
  /\ mode' = "all"
  /\ RunAll(gens, ipNumber)
  /\ UNCHANGED <<added, drops, history>>

genIpRangeStep(s) ==
  /\ ~Live
  /\ mode' = "step" /\ step' = s
  /\ RunStep(s, 0)
  /\ UNCHANGED <<added, drops, history>>

\* source.get()
Take ==
  /\ src = "held"
  /\ src' = "taken"
  /\ out' = Append(out, val)
  /\ UNCHANGED <<gens, ipNumber, mode, step, i, val, added, drops, expect, lost, redo>>

\* Mutant: genIpRange() does not count the address off.
ResumeUncounted ==
  /\ src = "taken"
  /\ \/ mode = "all" /\ RunAll(PopFront(gens), ipNumber)
     \/ mode = "step" /\ RunStep(step, i + 1) /\ UNCHANGED step
  /\ UNCHANGED <<mode, added, drops, history>>

\* source(): after its yield genIpRange() counts the address off and advances
\* the nested source, popping a spent generator; genIpRange(stepSize) only
\* goes round its loop.
Resume ==
  /\ src = "taken"
  /\ \/ mode = "all" /\ RunAll(PopFront(gens), ipNumber - 1)
     \/ mode = "step" /\ RunStep(step, i + 1) /\ UNCHANGED step
  /\ UNCHANGED <<mode, added, drops, history>>

\* The client destroys a live source.
Drop ==
  /\ Live /\ drops < MaxDrops
  /\ drops' = drops + 1
  /\ src' = "none"
  /\ lost' = (lost \/ (src = "held" /\ mode = "step"))
  /\ redo' = (redo \/ (src = "taken" /\ mode = "all"))
  /\ UNCHANGED <<gens, ipNumber, mode, step, i, val, added, expect, out>>

Next ==
  \/ \E b, e \in Ends : addIpRange(b, e)
  \/ clear
  \/ next
  \/ genIpRange
  \/ \E s \in Steps : genIpRangeStep(s)
  \/ Take
  \/ Resume
  \/ Drop

Spec == Init /\ [][Next]_vars

-----------------------------------------------------------------------------
\* ipNumber_ is the number of addresses left in the list, after any mix of
\* addIpRange, clear, next and batches, abandoned ones included: getIpNumber()
\* is right and hasNext() never lets next() take front() of an empty list.
TotalMatchesList ==
  /\ ipNumber = Len(Flatten(gens))
  /\ HasNext(ipNumber) <=> gens # << >>

\* No exhausted generator stays in the list, so front() is always the one the
\* next address comes from (getNextIp reads it without a check).
NoSpentGenerator == \A k \in 1 .. Len(gens) : hasNext(gens[k])

\* How often an address occurs in a sequence.
Count(s, ip) == Cardinality({k \in 1 .. Len(s) : s[k] = ip})

\* Every address of every added range is with the client, in its source or in
\* the list, and in one of them only, whatever mix of batches, next(),
\* addIpRange and clear is used, as long as no source was abandoned at a point
\* where genIpRange(n) loses the address it holds or genIpRange() repeats the
\* one it gave.  (An address genIpRange() has given stays in the list until
\* the source is resumed.)
EachAddressOnce ==
  LET left == Flatten(gens)
      inList == IF src = "taken" /\ mode = "all" THEN Tail(left) ELSE left
  IN  ~lost /\ ~redo =>
        \A ip \in IPs : Count(out \o InHand \o inList, ip) = Count(expect, ip)

\* Whatever is called in whatever order, the list and the total agree and every
\* address of every range added is delivered once.
GroupInv == TypeOK /\ TotalMatchesList /\ NoSpentGenerator /\ EachAddressOnce
=============================================================================

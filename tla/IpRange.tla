------------------------------ MODULE IpRange ------------------------------
(***************************************************************************)
(* The values of src/src/utils/IpGenerator: 32-bit addresses and the       *)
(* two-field generator object.  Top stands for 0xffffffff, which is both    *)
(* the largest uint32_t and what ip2long returns for text inet_addr cannot  *)
(* parse; all arithmetic on addresses is modulo Top + 1.                    *)
(***************************************************************************)
EXTENDS Integers

CONSTANTS Top,
          Steps,     \* the stepSize arguments a client may pass
          MaxDrops   \* bound: how many sources a client abandons

ASSUME TopAssumption == Top \in Nat \ {0}
ASSUME StepsAssumption == Steps \subseteq Nat
ASSUME MaxDropsAssumption == MaxDrops \in Nat

IPs == 0 .. Top

\* The objects of class IpGenerator: the next address and the last one.
Generators == [begin : IPs, end : IPs]

\* Mutant: the constructor that leaves 255.255.255.255 in.
NoTruncation(b, e) ==
  [begin |-> IF b > e THEN e ELSE b, end |-> IF b > e THEN b ELSE e]

\* The constructor after the text is split and converted: swap the ends of a
\* reversed range, then cut off 255.255.255.255.
IpGenerator(b, e) ==
  LET lo == IF b > e THEN e ELSE b
      hi == IF b > e THEN b ELSE e
  IN  [begin |-> lo, end |-> IF hi = Top THEN Top - 1 ELSE hi]

hasNext(g) == g.begin <= g.end

\* ipLongBegin_++, in uint32_t
Advance(g) == [g EXCEPT !.begin = (g.begin + 1) % (Top + 1)]

\* uint32_t arithmetic: an exhausted generator has none left, by wrap-around.
getIpNumber(g) == (g.end - g.begin + 1) % (Top + 1)

\* The addresses a generator still has to hand out.
Remaining(g) == g.begin .. g.end
=============================================================================

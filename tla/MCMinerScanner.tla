--------------------------- MODULE MCMinerScanner ---------------------------
(* The driver over four items and two places, so that the source outlasts   *)
(* the first fill; a generator over six addresses, of any range, the        *)
(* reversed and unparsable ones too; and a group over five addresses that   *)
(* is given two ranges.  A behaviour has one of the three, which meet only   *)
(* through the addresses the driver's caller takes from a generator.        *)
EXTENDS MinerScanner, IpRange

CONSTANTS GroupTop, GroupSteps, GroupDrops,  \* Top, Steps and MaxDrops of the group
          Ends, MaxRanges

ASSUME GroupAssumption ==
  /\ GroupTop \in Nat \ {0} /\ GroupSteps \subseteq Nat /\ GroupDrops \in Nat
  /\ Ends \subseteq 0 .. GroupTop /\ MaxRanges \in Nat

VARIABLES object,
          gen, src, step, k, val, drops, first, taken, again, redo,
          gens, ipNumber, state, mode, size, count, text, added,
          abandoned, expect, out, lost, repeated

generator == <<gen, src, step, k, val, drops, first, taken, again, redo>>
group == <<gens, ipNumber, state, mode, size, count, text, added,
           abandoned, expect, out, lost, repeated>>

Generator == INSTANCE IpGenerator WITH i <- k

Group == INSTANCE IpGeneratorGroup WITH
  Top <- GroupTop, Steps <- GroupSteps, MaxDrops <- GroupDrops,
  src <- state, step <- size, i <- count, val <- text, drops <- abandoned,
  redo <- repeated

IsDriver == object = "driver"

MCInit ==
  /\ object \in {"driver", "generator", "group"}
  /\ Init /\ Generator!Init /\ Group!Init
  /\ object # "generator" => gen = IpGenerator(Top, Top)

MCNext ==
  /\ UNCHANGED object
  /\ \/ IsDriver /\ Next /\ UNCHANGED <<generator, group>>
     \/ object = "generator" /\ Generator!Next /\ UNCHANGED <<vars, group>>
     \/ object = "group" /\ Group!Next /\ UNCHANGED <<vars, generator>>

(* The fairness of MinerScanner!FairSpec and of IpGenerator!FairSpec; the    *)
(* group has none.                                                          *)
MCSpec ==
  /\ MCInit /\ [][MCNext]_<<vars, generator, group, object>>
  /\ WF_vars(IsDriver /\ FillNext) /\ WF_vars(IsDriver /\ FillDone)
  /\ WF_vars(IsDriver /\ doNextWork) /\ WF_vars(IsDriver /\ runReturns)
  /\ \A x \in Items : WF_vars(IsDriver /\ onResponse(x))
  /\ WF_generator(object = "generator" /\ Generator!Pull)
  /\ WF_generator(Generator!Take) /\ WF_generator(Generator!Resume)

(* MinerScanner!Terminates, where the driver runs.                          *)
ScanTerminates == IsDriver ~> pc \in {"done", "thrown"}

(* IpGenerator!GeneratorInv: no address of a range is skipped, and none      *)
(* repeated unless a source is abandoned; the number is that of those left. *)
GeneratorInv == Generator!GeneratorInv

(* IpGenerator!Exhausted: a client that keeps pulling reaches the end.      *)
Exhausted == Generator!Exhausted

(* IpGeneratorGroup!GroupInv: the total and the list of a group agree, and   *)
(* every address of every range added to it is delivered once.              *)
GroupInv == Group!GroupInv
=============================================================================

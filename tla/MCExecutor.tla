----------------------------- MODULE MCExecutor -----------------------------
(* The helper's machinery around one executor of any script of three steps,  *)
(* and the scan scripts, each an executor that hands on to the next.  A      *)
(* behaviour has one of the two.                                            *)
EXTENDS Executor

VARIABLES program, script, at, address, miner, programs, working, tries, evidence

scan == <<script, at, address, miner, programs, working, tries, evidence>>

Scan == INSTANCE Scanner WITH times <- tries

MCInit == program \in {"executor", "scan"} /\ Init /\ Scan!Init
MCNext ==
  /\ UNCHANGED program
  /\ \/ program = "executor" /\ Next /\ UNCHANGED scan
     \/ program = "scan" /\ Scan!Next /\ UNCHANGED vars

(* The fairness of Executor!FairSpec and of Scanner!FairSpec.               *)
MCSpec ==
  /\ MCInit /\ [][MCNext]_<<vars, scan, program>>
  /\ WF_vars(program = "executor" /\ ((\E k \in Stages : MakeStep(k)) \/ doRetry \/ ParseNothing))
  /\ WF_vars(program = "executor" /\ \E stat \in Stats : makeResult(stat))
  /\ WF_scan(program = "scan" /\ (Scan!makeResult \/ Scan!Retry))

(* Scanner!ScanInv: requests go to the port of the script that makes them,   *)
(* and the miner gets no type that nothing showed.                          *)
ScanInv == Scan!ScanInv

(* Scanner!ScanEnds, where there is a scan: it comes to an end.              *)
ScanEnds == program = "scan" ~> at = "end"

(* Scanner!WhatsMinerUsesHttps.                                             *)
WhatsMinerUsesHttps == Scan!WhatsMinerUsesHttps
=============================================================================

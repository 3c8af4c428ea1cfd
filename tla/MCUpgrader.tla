----------------------------- MODULE MCUpgrader -----------------------------
(* Small instances of Upgrader: the types of the miners. *)
EXTENDS Upgrader

(* Two scripts that wait for a slot and two that do not.  Over three places   *)
(* the Antminers never hold them all, so a slot that is lost keeps no miner   *)
(* from being admitted.                                                      *)
TwoAntminers ==
  [m \in Miners |-> CASE m = 2 -> "BosHttpLuci" [] m = 3 -> "AnthillOS"
                      [] OTHER -> "AntminerHttpCgi"]

WithBos == [m \in Miners |-> IF m = 1 THEN "AntminerHttpCgi" ELSE "BosHttpLuci"]
=============================================================================

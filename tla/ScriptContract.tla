--------------------------- MODULE ScriptContract ---------------------------
(***************************************************************************)
(* What a script (src/src/lua/scripts) promises the driver of src/src/miner *)
(* about one work context: the driver calls makeRequest and makeResult in   *)
(* turn; after each call the context goes on or is at step "end", canYield_ *)
(* is never taken back, and a context at step "end" may be yielded, so that *)
(* the consumer hears how it ended.                                         *)
(***************************************************************************)
VARIABLES phase, mayYield

scriptVars == <<phase, mayYield>>

SInit == phase = "request" /\ mayYield = FALSE

After(p) ==
  /\ phase' \in {p, "over"}
  /\ mayYield' \in BOOLEAN
  /\ mayYield => mayYield'
  /\ phase' = "over" => mayYield'

MakeRequest == phase = "request" /\ After("session")

MakeResult == phase = "session" /\ After("request")

Contract == SInit /\ [][MakeRequest \/ MakeResult]_scriptVars
=============================================================================

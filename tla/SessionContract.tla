-------------------------- MODULE SessionContract --------------------------
(***************************************************************************)
(* What a src/src/tcpclient/Session promises to the code that submitted a   *)
(* request: the session starts, possibly after a delay, and then answers    *)
(* with exactly one response.  The one other outcome is the exception of    *)
(* the synchronous resolve, which leaves no response.                       *)
(***************************************************************************)
CONSTANT Codes   \* the error codes a response may carry

VARIABLES phase, code

contractVars == <<phase, code>>

CInit == phase = "submitted" /\ code = "none"

Start == phase = "submitted" /\ phase' = "open" /\ UNCHANGED code

Throw == phase = "submitted" /\ phase' = "thrown" /\ UNCHANGED code

Respond ==
  /\ phase = "open"
  /\ phase' = "answered"
  /\ code' \in Codes

CNext == Start \/ Throw \/ Respond

Contract == CInit /\ [][CNext]_contractVars
=============================================================================

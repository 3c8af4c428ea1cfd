----------------------------- MODULE MCSession -----------------------------
(* Every kind of request: three schemes, with and without timeout and delay,
   final or not, plain or an upload of up to two pieces. *)
EXTENDS Session
=============================================================================

---------------------------- MODULE MCScriptHost ----------------------------
(* A hierarchy of four classes with a derived class of two bases, one of    *)
(* them abstract over a base that is not; and a driver over                 *)
(* three miners, the last with the address of the first, two at a time,     *)
(* with calls that fail at every point.  A behaviour has one of the two,    *)
(* and the other stays as it began.                                         *)
EXTENDS ScriptHost, ClassHierarchy

VARIABLES program, methods, meta, global, added

tables == <<methods, meta, global, added>>

Tables == INSTANCE ClassTables

MCClasses == {"Base", "Shape", "Named", "Square"}
MCBases ==
  [Base |-> <<>>, Shape |-> <<"Base">>, Named |-> <<>>, Square |-> <<"Shape", "Named">>]
MCMethods == [Base |-> {"id"}, Shape |-> {"area"}, Named |-> {"name"}, Square |-> {"area"}]
MCTags == [Shape |-> {"Abstract"}, Named |-> {"No_public_destructor", "Equal_op"}]
MCIpOf == <<"a", "b", "a">>

MCInit ==
  /\ program \in {"host", "classes"}
  /\ Init /\ Tables!Init

MCNext ==
  /\ UNCHANGED program
  /\ \/ program = "host" /\ Next /\ UNCHANGED tables
     \/ program = "classes" /\ Tables!Next /\ UNCHANGED vars

MCSpec == MCInit /\ [][MCNext]_<<vars, tables, program>>

(* Tables!LookupIsSound: a class offers what its hierarchy exports and what  *)
(* was added to it, and no constructor where a tag withholds it.            *)
LookupIsSound == Tables!LookupIsSound
=============================================================================

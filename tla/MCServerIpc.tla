---------------------------- MODULE MCServerIpc ----------------------------
(* Instances of ServerIpc, which needs no more than values for its constants. *)
EXTENDS ServerIpc

CONSTANTS c1, c2
=============================================================================

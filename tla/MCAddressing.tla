---------------------------- MODULE MCAddressing ----------------------------
(* Model-checking instance of Addressing: a node, and names of which two    *)
(* differ only in case.  Senders that were registered under a name instead  *)
(* of a node id compete with the node for the aliases.                      *)
EXTENDS Addressing, TLC

CONSTANTS n1, emma, Emma, bob

FoldDef == (n1 :> n1) @@ (emma :> emma) @@ (Emma :> emma) @@ (bob :> bob)
=============================================================================

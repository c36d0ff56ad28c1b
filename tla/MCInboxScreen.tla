--------------------------- MODULE MCInboxScreen ----------------------------
(* Model-checking instances of InboxScreen: two messages come in, one is   *)
(* sent.                                                                   *)
EXTENDS InboxScreen

IdsDef == 1..3
InboundDef == {1, 3}
=============================================================================

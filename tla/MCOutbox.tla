------------------------------ MODULE MCOutbox ------------------------------
(* Model-checking instances of Outbox.                                     *)
EXTENDS Outbox, TLC

\* Packet ids are interchangeable, and so are message ids.
Symmetry == Permutations(Packets) \cup Permutations(Msgs)

\* Users delete whatever the CLI and the TUI let them delete.
AnyState == {"QUEUED", "SENT", "ACKED", "FAILED", "DELETED"}
\* Users only tidy up messages that are settled.
Settled == {"ACKED", "FAILED"}
=============================================================================

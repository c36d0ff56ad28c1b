---------------------------- MODULE SenderTable -----------------------------
(***************************************************************************)
(* What the table senders promises to everything that reads it: a node has *)
(* at most one row, a row that is there stays, a sender that was given an  *)
(* alias never goes back to having none, and no two senders have the same  *)
(* alias, whoever writes.                                                  *)
(***************************************************************************)
CONSTANTS Rows,   \* the texts that may stand in node_id
          Names,  \* aliases
          TTLs,   \* values of auto_delete_after_s
          None    \* NULL

VARIABLE senders

Absent == [known |-> FALSE, alias |-> None, auto_delete_after_s |-> None]

Sender == [known: {TRUE}, alias: Names \cup {None}, auto_delete_after_s: TTLs \cup {None}]

\* Another sender has this alias: idx_senders_alias is unique where not NULL.
Taken(alias, n) ==
    alias # None /\ \E other \in Rows \ {n} : senders[other].alias = alias

Init == senders = [n \in Rows |-> Absent]

\* A first row for a node.
Appear(n, row) ==
    /\ ~senders[n].known
    /\ ~Taken(row.alias, n)
    /\ senders' = [senders EXCEPT ![n] = row]

\* A new alias, perhaps with a new time to live.
Rename(n, row) ==
    /\ senders[n].known
    /\ row.alias # None /\ ~Taken(row.alias, n)
    /\ senders' = [senders EXCEPT ![n] = row]

Next == \E n \in Rows, row \in Sender : Appear(n, row) \/ Rename(n, row)

Spec == Init /\ [][Next]_senders
=============================================================================

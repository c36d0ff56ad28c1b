----------------------------- MODULE Addressing -----------------------------
(***************************************************************************)
(* Who a message goes to: the table senders and the texts people address   *)
(* it by.  meshcli send and alias, the TUI's compose screen and alias      *)
(* dialog each look a text up in one statement and act on the answer in a  *)
(* later one, from several processes, while the daemon inserts the nodes   *)
(* it hears.                                                               *)
(*                                                                         *)
(* An INSERT of the daemon that fails leaves the transaction open which    *)
(* sqlite3 began for it: DbThread.run answers "err" and neither commits    *)
(* nor rolls back.  Until its next write commits, no other process can     *)
(* write.                                                                  *)
(***************************************************************************)
EXTENDS Naturals

CONSTANTS Nodes,    \* the ids of nodes, which start with "!"
          Names,    \* aliases, and whatever else people type
          Typed,    \* the addresses people type
          Fold,     \* a text's class under COLLATE NOCASE
          TTLs,     \* values of alias --auto-delete
          None,     \* NULL, nothing
          Shells,   \* meshcli invocations
          Screens   \* TUIs

Texts == Nodes \cup Names
Users == Shells \cup Screens

ASSUME AddressingAssumption ==
    /\ Nodes \cap Names = {} /\ None \notin Texts
    /\ Shells \cap Screens = {}
    /\ Texts \subseteq DOMAIN Fold /\ Typed \subseteq Texts

\* The daemon writes node ids in lower case; that somebody types one with other
\* letters is left out.
ASSUME FoldAssumption == \A n \in Nodes, t \in Texts : Fold[n] = Fold[t] => n = t

VARIABLES
    senders,  \* a row for every text that may stand in node_id
    queued,   \* the peer of the message the last step put into the outbox, if it did
    rx,       \* the node _ensure_sender_db is about to INSERT
    held,     \* the daemon's connection has been left in a transaction
    job,      \* what each user's program is doing, with its local variables
    steady    \* history: a reply's address has named its sender all the time

vars == <<senders, queued, rx, held, job, steady>>

Table == INSTANCE SenderTable WITH Rows <- Texts

Absent == Table!Absent

Idle == [at |-> "idle", kind |-> "none", text |-> None, row |-> None,
         alias |-> None, ttl |-> None, answers |-> None]

Init ==
    /\ senders = [n \in Texts |-> Absent]
    /\ queued = None
    /\ rx = None
    /\ held = FALSE
    /\ job = [u \in Users |-> Idle]
    /\ steady = [u \in Screens |-> TRUE]

-----------------------------------------------------------------------------
(* The commands and dialogs                                                *)

Start(u, j) == /\ job[u] = Idle
               /\ job' = [job EXCEPT ![u] = j]
               /\ queued' = None
               /\ UNCHANGED <<senders, rx, held>>

Step(u, j) == /\ job' = [job EXCEPT ![u] = j]
              /\ queued' = None
              /\ UNCHANGED <<senders, rx, held>>

\* meshcli send <dest>, meshcli alias <node_id> <alias> [--auto-delete ttl]
Send(u, t) == Start(u, [Idle EXCEPT !.at = "by alias", !.kind = "send", !.text = t])

Alias(u, t, a, ttl) ==
    Start(u, [Idle EXCEPT !.at = "by alias", !.kind = "alias", !.text = t,
                          !.alias = a, !.ttl = ttl])

\* action_new: the address is typed.
New(u, t) == Start(u, [Idle EXCEPT !.at = "compose", !.kind = "compose", !.text = t])

\* What the To field of a reply says: to_alias or to_node_id.
Prefill(n) == IF senders[n].alias # None THEN senders[n].alias ELSE n

\* action_reply to a message of node n.
Reply(u, n) ==
    /\ senders[n].known
    /\ Start(u, [Idle EXCEPT !.at = "compose", !.kind = "compose", !.text = Prefill(n),
                             !.answers = n])

\* action_set_alias opens the dialog on the node of the message under the cursor.
SetAlias(u, n) ==
    /\ senders[n].known
    /\ Start(u, [Idle EXCEPT !.at = "dialog", !.kind = "rename", !.text = n])

\* Escape, or "y" to ConfirmDiscardModal: nothing is written.
Close(u) == job[u].at \in {"compose", "dialog"} /\ Step(u, Idle)

PressSend(u) == job[u].at = "compose" /\ Step(u, [job[u] EXCEPT !.at = "by alias"])

Submit(u, a) ==
    job[u].at = "dialog" /\ Step(u, [job[u] EXCEPT !.at = "ensure", !.alias = a])

-----------------------------------------------------------------------------
(* resolve_alias: two SELECTs, each with COLLATE NOCASE                    *)

ByAlias(t, table) ==
    {n \in Texts : table[n].alias # None /\ Fold[table[n].alias] = Fold[t]}

ByNode(t, table) == {n \in Texts : table[n].known /\ Fold[n] = Fold[t]}

\* What the caller does with a row: any of them, if several match.
Found(u, rows) ==
    \E n \in rows :
        Step(u, [job[u] EXCEPT !.row = n,
                               !.at = IF job[u].kind = "alias" THEN "update" ELSE "enqueue"])

\* Without one, alias creates the sender, send gives up, and the compose screen
\* creates it if the text may be a node id, else stays where it is.
NotFound(u) ==
    LET j == job[u]
    IN  Step(u, CASE j.kind = "alias" -> [j EXCEPT !.at = "ensure"]
                  [] j.kind = "send" -> Idle
                  [] j.kind = "compose" /\ j.text \in Nodes -> [j EXCEPT !.at = "ensure"]
                  [] OTHER -> [j EXCEPT !.at = "compose"])

\* Mutant of LookAlias: one SELECT for both columns.
LookEither(u) ==
    /\ job[u].at = "by alias"
    /\ LET rows == ByAlias(job[u].text, senders) \cup ByNode(job[u].text, senders)
       IN  IF rows # {} THEN Found(u, rows) ELSE Step(u, [job[u] EXCEPT !.at = "by node"])

LookAlias(u) ==
    /\ job[u].at = "by alias"
    /\ LET rows == ByAlias(job[u].text, senders)
       IN  IF rows # {} THEN Found(u, rows) ELSE Step(u, [job[u] EXCEPT !.at = "by node"])

LookNode(u) ==
    /\ job[u].at = "by node"
    /\ LET rows == ByNode(job[u].text, senders)
       IN  IF rows # {} THEN Found(u, rows) ELSE NotFound(u)

-----------------------------------------------------------------------------
(* ensure_sender, update_sender, enqueue_outbound                          *)

\* Mutant of Ensured: the id of a sender that was just inserted is not returned.
EnsuredNone(j) == CASE j.kind = "alias" -> Idle
                    [] j.kind = "compose" -> [j EXCEPT !.at = "enqueue"]
                    [] j.kind = "rename" -> [j EXCEPT !.at = "update"]

\* With the sender's row there, what ensure_sender was called for.  The alias
\* command is done: its alias went into the INSERT, if there was one.
Ensured(j) == CASE j.kind = "alias" -> Idle
                [] j.kind = "compose" -> [j EXCEPT !.at = "enqueue", !.row = j.text]
                [] j.kind = "rename" -> [j EXCEPT !.at = "update", !.row = j.text]

Ensure(u) ==
    /\ job[u].at = "ensure"
    /\ Step(u, IF senders[job[u].text].known THEN Ensured(job[u])
                                             ELSE [job[u] EXCEPT !.at = "insert"])

\* A statement of a client: it waits while the daemon's transaction is open,
\* for 5 seconds, then raises, and so does one that a unique index refuses.
\* The command ends, the TUI too.
Raises(u) == Step(u, Idle)
Writes(u, at) == job[u].at = at /\ ~held
LockedOut(u) == held /\ job[u].at \in {"insert", "update", "enqueue"} /\ Raises(u)

\* Only the alias command names an alias and a TTL in the INSERT.
NewSender(j) == [known |-> TRUE, alias |-> IF j.kind = "alias" THEN j.alias ELSE None,
                 auto_delete_after_s |-> j.ttl]

\* Mutant of Refused: INSERT OR REPLACE.
RefusedNever(j, row) == FALSE

Refused(j, row) == senders[j.text].known \/ Table!Taken(row.alias, j.text)

Insert(u) ==
    /\ Writes(u, "insert")
    /\ LET j == job[u]
           row == NewSender(j)
       IN  \/ Refused(j, row) /\ Raises(u)
           \/ /\ ~Refused(j, row)
              /\ senders' = [senders EXCEPT ![j.text] = row]
              /\ job' = [job EXCEPT ![u] = Ensured(j)]
              /\ queued' = None
              /\ UNCHANGED <<rx, held>>

\* Mutant of Renamed: the dialog overwrites the TTL as the command does.
RenamedAll(j) == [senders[j.row] EXCEPT !.alias = j.alias, !.auto_delete_after_s = j.ttl]

\* The dialog sets the alias; the command also the TTL, to NULL if none was given.
Renamed(j) ==
    [senders[j.row] EXCEPT !.alias = j.alias,
                           !.auto_delete_after_s = IF j.kind = "alias" THEN j.ttl ELSE @]

\* The UPDATEs of update_sender and their one commit.
Update(u) ==
    /\ Writes(u, "update")
    /\ LET j == job[u]
       IN  \/ Table!Taken(j.alias, j.row) /\ Raises(u)
           \/ /\ ~Table!Taken(j.alias, j.row)
              /\ senders' = [senders EXCEPT ![j.row] = Renamed(j)]
              /\ job' = [job EXCEPT ![u] = Idle]
              /\ queued' = None
              /\ UNCHANGED <<rx, held>>

Enqueue(u) ==
    /\ Writes(u, "enqueue")
    /\ queued' = job[u].row
    /\ job' = [job EXCEPT ![u] = Idle]
    /\ UNCHANGED <<senders, rx, held>>

-----------------------------------------------------------------------------
(* The daemon                                                              *)

\* _ensure_sender_db: the SELECT finds nothing ...
RxLook(n) ==
    /\ rx = None
    /\ ~senders[n].known
    /\ rx' = n
    /\ queued' = None
    /\ UNCHANGED <<senders, held, job>>

\* ... and the INSERT is refused if a client was quicker, or is committed.
RxInsert ==
    /\ rx # None
    /\ held' = senders[rx].known
    /\ senders' = IF held' THEN senders
                  ELSE [senders EXCEPT ![rx] = [Absent EXCEPT !.known = TRUE]]
    /\ rx' = None
    /\ queued' = None
    /\ UNCHANGED job

\* Any other write of the daemon commits what was left open.  There need be none:
\* with the scheduler dead and nothing to send, the lock stays for good.
DaemonWrite == held /\ held' = FALSE /\ queued' = None /\ UNCHANGED <<senders, rx, job>>

-----------------------------------------------------------------------------
Shell(u) ==
    \/ \E t \in Typed : Send(u, t)
    \/ \E t \in Typed, a \in Names, ttl \in TTLs \cup {None} : Alias(u, t, a, ttl)

Screen(u) ==
    \/ \E t \in Typed : New(u, t)
    \/ \E n \in Nodes : Reply(u, n) \/ SetAlias(u, n)
    \/ \E a \in Names : Submit(u, a)
    \/ Close(u) \/ PressSend(u)

Program(u) == \/ LookAlias(u) \/ LookNode(u) \/ Ensure(u)
              \/ Insert(u) \/ Update(u) \/ Enqueue(u) \/ LockedOut(u)

Daemon == RxInsert \/ DaemonWrite \/ \E n \in Nodes : RxLook(n)

\* The senders a text names, were it looked up in one go.
Named(t, table) == IF ByAlias(t, table) # {} THEN ByAlias(t, table) ELSE ByNode(t, table)

History ==
    steady' = [u \in Screens |->
        job'[u].answers # None =>
            /\ job[u].answers # None => steady[u]
            /\ Named(job'[u].text, senders') = {job'[u].answers}]

Next == /\ \/ \E u \in Shells : Shell(u)
           \/ \E u \in Screens : Screen(u)
           \/ \E u \in Users : Program(u)
           \/ Daemon
        /\ History

Spec == Init /\ [][Next]_vars

-----------------------------------------------------------------------------
(* What addressing promises.                                               *)

\* Every variable keeps its type.
TypeOK ==
    /\ senders \in [Texts -> Table!Sender \cup {Absent}]
    /\ queued \in Texts \cup {None}
    /\ rx \in Nodes \cup {None}
    /\ held \in BOOLEAN
    /\ \A u \in Users :
         LET j == job[u]
         IN  /\ j.at \in {"idle", "compose", "dialog", "by alias", "by node", "ensure",
                          "insert", "update", "enqueue"}
             /\ j.at # "idle" => j.text \in Texts
             /\ j.at \in {"update", "enqueue"} => j.row \in Texts
             /\ j.at = "update" => j.alias \in Names
    /\ steady \in [Screens -> BOOLEAN]

\* A reply goes to the sender of the message it answers, even though its To
\* field holds an alias that is looked up again when it is sent, unless at some
\* moment since the key was pressed the alias was not that sender's, or another
\* sender's alias differed from it in case only.
ReplyReachesSender ==
    \A u \in Screens :
        (job[u].at = "enqueue" /\ job[u].answers # None /\ steady[u])
            => job[u].row = job[u].answers

\* However the SELECTs, INSERTs and UPDATEs of all programs interleave, the
\* table keeps its promises to those who read it.
ImplementsTable == Table!Spec

\* A rename in the TUI, a reply or a heard node never touches a time to live:
\* it changes only by the alias command (SetAliasModal asks for no TTL).
TTLByCommandOnly ==
    [][\A n \in Texts : senders'[n].auto_delete_after_s # senders[n].auto_delete_after_s
          => \E u \in Shells : job[u].kind = "alias" /\ job'[u] = Idle]_vars
=============================================================================

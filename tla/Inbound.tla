------------------------------ MODULE Inbound -------------------------------
(***************************************************************************)
(* Inbound messages: the callback _on_text that stores a DM the radio      *)
(* heard, the clients that read and delete messages (meshcli and the TUI,  *)
(* each with its own SQLite connection), and the scheduler's auto-delete   *)
(* step.  A SELECT and the INSERT or UPDATE that depends on it are         *)
(* separate steps: nothing locks the database in between.  What clients do *)
(* to the table senders is the environment here, one statement at a time;  *)
(* module Addressing has the commands it comes from.                       *)
(***************************************************************************)
EXTENDS Integers

CONSTANTS Msgs,      \* the DMs that may arrive
          Nodes,     \* node ids
          From,      \* the sender of each DM
          Clients,   \* meshcli invocations and TUIs
          None,      \* NULL
          Toml,      \* cfg.auto_delete_per_sender
          GlobalTTL, \* cfg.auto_delete_global_s
          TTLs,      \* the values users give to alias --auto-delete
          MaxTime    \* bound on the clock

\* Nothing refuses a negative number: such a message expires as it is read.
TTL == Int \cup {None}

ASSUME NoneAssumption == None \notin Int
ASSUME InboundAssumption ==
    /\ From \in [Msgs -> Nodes]
    /\ Toml \in [Nodes -> TTL]        \* None: the node is not in the dict
    /\ GlobalTTL \in TTL
    /\ TTLs \subseteq TTL
    /\ MaxTime \in Nat

VARIABLES
    now,       \* the wall clock
    messages,  \* the rows with direction = 'in', "NONE" when there is none
    senders,   \* the rows of senders: auto_delete_after_s, or "NONE"
    heard,     \* the DMs _on_text was called with
    rx,        \* the callback thread: where it is and with which DM
    client,    \* what each client is doing
    tick       \* the variable now of the running _sched_tick

vars == <<now, messages, senders, heard, rx, client, tick>>

NoRow == [state |-> "NONE", auto_delete_at |-> None]
Unknown == [known |-> FALSE, auto_delete_after_s |-> None]
Idle == [at |-> "idle"]

Init ==
    /\ now = 0
    /\ messages = [m \in Msgs |-> NoRow]
    /\ senders = [n \in Nodes |-> Unknown]
    /\ heard = {}
    /\ rx = Idle
    /\ client = [c \in Clients |-> Idle]
    /\ tick = None

\* Config.resolve_auto_delete: the TOML entry, else the DB column, else the
\* global default; 0 at the level that decides means never.
Resolve(n, db) ==
    LET v == IF Toml[n] # None THEN Toml[n] ELSE IF db # None THEN db ELSE GlobalTTL
    IN  IF v = 0 THEN None ELSE v

-----------------------------------------------------------------------------
(* _on_text and _ensure_sender_db, on the callback thread                  *)

RxText(m) ==
    /\ rx = Idle
    /\ m \notin heard
    /\ heard' = heard \cup {m}
    /\ rx' = [at |-> IF senders[From[m]].known THEN "insert" ELSE "sender", msg |-> m]
    /\ UNCHANGED <<now, messages, senders, client, tick>>

\* INSERT INTO senders.  If a client inserted the node since the SELECT, the
\* unique index makes it raise, and _on_text logs the exception and returns.
RxSender ==
    /\ rx.at = "sender"
    /\ LET n == From[rx.msg]
       IN  IF senders[n].known
           THEN rx' = Idle /\ UNCHANGED senders
           ELSE /\ senders' = [senders EXCEPT ![n].known = TRUE]
                /\ rx' = [rx EXCEPT !.at = "insert"]
    /\ UNCHANGED <<now, messages, heard, client, tick>>

\* Mutant of NewMessage: the state of an outbound row.
NewMessageQueued == [state |-> "QUEUED", auto_delete_at |-> None]

NewMessage == [state |-> "UNSEEN", auto_delete_at |-> None]

RxInsert ==
    /\ rx.at = "insert"
    /\ messages' = [messages EXCEPT ![rx.msg] = NewMessage]
    /\ rx' = Idle
    /\ UNCHANGED <<now, senders, heard, client, tick>>

-----------------------------------------------------------------------------
(* Clients                                                                 *)

\* meshcli read, action_mark_read: look the message and its sender up ...
ReadLook(c, m) ==
    /\ client[c] = Idle
    /\ messages[m].state # "NONE"
    /\ client' = [client EXCEPT ![c] =
         [at |-> "stamp", msg |-> m,
          ttl |-> Resolve(From[m], senders[From[m]].auto_delete_after_s)]]
    /\ UNCHANGED <<now, messages, senders, heard, rx, tick>>

\* delete_at, by the clock of the moment.
DeleteAt(ttl) == IF ttl = None THEN None ELSE now + ttl

\* ... work out when it is to go ...
ReadStamp(c) ==
    /\ client[c].at = "stamp"
    /\ client' = [client EXCEPT ![c] =
         [at |-> "mark", msg |-> @.msg, delete_at |-> DeleteAt(@.ttl)]]
    /\ UNCHANGED <<now, messages, senders, heard, rx, tick>>

Seen(delete_at) == [state |-> "SEEN", auto_delete_at |-> delete_at]

\* Mutant of MarkRead: the UPDATE acts on a SEEN row again.
MarkReadAgain(row, delete_at) ==
    IF row.state \in {"UNSEEN", "SEEN"} THEN Seen(delete_at) ELSE row

\* mark_read acts only on a row that is still UNSEEN.
MarkRead(row, delete_at) == IF row.state = "UNSEEN" THEN Seen(delete_at) ELSE row

\* ... and UPDATE the row with it.
ReadMark(c) ==
    /\ client[c].at = "mark"
    /\ messages' = [messages EXCEPT ![client[c].msg] = MarkRead(@, client[c].delete_at)]
    /\ client' = [client EXCEPT ![c] = Idle]
    /\ UNCHANGED <<now, senders, heard, rx, tick>>

\* DbClient.mark_deleted, whatever the state.
Delete(m) ==
    /\ messages[m].state # "NONE"
    /\ messages' = [messages EXCEPT ![m].state = "DELETED"]
    /\ UNCHANGED <<now, senders, heard, rx, client, tick>>

\* What the alias command, the alias dialog and the compose screen do to a
\* sender's row: insert it, or set its TTL.
ClientInsert(n, ttl) ==
    /\ ~senders[n].known
    /\ senders' = [senders EXCEPT ![n] = [known |-> TRUE, auto_delete_after_s |-> ttl]]
    /\ UNCHANGED <<now, messages, heard, rx, client, tick>>

ClientUpdate(n, ttl) ==
    /\ senders[n].known
    /\ senders' = [senders EXCEPT ![n].auto_delete_after_s = ttl]
    /\ UNCHANGED <<now, messages, heard, rx, client, tick>>

-----------------------------------------------------------------------------
(* The scheduler and the clock                                             *)

\* _sched_tick computes now first; its other steps come before the UPDATE.
TickStart ==
    /\ tick = None
    /\ tick' = now
    /\ UNCHANGED <<now, messages, senders, heard, rx, client>>

\* Mutant of Expired: = for <=, a tick that comes late misses the message.
ExpiredNow(m, t) == messages[m].auto_delete_at = t

Expired(m, t) == messages[m].auto_delete_at # None /\ messages[m].auto_delete_at <= t

\* UPDATE ... SET state='DELETED' WHERE auto_delete_at <= now
AutoDelete ==
    /\ tick # None
    /\ messages' = [m \in Msgs |-> IF Expired(m, tick)
                                   THEN [messages[m] EXCEPT !.state = "DELETED"]
                                   ELSE messages[m]]
    /\ tick' = None
    /\ UNCHANGED <<now, senders, heard, rx, client>>

Clock ==
    /\ now < MaxTime
    /\ now' = now + 1
    /\ UNCHANGED <<messages, senders, heard, rx, client, tick>>

ClientStep(c) == (\E m \in Msgs : ReadLook(c, m)) \/ ReadStamp(c) \/ ReadMark(c)

SenderStep == \E n \in Nodes, ttl \in TTLs : ClientInsert(n, ttl) \/ ClientUpdate(n, ttl)

RxStep == RxSender \/ RxInsert
SchedStep == TickStart \/ AutoDelete

Next == \/ \E m \in Msgs : RxText(m) \/ Delete(m)
        \/ RxStep
        \/ \E c \in Clients : ClientStep(c)
        \/ SenderStep
        \/ SchedStep
        \/ Clock

Spec == Init /\ [][Next]_vars

\* The daemon's threads keep running and time passes; users owe nothing.
FairSpec == Spec /\ WF_vars(RxStep) /\ WF_vars(SchedStep) /\ WF_vars(Clock)

-----------------------------------------------------------------------------
(* What the inbox promises.                                                *)

\* Every variable keeps its type.
TypeOK ==
    /\ now \in 0..MaxTime
    /\ messages \in [Msgs -> [state: {"NONE", "UNSEEN", "SEEN", "DELETED"},
                              auto_delete_at: TTL]]
    /\ senders \in [Nodes -> [known: BOOLEAN, auto_delete_after_s: TTL]]
    /\ heard \subseteq Msgs
    /\ rx \in {Idle} \cup [at: {"sender", "insert"}, msg: Msgs]
    /\ client \in [Clients -> {Idle} \cup [at: {"stamp"}, msg: Msgs, ttl: TTL]
                                     \cup [at: {"mark"}, msg: Msgs, delete_at: TTL]]
    /\ tick \in Nat \cup {None}

\* What decides how long a message lives: the TOML entry of its sender, else
\* what users set for the sender, else the global default.
Lives == [m \in Msgs |-> IF Toml[From[m]] # None THEN {Toml[From[m]]}
                         ELSE (TTLs \ {None}) \cup {GlobalTTL}]

\* The readers that are about to mark m read.
Marking(m) == {c \in Clients : client[c].at = "mark" /\ client[c].msg = m}

Retention == INSTANCE MessageRetention WITH
    state <- [m \in Msgs |-> messages[m].state],
    due <- [m \in Msgs |-> messages[m].auto_delete_at],
    reading <- [m \in Msgs |-> {client[c].delete_at : c \in Marking(m)}],
    sweep <- tick

\* Reads that look a TTL up and act on it later, alias commands in between, and
\* ticks with an old now keep messages as long as MessageRetention says: the
\* tick deletes what was read and is due, and nothing else; the time to live is
\* one that was in force for the sender, never one that 0 overrules, and counts
\* from when the first reader to record its read worked out the end (the
\* auto-delete design, "Timer start" and "Precedence chain").
ImplementsRetention == Retention!Spec

\* A message that was read and has a time to live is deleted once it is over.
ExpiredIsDeleted ==
    \A m \in Msgs : Expired(m, now) ~> (messages[m].state = "DELETED")

\* Every DM that _on_text heard becomes a row (README.md: the daemon stores
\* what the mesh delivers).
HeardIsStored ==
    \A m \in Msgs : (m \in heard) ~> (messages[m].state # "NONE")
=============================================================================

------------------------------- MODULE Outbox -------------------------------
(***************************************************************************)
(* The outbound path of the daemon (src/meshtad/daemon.py): the TX drain,  *)
(* the routing callback that hears ACKs and NAKs, and the scheduler's      *)
(* ACK-timeout scan, three threads that share the rows of the messages     *)
(* table and two dictionaries (_inflight, _deferred_acks) behind one lock. *)
(* meshcli and the TUI write the same table from other processes.          *)
(*                                                                         *)
(* One action is one atomic step of the code: a single SQL statement (the  *)
(* DB thread commits each on its own) or one section under _inflight_lock. *)
(* Everything a thread keeps in local variables between two such steps is  *)
(* in job and todo, and may be stale by the time it is used.               *)
(***************************************************************************)
EXTENDS Integers

CONSTANTS Msgs,        \* ids of outbound rows
          Packets,     \* packet ids the radio can hand out (bounds the transmissions)
          NoMsg, NoPacket, NoReason,
          MaxRetries,  \* cfg.max_retries
          MaxFaults,   \* bound on crashes of the daemon and statements that fail
          Deletable,   \* states in which the users delete a message
          Timely,      \* replies and handlers beat cfg.ack_timeout_s
          Links        \* the values radio.connected takes while the daemon runs

Threads == {"tx", "rx", "sched"}
States  == {"NEW", "QUEUED", "SENT", "ACKED", "FAILED", "DELETED"}
Reasons == {"NONE", "NAK"}

ASSUME NullsAssumption == /\ NoMsg \notin Msgs
                          /\ NoPacket \notin Packets
                          /\ NoReason \notin Reasons
ASSUME RetriesAssumption == MaxRetries \in Nat /\ MaxFaults \in Nat
ASSUME ChoicesAssumption == /\ Timely \in BOOLEAN
                            /\ Deletable \subseteq States \ {"NEW"}
                            /\ Links \subseteq BOOLEAN /\ Links # {}

VARIABLES
    messages,   \* the rows of the table messages with direction = 'out'
    inflight,   \* Daemon._inflight: packet id -> msg_id
    deferred,   \* Daemon._deferred_acks: packet id -> error reason
    pc,         \* where each thread is
    job,        \* the row, packet and reason a thread is working on
    todo,       \* the rows a SELECT returned that the thread has not reached yet
    cutoff,     \* the packets older than cutoff_mono when the scan computed it
    connected,  \* Radio.connected, kept by RX and the scheduler (module RadioLink)
    air,        \* environment: packet id -> the message it carried
    confirmed,  \* environment: packets whose reply "NONE" reached _on_routing
    overruled,  \* environment: those a NAK followed before TX tracked and replayed them
    aged,       \* environment: packets sent more than cfg.ack_timeout_s ago
    dead,       \* threads ended by an exception that nothing caught
    faults      \* crashes and failed statements so far

memory == <<inflight, deferred>>
threads == <<pc, job, todo, cutoff>>
environment == <<air, confirmed, overruled, aged, dead, faults>>
vars == <<messages, memory, threads, connected, environment>>

Row == [state: States, retry_count: Nat,
        sent_at: Packets \cup {NoPacket},              \* the transmission it stamps
        meshtastic_packet_id: Packets \cup {NoPacket},
        acked_at: {"null", "set"},
        next_attempt_at: {"null", "future", "past"}]

NewRow == [state |-> "NEW", retry_count |-> 0, sent_at |-> NoPacket,
           meshtastic_packet_id |-> NoPacket, acked_at |-> "null",
           next_attempt_at |-> "null"]

Job == [msg: Msgs \cup {NoMsg}, retry: Nat, sent: Packets \cup {NoPacket},
        packet: Packets \cup {NoPacket}, reason: Reasons \cup {NoReason}]

NoJob == [msg |-> NoMsg, retry |-> 0, sent |-> NoPacket, packet |-> NoPacket,
          reason |-> NoReason]

\* What a SELECT hands the Python loop about row m: a copy.
Snapshot(m) == [msg |-> m, retry |-> messages[m].retry_count,
                sent |-> messages[m].sent_at,
                packet |-> messages[m].meshtastic_packet_id, reason |-> NoReason]

Init ==
    /\ messages = [m \in Msgs |-> NewRow]
    /\ inflight = [p \in Packets |-> NoMsg]
    /\ deferred = [p \in Packets |-> NoReason]
    /\ pc = [t \in Threads |-> "idle"]
    /\ job = [t \in Threads |-> NoJob]
    /\ todo = [t \in Threads |-> {}]
    /\ cutoff = {}
    /\ air = [p \in Packets |-> NoMsg]
    /\ connected \in Links
    /\ confirmed = {}
    /\ overruled = {}
    /\ aged = {}
    /\ dead = {}
    /\ faults = 0

Transmitted == {p \in Packets : air[p] # NoMsg}

Goto(t, label, j) == /\ pc' = [pc EXCEPT ![t] = label]
                     /\ job' = [job EXCEPT ![t] = j]

\* The thread starts its for loop over the rows it selected.
Begin(t, rows) ==
    /\ pc[t] = "idle" /\ t \notin dead
    /\ Goto(t, IF rows = {} THEN "idle" ELSE "loop", NoJob)
    /\ todo' = [todo EXCEPT ![t] = rows]

\* The thread takes row i off its loop.
Take(t, i) == /\ pc[t] = "loop"
              /\ i \in todo[t]
              /\ todo' = [todo EXCEPT ![t] = @ \ {i}]

\* The thread is done with one row; rest is what its loop still has.
Continue(t, rest) == Goto(t, IF rest = {} THEN "idle" ELSE "loop", NoJob)

\* The cutoff is a local of the scan, gone with its last row.
ForgetCutoff == cutoff' = IF pc'["sched"] = "idle" THEN {} ELSE cutoff

-----------------------------------------------------------------------------
(* The TX thread: _tx_loop and _tx_drain_once.                             *)

\* The loop sleeps while the radio is not connected.  It looks just before the
\* SELECT; a link that goes in between goes unnoticed until send_text.
TxDrain ==
    /\ connected
    /\ Begin("tx", {Snapshot(m) : m \in {n \in Msgs :
                      /\ messages[n].state = "QUEUED"
                      /\ messages[n].next_attempt_at # "future"}})
    /\ UNCHANGED <<messages, memory, cutoff, connected, environment>>

\* radio.send_text put the packet on the air; its object may lack an id.
TxSend(i, p, id) ==
    /\ connected
    /\ Take("tx", i)
    /\ air[p] = NoMsg
    /\ id \in {p, NoPacket}
    /\ air' = [air EXCEPT ![p] = i.msg]
    /\ Goto("tx", "record", [i EXCEPT !.sent = p, !.packet = id])
    /\ UNCHANGED <<messages, memory, cutoff, connected, confirmed, overruled, aged, dead, faults>>

\* radio.send_text returned (False, None): no link, or sendText raised.
TxSendFails(i) ==
    /\ Take("tx", i)
    /\ Goto("tx", "fail", i)
    /\ UNCHANGED <<messages, memory, cutoff, connected, environment>>

\* UPDATE messages SET state='SENT' ... WHERE id=?, whatever the row is by now.
TxRecord ==
    /\ pc["tx"] = "record"
    /\ messages' = [messages EXCEPT
         ![job["tx"].msg].state = "SENT",
         ![job["tx"].msg].sent_at = job["tx"].sent,
         ![job["tx"].msg].meshtastic_packet_id = job["tx"].packet]
    /\ IF job["tx"].packet = NoPacket
         THEN Continue("tx", todo["tx"])
         ELSE Goto("tx", "register", job["tx"])
    /\ UNCHANGED <<memory, todo, cutoff, connected, environment>>

\* Mutant of Stashed: nobody looks into the stash.
StashedNot(p) == NoReason

\* The reply that was quicker than the drain, if any.
Stashed(p) == deferred[p]

\* One section under _inflight_lock: track the packet, take a stashed reply.
TxRegister ==
    /\ pc["tx"] = "register"
    /\ LET p == job["tx"].packet
           early == Stashed(p)
       IN  /\ inflight' = [inflight EXCEPT ![p] = job["tx"].msg]
           /\ deferred' = [deferred EXCEPT ![p] = NoReason]
           /\ IF early = NoReason
                THEN Continue("tx", todo["tx"])
                ELSE Goto("tx", "replay", [job["tx"] EXCEPT !.reason = early])
    /\ UNCHANGED <<messages, todo, cutoff, connected, environment>>

-----------------------------------------------------------------------------
(* _handle_ack_nak, on the radio's callback thread or replayed by TX.      *)

\* Mutant of Popped: get() for pop(), the packet stays tracked.
PoppedNot(p) == inflight

Popped(p) == [inflight EXCEPT ![p] = NoMsg]

\* Its section under _inflight_lock: pop the tracked packet, or stash.
PopOrStash(t, p, reason) ==
    IF inflight[p] # NoMsg
    THEN /\ inflight' = Popped(p)
         /\ Goto(t, "verify", [NoJob EXCEPT !.msg = inflight[p], !.packet = p,
                                            !.reason = reason])
         /\ UNCHANGED deferred
    ELSE /\ deferred' = [deferred EXCEPT ![p] = reason]
         /\ Continue(t, todo[t])
         /\ UNCHANGED inflight

\* TX has sent packet p and not entered it into _inflight yet.
Untracked(p) == pc["tx"] \in {"record", "register"} /\ job["tx"].packet = p

\* A routing reply to packet p arrives: possibly while send_text has not
\* returned yet, possibly again, possibly after the timeout.
RxRouting(p, reason) ==
    /\ pc["rx"] = "idle"
    /\ p \in Transmitted
    /\ Timely => p \notin aged
    /\ PopOrStash("rx", p, reason)
    /\ confirmed' = IF reason = "NONE" THEN confirmed \cup {p} ELSE confirmed
    /\ overruled' = IF reason = "NONE" THEN overruled \ {p}
                                       ELSE overruled \cup {q \in {p} \cap confirmed : Untracked(q)}
    /\ UNCHANGED <<messages, todo, cutoff, connected, air, aged, dead, faults>>

TxReplay ==
    /\ pc["tx"] = "replay"
    /\ PopOrStash("tx", job["tx"].packet, job["tx"].reason)
    /\ overruled' = overruled \ {job["tx"].packet}
    /\ UNCHANGED <<messages, todo, cutoff, connected, air, confirmed, aged, dead, faults>>

\* Mutant of Verdict: the reason is not looked at, every reply is an ACK.
VerdictAny(reason) == "ack"

Verdict(reason) == IF reason = "NONE" THEN "ack" ELSE "fail"

\* SELECT state, retry_count: go on only if the row is still SENT.
Verify(t) ==
    /\ pc[t] = "verify"
    /\ LET row == messages[job[t].msg]
       IN  IF row.state # "SENT"
           THEN Continue(t, todo[t])
           ELSE Goto(t, Verdict(job[t].reason),
                     [job[t] EXCEPT !.retry = row.retry_count])
    /\ UNCHANGED <<messages, memory, todo, cutoff, connected, environment>>

WriteAck(t) ==
    /\ pc[t] = "ack"
    /\ messages' = [messages EXCEPT ![job[t].msg].state = "ACKED",
                                    ![job[t].msg].acked_at = "set"]
    /\ Continue(t, todo[t])
    /\ UNCHANGED <<memory, todo, cutoff, connected, environment>>

(* _handle_send_failure with the retry count the thread read earlier.      *)

GiveUp(row) == [row EXCEPT !.state = "FAILED"]

\* Mutant of TryAgain: counts down.
TryAgainDown(row) ==
    [row EXCEPT !.state = "QUEUED", !.retry_count = row.retry_count - 1,
                !.next_attempt_at = "future", !.sent_at = NoPacket,
                !.meshtastic_packet_id = NoPacket]

TryAgain(row) ==
    [row EXCEPT !.state = "QUEUED", !.retry_count = row.retry_count + 1,
                !.next_attempt_at = "future", !.sent_at = NoPacket,
                !.meshtastic_packet_id = NoPacket]

\* Mutant of Failed: > for >=.
FailedLate(row, retry) == IF retry > MaxRetries THEN GiveUp(row) ELSE TryAgain(row)

\* What becomes of a row that a thread fails with the count it read.
Failed(row, retry) == IF retry >= MaxRetries THEN GiveUp(row) ELSE TryAgain(row)

\* Below "try", the wall-clock branch of the scan, an exception is swallowed.
SendFailure(t) ==
    /\ pc[t] \in {"fail", "try"}
    /\ LET m == job[t].msg
       IN  messages' = [messages EXCEPT ![m] = Failed(messages[m], job[t].retry)]
    /\ Continue(t, todo[t])
    /\ UNCHANGED <<memory, todo, connected, environment>>
    /\ ForgetCutoff

-----------------------------------------------------------------------------
(* The scheduler: step 1 of _sched_tick.                                   *)

\* Mutant of Unsettled: only rows with a packet id.
UnsettledTracked(row) == row.state = "SENT" /\ row.acked_at = "null"
                           /\ row.meshtastic_packet_id # NoPacket

Unsettled(row) == row.state = "SENT" /\ row.acked_at = "null"

SchedScan ==
    /\ Begin("sched", {Snapshot(m) : m \in {n \in Msgs : Unsettled(messages[n])}})
    /\ cutoff' = IF pc'["sched"] = "idle" THEN {} ELSE aged
    /\ UNCHANGED <<messages, memory, connected, environment>>

Tracked(i) == i.packet # NoPacket /\ inflight[i.packet] # NoMsg

\* Mutant of TimedOut: no fallback to the wall clock.
TimedOutTracked(i) == Tracked(i) /\ i.packet \in cutoff

\* Mutant of TimedOut: a tracked packet is taken for an expired one.
TimedOutEager(i) == Tracked(i) \/ i.sent \in aged

\* By the monotonic clock if the packet is tracked, else by the row's sent_at.
TimedOut(i) == IF Tracked(i) THEN i.packet \in cutoff ELSE i.sent \in aged

\* Look packet i.packet up under the lock, and decide.
SchedCheck(i) ==
    /\ Take("sched", i)
    /\ IF TimedOut(i) THEN Goto("sched", IF Tracked(i) THEN "drop" ELSE "try", i)
                      ELSE Continue("sched", todo["sched"] \ {i})
    /\ UNCHANGED <<messages, memory, connected, environment>>
    /\ ForgetCutoff

\* The second section under the lock: pop the expired packet.
SchedDrop ==
    /\ pc["sched"] = "drop"
    /\ inflight' = Popped(job["sched"].packet)
    /\ Goto("sched", "fail", job["sched"])
    /\ UNCHANGED <<messages, deferred, todo, cutoff, connected, environment>>

-----------------------------------------------------------------------------
(* Statements that fail: DbThread.run hands the exception to the caller.   *)

Fault == faults < MaxFaults /\ faults' = faults + 1

\* The thread's next step is a statement.
Executes(t) == \/ pc[t] = "idle" /\ t \in {"tx", "sched"} \ dead
               \/ pc[t] \in {"record", "verify", "ack", "fail", "try"}

\* _on_routing logs what its statement raised, and the wall-clock branch of the
\* scan goes on with the next row.
Caught(t) == t = "rx" \/ pc[t] = "try"

\* Elsewhere nothing catches it, and the thread is gone until the daemon is
\* restarted; the rest of the process does not notice.
DbFails(t) ==
    /\ Fault
    /\ Executes(t)
    /\ IF Caught(t)
       THEN Continue(t, todo[t]) /\ UNCHANGED <<todo, dead>>
       ELSE /\ Goto(t, "idle", NoJob)
            /\ todo' = [todo EXCEPT ![t] = {}]
            /\ dead' = dead \cup {t}
    /\ UNCHANGED <<messages, memory, connected, air, confirmed, overruled, aged>>
    /\ ForgetCutoff

-----------------------------------------------------------------------------
(* Time, crashes, and the other processes.                                 *)

\* No thread holds a copy of message m.
Unattended(m) == \A t \in Threads : job[t].msg # m /\ \A i \in todo[t] : i.msg # m

\* cfg.ack_timeout_s passes since p was sent.
Age(p) ==
    /\ p \in Transmitted \ aged
    /\ Timely => Unattended(air[p])
    /\ aged' = aged \cup {p}
    /\ UNCHANGED <<messages, memory, threads, connected, air, confirmed, overruled, dead, faults>>

BackoffElapses(m) ==
    /\ messages[m].next_attempt_at = "future"
    /\ messages' = [messages EXCEPT ![m].next_attempt_at = "past"]
    /\ UNCHANGED <<memory, threads, connected, environment>>

\* The daemon dies and is restarted: the rows stay, its memory does not.
Crash ==
    /\ Fault
    /\ inflight' = [p \in Packets |-> NoMsg]
    /\ deferred' = [p \in Packets |-> NoReason]
    /\ pc' = [t \in Threads |-> "idle"]
    /\ job' = [t \in Threads |-> NoJob]
    /\ todo' = [t \in Threads |-> {}]
    /\ cutoff' = {}
    /\ dead' = {}
    /\ connected' \in Links
    /\ overruled' = {}
    /\ UNCHANGED <<messages, air, confirmed, aged>>

\* connect() on the RX thread or disconnect() on the scheduler.
LinkChanges ==
    /\ connected' \in Links \ {connected}
    /\ UNCHANGED <<messages, memory, threads, environment>>

\* DbClient.enqueue_outbound, mark_deleted, retry_message.
Enqueue(m) ==
    /\ messages[m].state = "NEW"
    /\ messages' = [messages EXCEPT ![m].state = "QUEUED"]
    /\ UNCHANGED <<memory, threads, connected, environment>>

Delete(m) ==
    /\ messages[m].state \in Deletable
    /\ messages' = [messages EXCEPT ![m].state = "DELETED"]
    /\ UNCHANGED <<memory, threads, connected, environment>>

Requeue(row) == [row EXCEPT !.state = "QUEUED", !.retry_count = 0,
                            !.next_attempt_at = "null"]

Retry(m) ==
    /\ messages[m].state = "FAILED"
    /\ messages' = [messages EXCEPT ![m] = Requeue(messages[m])]
    /\ UNCHANGED <<memory, threads, connected, environment>>

-----------------------------------------------------------------------------
TxStep ==
    \/ TxDrain
    \/ \E i \in todo["tx"] :
         \/ \E p \in Packets, id \in Packets \cup {NoPacket} : TxSend(i, p, id)
         \/ TxSendFails(i)
    \/ TxRecord
    \/ TxRegister
    \/ TxReplay
    \/ Verify("tx")
    \/ WriteAck("tx")
    \/ SendFailure("tx")

RxStep == Verify("rx") \/ WriteAck("rx") \/ SendFailure("rx")

SchedStep ==
    \/ SchedScan
    \/ \E i \in todo["sched"] : SchedCheck(i)
    \/ SchedDrop
    \/ SendFailure("sched")

Daemon == TxStep \/ RxStep \/ SchedStep

Clock == (\E p \in Packets : Age(p)) \/ (\E m \in Msgs : BackoffElapses(m))

Clients == \E m \in Msgs : Enqueue(m) \/ Delete(m) \/ Retry(m)

Next ==
    \/ Daemon
    \/ \E p \in Packets, reason \in Reasons : RxRouting(p, reason)
    \/ \E t \in Threads : DbFails(t)
    \/ Clock
    \/ Crash
    \/ LinkChanges
    \/ Clients

Spec == Init /\ [][Next]_vars

\* The threads are loops that never block on each other for long, and time
\* passes; TX looks at the link often enough not to miss for ever a link that
\* is up again and again.  Nobody owes the daemon a link or a reply, and no user
\* owes it a command.
Fairness ==
    /\ WF_vars(TxStep) /\ WF_vars(RxStep) /\ WF_vars(SchedStep)
    /\ SF_vars(TxDrain)
    /\ \A p \in Packets : SF_vars(Age(p))
    /\ \A m \in Msgs : WF_vars(BackoffElapses(m))

FairSpec == Spec /\ Fairness

-----------------------------------------------------------------------------
(* What the outbound path promises.                                        *)

\* Every variable keeps its type; a thread's label and what its job holds agree.
TypeOK ==
    /\ messages \in [Msgs -> Row]
    /\ inflight \in [Packets -> Msgs \cup {NoMsg}]
    /\ deferred \in [Packets -> Reasons \cup {NoReason}]
    /\ pc \in [Threads -> {"idle", "loop", "record", "register", "replay",
                           "verify", "ack", "fail", "drop", "try"}]
    /\ job \in [Threads -> Job]
    /\ todo \in [Threads -> SUBSET Job]
    /\ cutoff \subseteq Packets
    /\ air \in [Packets -> Msgs \cup {NoMsg}]
    /\ connected \in BOOLEAN
    /\ confirmed \subseteq Packets
    /\ overruled \subseteq confirmed
    /\ aged \subseteq Packets
    /\ dead \subseteq {"tx", "sched"}
    /\ faults \in 0..MaxFaults

\* Thread t holds the reply to packet p, popped from _inflight and not yet
\* acted on (_handle_ack_nak between its lock section and its UPDATE).
Settling(t, p) == pc[t] \in {"verify", "ack", "fail"} /\ job[t].packet = p

\* An ACK that overtakes the registration of its packet is not lost
\* (tests/test_ack_race.py): once a packet is tracked, a "NONE" that was heard
\* for it is in the hands of the TX thread, about to be replayed as a "NONE".
\* The exception is a NAK for the same packet that follows it that early too:
\* the stash keeps one reply of a packet, the last one
\* (_deferred_acks[request_id] = error_reason), and the ACK it held is gone.
AckNotLost ==
    \A p \in confirmed \ overruled : inflight[p] # NoMsg =>
        /\ pc["tx"] = "replay"
        /\ job["tx"].packet = p
        /\ job["tx"].reason = "NONE"

\* One reply settles a packet at most once: while the callback thread or the
\* TX thread works on a popped packet, no other reply to it can be popped.
SettledOnce ==
    \A p \in Packets : \A t \in {"tx", "rx"} :
        (pc[t] \in {"verify", "ack"} /\ job[t].packet = p) =>
            /\ inflight[p] = NoMsg
            /\ \A u \in {"tx", "rx"} \ {t} : ~(pc[u] \in {"verify", "ack"} /\ job[u].packet = p)

\* A row says ACKED only if the recipient's confirmation of one of its own
\* transmissions reached the daemon, whatever threads, crashes and late or
\* repeated replies do (_handle_ack_nak never settles the wrong row).
AckedImpliesConfirmed ==
    \A m \in Msgs : messages[m].state = "ACKED" =>
        \E p \in confirmed : air[p] = m

\* max_retries may be overshot by threads that fail the same row from stale
\* counts, but only by one failure of each of the other two threads.
RetryBudget == \A m \in Msgs : messages[m].retry_count <= MaxRetries + 2

\* A message handed to the radio and never acknowledged does not sit in SENT
\* while the scheduler lives: the scan times it out, also after a restart, for
\* a packet without an id, and when a failed statement lost its reply.
SentIsSettled ==
    \A m \in Msgs :
        (messages[m].state = "SENT" /\ messages[m].acked_at = "null")
            ~> (messages[m].state # "SENT" \/ "sched" \in dead)

-----------------------------------------------------------------------------
(* Under Timely, with users who delete only settled messages, the threads  *)
(* together implement the life of a message that README.md promises.       *)

Lifecycle == INSTANCE MessageLifecycle WITH
    state <- [m \in Msgs |-> messages[m].state],
    tries <- [m \in Msgs |-> messages[m].retry_count],
    reached <- {air[p] : p \in confirmed}

\* Every step of the daemon, the users and the network is one step of the life
\* of a message or none: no ACKED or FAILED row is pulled back by a thread that
\* read it earlier, and no row is tried more often than max_retries allows.
ImplementsLifecycle == Lifecycle!Spec

\* What _inflight tracks is the present transmission of a SENT row: no entry is
\* left of an attempt that was settled, timed out or superseded, so that a late
\* reply finds nothing to pop and the dictionary holds one packet of a message.
TrackedIsCurrent ==
    \A p \in Packets : inflight[p] # NoMsg =>
        /\ messages[inflight[p]].state = "SENT"
        /\ messages[inflight[p]].meshtastic_packet_id = p

\* A row with acked_at is settled for good, so the scan, which looks for SENT
\* rows without acked_at, overlooks none.  (Without Timely a late ACK leaves
\* acked_at in a row that is sent again, and the scan never sees it.)
AckedAtMeansSettled ==
    \A m \in Msgs : messages[m].acked_at = "set" => messages[m].state \in {"ACKED", "DELETED"}

\* No message is given up while it has attempts left (README.md, max_retries),
\* whichever thread failed it and from whatever copy of its row.
GivenUpIsExhausted ==
    \A m \in Msgs : messages[m].state = "FAILED" => messages[m].retry_count = MaxRetries

\* What the threads and the scan take for granted when they look at a row and at
\* _inflight: each of the three holds whatever the order of replies, timeouts,
\* crashes, failed statements and users between their own statements.
BooksAgree == TrackedIsCurrent /\ AckedAtMeansSettled /\ GivenUpIsExhausted

\* If the radio link is up again and again and both threads live, a queued
\* message does not wait forever (_tx_loop, _sched_loop): it is acknowledged,
\* given up, or deleted by its user.  Without a link it stays QUEUED.
QueuedIsSettled ==
    []<>connected =>
        \A m \in Msgs :
            (messages[m].state = "QUEUED")
                ~> (messages[m].state \in {"ACKED", "FAILED", "DELETED"} \/ dead # {})

\* The same for a message handed to the radio, whatever acked_at says
\* (tests/test_daemon.py: an unacked SENT message must be retransmitted).
SentIsRetransmitted ==
    \A m \in Msgs : (messages[m].state = "SENT") ~> (messages[m].state # "SENT")
=============================================================================

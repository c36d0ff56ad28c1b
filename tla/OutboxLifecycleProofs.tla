----------------------- MODULE OutboxLifecycleProofs ------------------------
(***************************************************************************)
(* The proof that Outbox implements MessageLifecycle under Patient.  The   *)
(* invariant LInv says who may write a row: no two threads at a time, the  *)
(* one that may knows the row as it is, and a row whose packet has timed   *)
(* out belongs to the scheduler.  From it every step is one step of the    *)
(* life of a message or none.                                              *)
(***************************************************************************)
EXTENDS OutboxProofs

\* The replies and the handlers beat the ACK timeout, and users delete settled
\* messages only.
Patient == Timely = TRUE /\ Deletable \subseteq {"ACKED", "FAILED"}

Attends(t, m) == job[t].msg = m \/ \E i \in todo[t] : i.msg = m

\* Thread t is going to write row m, or to pop its packet.
Works(t, m) == /\ pc[t] \in {"record", "register", "verify", "ack", "fail", "drop", "try"}
               /\ job[t].msg = m

Active(t, m) == Works(t, m) \/ (t = "tx" /\ \E i \in todo["tx"] : i.msg = m)

\* The copy i still says what row i.msg says.
Fresh(i) == /\ messages[i.msg].state = "SENT"
            /\ messages[i.msg].sent_at = i.sent
            /\ messages[i.msg].meshtastic_packet_id = i.packet
            /\ messages[i.msg].retry_count = i.retry

\* A thread without a row in hand has no job.
Jobless == \A t \in Threads : pc[t] \in {"idle", "loop"} => job[t] = NoJob

\* Only packets that were transmitted are old, and the scan knows no older ones.
Ages == aged \subseteq Transmitted /\ cutoff \subseteq aged

Rows ==
    \A m \in Msgs :
        /\ messages[m].retry_count <= MaxRetries
        /\ messages[m].state = "SENT" =>
             /\ messages[m].sent_at \in Packets
             /\ air[messages[m].sent_at] = m
             /\ messages[m].meshtastic_packet_id \in {messages[m].sent_at, NoPacket}
        /\ messages[m].state = "NEW" => \A p \in Packets : air[p] # m

\* What is tracked is the present packet of a SENT row, and no thread is at it.
Present ==
    \A p \in Packets, m \in Msgs : inflight[p] = m =>
        /\ messages[m].state = "SENT"
        /\ messages[m].meshtastic_packet_id = p
        /\ \A t \in Threads : Works(t, m) => pc[t] = "drop"

\* No two threads are going to write one row.
Exclusive == \A m \in Msgs, t, u \in Threads : Active(t, m) /\ Active(u, m) => t = u

\* The row a thread is going to write is as the thread knows it.
TxKnows ==
    /\ \A i \in todo["tx"] : /\ messages[i.msg].state = "QUEUED"
                             /\ messages[i.msg].retry_count = i.retry
    /\ pc["tx"] = "record" => /\ messages[job["tx"].msg].state = "QUEUED"
                              /\ job["tx"].sent \notin aged
    /\ pc["tx"] = "register" => /\ messages[job["tx"].msg].state = "SENT"
                                /\ messages[job["tx"].msg].meshtastic_packet_id = job["tx"].packet

RepliesKnow ==
    \A t \in {"tx", "rx"} :
        /\ pc[t] \in {"verify", "ack"} => messages[job[t].msg].state = "SENT"
        /\ pc[t] = "fail" => /\ messages[job[t].msg].state \in
                                  IF t = "tx" THEN {"QUEUED", "SENT"} ELSE {"SENT"}
                             /\ messages[job[t].msg].retry_count = job[t].retry

SchedKnows ==
    /\ \A i \in todo["sched"] :
         /\ i.sent \in Packets /\ air[i.sent] = i.msg
         /\ i.packet \in {i.sent, NoPacket}
         /\ i.sent \in aged => Fresh(i)
    /\ pc["sched"] \in {"drop", "fail", "try"} => job["sched"].sent \in aged /\ Fresh(job["sched"])

\* TX and RX have nothing to do with a message whose present packet is old.
Quiet ==
    \A m \in Msgs :
        (messages[m].state = "SENT" /\ messages[m].sent_at \in aged) =>
            ~Attends("tx", m) /\ ~Attends("rx", m)

LInv == /\ Jobless /\ Ages /\ Rows /\ Present /\ Exclusive
        /\ TxKnows /\ RepliesKnow /\ SchedKnows /\ Quiet

LEMMA InitLInv == Init => LInv
  BY NullsAssumption, RetriesAssumption
  DEF Init, LInv, Jobless, Ages, Rows, Present, Exclusive, TxKnows, RepliesKnow, SchedKnows, Quiet,
      Attends, Works, Active, NewRow, NoJob, Threads

\* Threads that let go of a row, or of all they have, and packets that are no
\* longer tracked, disturb nobody.
LEMMA LetGo ==
  ASSUME TypeOK, LInv,
         \A t \in Threads : /\ \/ pc'[t] = pc[t] /\ job'[t] = job[t]
                               \/ pc'[t] \in {"idle", "loop"} /\ job'[t] = NoJob
                            /\ todo'[t] \subseteq todo[t],
         \A p \in Packets : inflight'[p] \in {inflight[p], NoMsg},
         cutoff' \subseteq aged, UNCHANGED <<messages, air, aged>>
  PROVE  LInv'
  <1> USE DEF LInv
  <1>1. NoJob.msg \notin Msgs
    BY NullsAssumption DEF NoJob
  <1>2. \A t \in Threads, m \in Msgs :
          /\ Works(t, m)' => Works(t, m) /\ pc'[t] = pc[t]
          /\ Active(t, m)' => Active(t, m)
          /\ Attends(t, m)' => Attends(t, m)
    BY <1>1 DEF Works, Active, Attends, Threads
  <1>3. Jobless' /\ Ages' /\ Rows'
    BY DEF Jobless, Ages, Rows, Transmitted
  <1>4. Present'
    BY <1>2, NullsAssumption DEF Present
  <1>5. Exclusive' /\ Quiet'
    BY <1>2 DEF Exclusive, Quiet, Threads
  <1>6. TxKnows' /\ RepliesKnow' /\ SchedKnows'
    BY DEF TxKnows, RepliesKnow, SchedKnows, Fresh, Threads
  <1> QED BY <1>3, <1>4, <1>5, <1>6

\* A thread writes the row it has in hand, which leaves SENT or QUEUED by it,
\* and lets go.
LEMMA WriteRow ==
  ASSUME IInv, OneCopy, LInv, NEW t \in Threads, NEW x \in Msgs,
         Works(t, x), pc[t] # "drop", job[t].msg = x,
         pc'[t] \in {"idle", "loop"}, job'[t] = NoJob,
         \A u \in Threads \ {t} : pc'[u] = pc[u] /\ job'[u] = job[u],
         \A n \in Msgs \ {x} : messages'[n] = messages[n],
         messages'[x].state \notin {"NEW", "SENT"}, messages'[x].retry_count <= MaxRetries,
         UNCHANGED <<memory, todo, air, aged>>, cutoff' \subseteq cutoff
  PROVE  LInv'
  <1> USE DEF LInv, memory
  <1>1. NoJob.msg \notin Msgs
    BY NullsAssumption DEF NoJob
  <1>2. \A u \in Threads, m \in Msgs :
          /\ Works(u, m)' => Works(u, m) /\ pc'[u] = pc[u] /\ u # t
          /\ Active(u, m)' => Active(u, m)
          /\ Attends(u, m)' => Attends(u, m)
    BY <1>1 DEF Works, Active, Attends, Threads
  <1>3. \A u \in Threads \ {t} : ~Active(u, x) /\ ~Works(u, x)
    BY DEF Exclusive, Active
  <1>4. \A i \in todo[t] : i.msg # x
    BY DEF OneCopy, Works
  <1>5. \A i \in todo["tx"] : i.msg # x
    BY <1>3, <1>4 DEF Active, Threads
  <1>6. ASSUME NEW i \in todo["sched"], i.msg = x
        PROVE  i.sent \notin aged
    <2>1. t \in {"tx", "rx"}
      BY <1>4, <1>6 DEF Threads
    <2>2. Attends(t, x)
      BY DEF Attends
    <2> QED BY <1>6, <2>1, <2>2 DEF SchedKnows, Fresh, Quiet
  <1>7. \A p \in Packets : inflight[p] # x
    BY NullsAssumption DEF Present
  <1>8. Jobless' /\ Ages' /\ Rows'
    BY DEF Jobless, Ages, Rows, Transmitted
  <1>9. Present'
    BY <1>2, <1>7 DEF Present, IInv, TypeOK
  <1>10. Exclusive' /\ Quiet'
    BY <1>2 DEF Exclusive, Quiet, Threads
  <1>11. TxKnows'
    BY <1>2, <1>3, <1>5 DEF TxKnows, Works, Threads, IInv, Copies
  <1>12. RepliesKnow'
    BY <1>2, <1>3 DEF RepliesKnow, Works, Threads, IInv, Copies
  <1>13. SchedKnows'
    BY <1>2, <1>3, <1>6 DEF SchedKnows, Fresh, Works, Threads, IInv, Copies
  <1> QED BY <1>8, <1>9, <1>10, <1>11, <1>12, <1>13

\* A user writes a row that no thread has a business with.
LEMMA UserWrite ==
  ASSUME IInv, LInv, NEW x \in Msgs,
         messages[x].state \notin {"QUEUED", "SENT"},
         \A n \in Msgs \ {x} : messages'[n] = messages[n],
         messages'[x].state \notin {"NEW", "SENT"}, messages'[x].retry_count <= MaxRetries,
         UNCHANGED <<memory, threads, environment>>
  PROVE  LInv'
  <1> USE DEF LInv, memory, threads, environment
  <1>1. /\ \A t \in Threads, m \in Msgs : /\ Works(t, m)' <=> Works(t, m)
                                          /\ Active(t, m)' <=> Active(t, m)
                                          /\ Attends(t, m)' <=> Attends(t, m)
    BY DEF Works, Active, Attends
  <1>2. Jobless' /\ Ages' /\ Rows'
    BY DEF Jobless, Ages, Rows, Transmitted
  <1>3. Present'
    BY <1>1 DEF Present, IInv, TypeOK
  <1>4. Exclusive' /\ Quiet'
    BY <1>1 DEF Exclusive, Quiet, Threads
  <1>5. TxKnows' /\ RepliesKnow'
    BY DEF TxKnows, RepliesKnow, Threads, IInv, Copies
  <1>6. SchedKnows'
    BY DEF SchedKnows, Fresh, Threads, IInv, Copies
  <1> QED BY <1>2, <1>3, <1>4, <1>5, <1>6

-----------------------------------------------------------------------------
(* The TX thread                                                           *)

LEMMA TxDrainLInv == IInv /\ LInv /\ TxDrain => LInv'
  <1> SUFFICES ASSUME IInv, LInv, TxDrain PROVE LInv'
    OBVIOUS
  <1> USE DEF LInv
  <1>1. /\ pc["tx"] = "idle" /\ pc'["tx"] \in {"idle", "loop"} /\ job'["tx"] = NoJob
        /\ \A u \in Threads \ {"tx"} : pc'[u] = pc[u] /\ job'[u] = job[u] /\ todo'[u] = todo[u]
        /\ \A i \in todo'["tx"] : /\ i.msg \in Msgs /\ messages[i.msg].state = "QUEUED"
                                  /\ messages[i.msg].retry_count = i.retry
        /\ UNCHANGED <<messages, inflight, deferred, cutoff, air, aged>>
    BY DEF TxDrain, Begin, Goto, Snapshot, IInv, TypeOK, Threads, memory, environment
  <1>2. NoJob.msg \notin Msgs
    BY NullsAssumption DEF NoJob
  <1>3. \A u \in Threads, m \in Msgs :
          /\ Works(u, m)' => Works(u, m) /\ u # "tx"
          /\ u # "tx" => (Active(u, m)' => Active(u, m)) /\ (Attends(u, m)' => Attends(u, m))
          /\ Active("tx", m)' => messages[m].state = "QUEUED"
          /\ Attends("tx", m)' => messages[m].state = "QUEUED"
    BY <1>1, <1>2 DEF Works, Active, Attends
  <1>4. \A u \in Threads \ {"tx"}, m \in Msgs :
          Active(u, m) => messages[m].state = "SENT"
    BY DEF Active, Works, RepliesKnow, SchedKnows, Fresh, IInv, Labels, Threads
  <1>5. Jobless' /\ Ages' /\ Rows'
    BY <1>1 DEF Jobless, Ages, Rows, Transmitted
  <1>6. Present'
    BY <1>1, <1>3 DEF Present, IInv, TypeOK
  <1>7. TxKnows' /\ RepliesKnow' /\ SchedKnows'
    BY <1>1 DEF TxKnows, RepliesKnow, SchedKnows, Fresh, Threads
  <1>8. Exclusive' /\ Quiet'
    BY <1>1, <1>3, <1>4 DEF Exclusive, Quiet, Threads
  <1> QED BY <1>5, <1>6, <1>7, <1>8

LEMMA TxSendLInv ==
  ASSUME IInv, OneCopy, LInv, NEW i \in todo["tx"], NEW p \in Packets,
         NEW id \in Packets \cup {NoPacket}, TxSend(i, p, id)
  PROVE  LInv'
  <1> USE DEF LInv
  <1>1. i \in Job /\ i.msg \in Msgs
    BY DEF IInv, TypeOK, Copies, Threads
  <1> DEFINE j == [i EXCEPT !.sent = p, !.packet = id]
  <1>2. j.msg = i.msg /\ j.sent = p /\ j.retry = i.retry
    BY <1>1 DEF Job
  <1>3. /\ pc["tx"] = "loop" /\ pc'["tx"] = "record" /\ job'["tx"] = j
        /\ \A u \in Threads \ {"tx"} : pc'[u] = pc[u] /\ job'[u] = job[u] /\ todo'[u] = todo[u]
        /\ todo'["tx"] = todo["tx"] \ {i}
        /\ air[p] = NoMsg /\ air' = [air EXCEPT ![p] = i.msg]
        /\ UNCHANGED <<messages, inflight, deferred, cutoff, aged>>
    BY DEF TxSend, Take, Goto, IInv, TypeOK, Threads, memory
  <1> HIDE DEF j
  <1>4. messages[i.msg].state = "QUEUED" /\ Active("tx", i.msg)
    BY DEF TxKnows, Active
  <1>5. p \notin aged
    BY <1>3 DEF Ages, Transmitted
  <1>6. \A q \in Packets : air[q] # NoMsg => air'[q] = air[q]
    BY <1>3
  <1>7. \A u \in Threads, m \in Msgs :
          /\ Works(u, m)' => Works(u, m) \/ (u = "tx" /\ m = i.msg)
          /\ Active(u, m)' => Active(u, m)
          /\ Attends(u, m)' => Attends(u, m)
    BY <1>2, <1>3, <1>4 DEF Works, Active, Attends
  <1>8. Jobless' /\ Ages'
    BY <1>3, <1>6 DEF Jobless, Ages, Transmitted, IInv, TypeOK, Threads
  <1>9. Rows'
    <2>1. air' \in [Packets -> Msgs \cup {NoMsg}] /\ \A q \in Packets \ {p} : air'[q] = air[q]
      BY <1>1, <1>3 DEF IInv, TypeOK
    <2> QED BY <1>1, <1>3, <1>4, <1>6, <2>1, NullsAssumption DEF Rows, IInv, TypeOK
  <1>10. Present'
    BY <1>3, <1>4, <1>7 DEF Present, IInv, TypeOK, Works
  <1>11. TxKnows'
    BY <1>2, <1>3, <1>4, <1>5 DEF TxKnows
  <1>12. RepliesKnow' /\ SchedKnows'
    BY <1>1, <1>3, <1>6, NullsAssumption DEF RepliesKnow, SchedKnows, Fresh, Threads, IInv, Copies
  <1>13. Exclusive' /\ Quiet'
    BY <1>3, <1>7 DEF Exclusive, Quiet, Threads
  <1> QED BY <1>8, <1>9, <1>10, <1>11, <1>12, <1>13

LEMMA TxSendFailsLInv ==
  ASSUME IInv, OneCopy, LInv, NEW i \in todo["tx"], TxSendFails(i)
  PROVE  LInv'
  <1> USE DEF LInv
  <1>1. i \in Job /\ i.msg \in Msgs
    BY DEF IInv, TypeOK, Copies, Threads
  <1>2. /\ pc["tx"] = "loop" /\ pc'["tx"] = "fail" /\ job'["tx"] = i
        /\ \A u \in Threads \ {"tx"} : pc'[u] = pc[u] /\ job'[u] = job[u] /\ todo'[u] = todo[u]
        /\ todo'["tx"] = todo["tx"] \ {i}
        /\ UNCHANGED <<messages, inflight, deferred, cutoff, air, aged>>
    BY DEF TxSendFails, Take, Goto, IInv, TypeOK, Threads, memory, environment
  <1>3. messages[i.msg].state = "QUEUED" /\ messages[i.msg].retry_count = i.retry
        /\ Active("tx", i.msg)
    BY DEF TxKnows, Active
  <1>4. \A u \in Threads, m \in Msgs :
          /\ Works(u, m)' => Works(u, m) \/ (u = "tx" /\ m = i.msg)
          /\ Active(u, m)' => Active(u, m)
          /\ Attends(u, m)' => Attends(u, m)
    BY <1>2, <1>3 DEF Works, Active, Attends
  <1>5. Jobless' /\ Ages' /\ Rows'
    BY <1>2 DEF Jobless, Ages, Rows, Transmitted
  <1>6. Present'
    BY <1>2, <1>3, <1>4 DEF Present, IInv, TypeOK, Works
  <1>7. TxKnows' /\ RepliesKnow' /\ SchedKnows'
    BY <1>2, <1>3 DEF TxKnows, RepliesKnow, SchedKnows, Fresh, Threads
  <1>8. Exclusive' /\ Quiet'
    BY <1>2, <1>4 DEF Exclusive, Quiet, Threads
  <1> QED BY <1>5, <1>6, <1>7, <1>8

\* The row becomes SENT; no thread that read it earlier is going to write it.
LEMMA TxRecordLInv == IInv /\ OneCopy /\ LInv /\ TxRecord => LInv'
  <1> SUFFICES ASSUME IInv, OneCopy, LInv, TxRecord PROVE LInv'
    OBVIOUS
  <1> USE DEF LInv
  <1> DEFINE x == job["tx"].msg
             q == job["tx"].sent
             id == job["tx"].packet
  <1>1. /\ x \in Msgs /\ q \in Packets \ aged /\ id \in {q, NoPacket} /\ air[q] = x
        /\ messages[x].state = "QUEUED" /\ messages[x] \in Row
    BY DEF TxRecord, IInv, TypeOK, Copies, Unregistered, TxKnows, Threads
  <1>2. /\ messages' = [messages EXCEPT ![x].state = "SENT", ![x].sent_at = q,
                                        ![x].meshtastic_packet_id = id]
        /\ pc["tx"] = "record"
        /\ UNCHANGED <<inflight, deferred, todo, cutoff, air, aged>>
        /\ \A u \in Threads \ {"tx"} : pc'[u] = pc[u] /\ job'[u] = job[u]
        /\ \/ pc'["tx"] \in {"idle", "loop"} /\ job'["tx"] = NoJob
           \/ pc'["tx"] = "register" /\ job'["tx"] = job["tx"] /\ id # NoPacket
    BY DEF TxRecord, Continue, Goto, IInv, TypeOK, Threads, memory, environment
  <1>3. /\ \A n \in Msgs \ {x} : messages'[n] = messages[n]
        /\ messages'[x].state = "SENT" /\ messages'[x].sent_at = q
        /\ messages'[x].meshtastic_packet_id = id
        /\ messages'[x].retry_count = messages[x].retry_count
    BY <1>1, <1>2 DEF IInv, TypeOK, Row
  <1>4. NoJob.msg \notin Msgs /\ Works("tx", x)
    BY <1>2, NullsAssumption DEF NoJob, Works
  <1> HIDE DEF x, q, id
  <1>5. \A u \in Threads, m \in Msgs :
          /\ Works(u, m)' => Works(u, m) /\ (u # "tx" => pc'[u] = pc[u])
          /\ Active(u, m)' => Active(u, m)
          /\ Attends(u, m)' => Attends(u, m)
    BY <1>2, <1>4 DEF Works, Active, Attends
  <1>6. \A u \in Threads \ {"tx"} : ~Active(u, x) /\ ~Works(u, x)
    BY <1>1, <1>4 DEF Exclusive, Active, Threads
  <1>17. \A u \in {"rx", "sched"} :
           pc[u] \notin {"idle", "loop", "replay"} => job[u].msg \in Msgs \ {x}
    BY <1>6 DEF Works, IInv, Copies, Labels, Threads
  <1>7. \A i \in todo["tx"] : i.msg # x
    BY <1>2 DEF OneCopy, Threads, x
  <1>8. \A p \in Packets : inflight[p] # x
    BY <1>1, NullsAssumption DEF Present
  <1>9. \A i \in todo["sched"] : i.msg = x => i.sent \notin aged
    BY <1>1 DEF SchedKnows, Fresh
  <1>10. Jobless' /\ Ages' /\ Rows'
    <2>1. Jobless' /\ Ages'
      BY <1>2 DEF Jobless, Ages, Transmitted
    <2>2. ASSUME NEW m \in Msgs, m # x \/ m = x
          PROVE  /\ messages'[m].retry_count <= MaxRetries
                 /\ messages'[m].state = "SENT" =>
                      /\ messages'[m].sent_at \in Packets
                      /\ air[messages'[m].sent_at] = m
                      /\ messages'[m].meshtastic_packet_id \in {messages'[m].sent_at, NoPacket}
                 /\ messages'[m].state = "NEW" => \A p \in Packets : air[p] # m
      <3>1. CASE m = x
        BY <1>1, <1>3, <3>1 DEF Rows
      <3>2. CASE m # x
        BY <1>3, <3>2 DEF Rows
      <3> QED BY <3>1, <3>2
    <2> QED BY <1>2, <2>1, <2>2 DEF Rows
  <1>11. Present'
    BY <1>2, <1>3, <1>5, <1>8 DEF Present, IInv, TypeOK, Works, Threads
  <1>12. Exclusive'
    BY <1>5 DEF Exclusive
  <1>13. Quiet'
    <2>1. SUFFICES ASSUME NEW m \in Msgs, messages'[m].state = "SENT", messages'[m].sent_at \in aged
                   PROVE  ~Attends("tx", m)' /\ ~Attends("rx", m)'
      BY <1>2 DEF Quiet
    <2>2. m # x
      BY <1>1, <1>3, <2>1
    <2> QED BY <1>3, <1>5, <2>1, <2>2 DEF Quiet, Threads
  <1>14. TxKnows'
    BY <1>2, <1>3, <1>7 DEF TxKnows, IInv, Copies, Threads, x, id
  <1>15. RepliesKnow'
    <2>1. pc'["tx"] \notin {"verify", "ack", "fail"}
      BY <1>2
    <2>2. pc'["rx"] = pc["rx"] /\ job'["rx"] = job["rx"]
      BY <1>2 DEF Threads
    <2>3. pc["rx"] \in {"verify", "ack", "fail"} =>
            messages'[job["rx"].msg] = messages[job["rx"].msg]
      BY <1>3, <1>17
    <2> QED BY <2>1, <2>2, <2>3 DEF RepliesKnow
  <1>16. SchedKnows'
    <2>1. \A i \in todo["sched"] : i.msg \in Msgs
      BY DEF IInv, Copies, Threads
    <2>2. \A i : i.msg \in Msgs \ {x} /\ Fresh(i) => Fresh(i)'
      BY <1>3 DEF Fresh
    <2> QED BY <1>2, <1>9, <1>17, <2>1, <2>2 DEF SchedKnows, Threads
  <1> QED BY <1>10, <1>11, <1>12, <1>13, <1>14, <1>15, <1>16

\* The packet is tracked, or its reply was in the stash.
LEMMA TxRegisterLInv == IInv /\ OneCopy /\ LInv /\ TxRegister => LInv'
  <1> SUFFICES ASSUME IInv, OneCopy, LInv, TxRegister PROVE LInv'
    OBVIOUS
  <1> USE DEF LInv
  <1> DEFINE x == job["tx"].msg
             q == job["tx"].packet
  <1>1. /\ x \in Msgs /\ q \in Packets /\ pc["tx"] = "register"
        /\ messages[x].state = "SENT" /\ messages[x].meshtastic_packet_id = q
        /\ Works("tx", x) /\ Active("tx", x)
    BY DEF TxRegister, IInv, Copies, Unregistered, TxKnows, Works, Active, Threads
  <1>2. /\ inflight' = [inflight EXCEPT ![q] = x]
        /\ UNCHANGED <<messages, todo, cutoff, air, aged>>
        /\ \A u \in Threads \ {"tx"} : pc'[u] = pc[u] /\ job'[u] = job[u]
        /\ \/ pc'["tx"] \in {"idle", "loop"} /\ job'["tx"] = NoJob
           \/ pc'["tx"] = "replay" /\ job'["tx"].msg = x
    <2>1. job["tx"] \in Job
      BY DEF IInv, TypeOK, Threads
    <2>2. \A r : [job["tx"] EXCEPT !.reason = r].msg = x
      BY <2>1 DEF Job
    <2>3. /\ inflight' = [inflight EXCEPT ![q] = x]
          /\ UNCHANGED <<messages, todo, cutoff, air, aged>>
          /\ \/ \E label \in {"idle", "loop"} : Goto("tx", label, NoJob)
             \/ \E r : Goto("tx", "replay", [job["tx"] EXCEPT !.reason = r])
      BY DEF TxRegister, Continue, environment
    <2> HIDE DEF x, q
    <2>4. /\ pc \in [Threads -> {"idle", "loop", "record", "register", "replay",
                                 "verify", "ack", "fail", "drop", "try"}]
          /\ job \in [Threads -> Job] /\ "tx" \in Threads
      BY DEF IInv, TypeOK, Threads
    <2>5. CASE \E label \in {"idle", "loop"} : Goto("tx", label, NoJob)
      BY <2>3, <2>4, <2>5 DEF Goto
    <2>6. CASE \E r : Goto("tx", "replay", [job["tx"] EXCEPT !.reason = r])
      <3>1. PICK r : Goto("tx", "replay", [job["tx"] EXCEPT !.reason = r])
        BY <2>6
      <3> DEFINE j == [job["tx"] EXCEPT !.reason = r]
      <3>2. j.msg = x /\ Goto("tx", "replay", j)
        BY <2>2, <3>1
      <3> HIDE DEF j
      <3> QED BY <2>3, <2>4, <3>2 DEF Goto
    <2> QED BY <2>3, <2>5, <2>6
  <1>3. \A p \in Packets : inflight'[p] = IF p = q THEN x ELSE inflight[p]
    BY <1>1, <1>2 DEF IInv, TypeOK
  <1> HIDE DEF x, q
  <1>4. \A u \in Threads \ {"tx"} : ~Active(u, x) /\ ~Works(u, x)
    BY <1>1 DEF Exclusive, Active, Threads
  <1>5. NoJob.msg \notin Msgs
    BY NullsAssumption DEF NoJob
  <1>6. \A u \in Threads, m \in Msgs :
          /\ Works(u, m)' => Works(u, m) /\ u # "tx" /\ pc'[u] = pc[u]
          /\ Active(u, m)' => Active(u, m)
          /\ Attends(u, m)' => Attends(u, m)
    BY <1>1, <1>2, <1>5 DEF Works, Active, Attends, x
  <1>7. Jobless' /\ Ages' /\ Rows'
    BY <1>2 DEF Jobless, Ages, Rows, Transmitted
  <1>8. Present'
    <2>1. SUFFICES ASSUME NEW p \in Packets, NEW m \in Msgs, inflight'[p] = m
                   PROVE  /\ messages[m].state = "SENT"
                          /\ messages[m].meshtastic_packet_id = p
                          /\ \A t \in Threads : Works(t, m)' => pc'[t] = "drop"
      BY <1>2 DEF Present
    <2>2. CASE p = q
      BY <1>1, <1>3, <1>4, <1>6, <2>1, <2>2
    <2>3. CASE p # q
      BY <1>3, <1>6, <2>1, <2>3 DEF Present
    <2> QED BY <2>2, <2>3
  <1>9. Exclusive' /\ Quiet'
    BY <1>2, <1>6 DEF Exclusive, Quiet, Threads
  <1>10. TxKnows' /\ RepliesKnow' /\ SchedKnows'
    BY <1>2 DEF TxKnows, RepliesKnow, SchedKnows, Fresh, Threads
  <1> QED BY <1>7, <1>8, <1>9, <1>10

-----------------------------------------------------------------------------
(* Replies                                                                 *)

\* A thread pops the packet p, which is the present one of a SENT row.
LEMMA PopLInv ==
  ASSUME IInv, OneCopy, LInv, NEW t \in {"tx", "rx"}, NEW p \in Packets, NEW reason,
         PopOrStash(t, p, reason), UNCHANGED <<messages, todo, cutoff, air, aged>>,
         inflight[p] # NoMsg,
         t = "tx" => pc[t] = "replay" /\ job[t].packet = p,
         t = "rx" => pc[t] = "idle" /\ p \notin aged
  PROVE  LInv'
  <1> USE DEF LInv
  <1> DEFINE x == inflight[p]
             j == [NoJob EXCEPT !.msg = x, !.packet = p, !.reason = reason]
  <1>1. /\ x \in Msgs /\ messages[x].state = "SENT" /\ messages[x].meshtastic_packet_id = p
        /\ \A u \in Threads : Works(u, x) => pc[u] = "drop"
    BY DEF Present, IInv, TypeOK
  <1>2. /\ inflight' = [inflight EXCEPT ![p] = NoMsg]
        /\ pc' = [pc EXCEPT ![t] = "verify"] /\ job' = [job EXCEPT ![t] = j]
    BY DEF PopOrStash, Popped, Goto
  <1>3. j.msg = x
    BY DEF NoJob
  <1>4. /\ pc'[t] = "verify" /\ job'[t] = j
        /\ \A u \in Threads \ {t} : pc'[u] = pc[u] /\ job'[u] = job[u]
        /\ inflight'[p] = NoMsg /\ \A r \in Packets \ {p} : inflight'[r] = inflight[r]
    BY <1>2 DEF IInv, TypeOK, Threads
  <1> HIDE DEF x, j
  <1>5. messages[x].sent_at \notin aged
    <2>1. messages[x].sent_at = p
      BY <1>1, NullsAssumption DEF Rows
    <2>2. CASE t = "tx"
      <3>1. job["tx"].msg = x
        BY <2>2 DEF IInv, Replies, Bookkeeping, x
      <3>2. Attends("tx", x)
        BY <3>1 DEF Attends
      <3> QED BY <1>1, <3>2 DEF Quiet
    <2>3. CASE t = "rx"
      BY <2>1, <2>3
    <2> QED BY <2>2, <2>3
  <1>6. \A u \in Threads : ~Works(u, x)
    <2>1. SUFFICES ASSUME NEW u \in Threads, Works(u, x) PROVE FALSE
      OBVIOUS
    <2>2. u = "sched" /\ pc["sched"] = "drop" /\ job["sched"].msg = x
      BY <1>1, <2>1 DEF IInv, Labels, Threads, Works
    <2> QED BY <1>5, <2>2 DEF SchedKnows, Fresh
  <1>7. \A u \in Threads : ~Active(u, x)
    BY <1>1, <1>6 DEF Active, TxKnows
  <1>8. \A u \in Threads, m \in Msgs :
          /\ Works(u, m)' => (Works(u, m) /\ pc'[u] = pc[u]) \/ (u = t /\ m = x)
          /\ Active(u, m)' => Active(u, m) \/ (u = t /\ m = x)
          /\ Attends(u, m)' => Attends(u, m) \/ (u = t /\ m = x)
    BY <1>3, <1>4 DEF Works, Active, Attends
  <1>9. Jobless' /\ Ages' /\ Rows'
    BY <1>4 DEF Jobless, Ages, Rows, Transmitted
  <1>10. Present'
    <2>1. SUFFICES ASSUME NEW r \in Packets, NEW m \in Msgs, inflight'[r] = m
                   PROVE  /\ messages[m].state = "SENT"
                          /\ messages[m].meshtastic_packet_id = r
                          /\ \A u \in Threads : Works(u, m)' => pc'[u] = "drop"
      BY DEF Present
    <2>2. r # p /\ inflight[r] = m
      BY <1>4, <2>1, NullsAssumption
    <2>3. m # x
      BY <1>1, <2>2 DEF Present
    <2> QED BY <1>8, <2>2, <2>3 DEF Present
  <1>11. Exclusive'
    BY <1>7, <1>8 DEF Exclusive
  <1>12. Quiet'
    BY <1>5, <1>8 DEF Quiet, Threads
  <1>13. TxKnows' /\ RepliesKnow' /\ SchedKnows'
    BY <1>1, <1>3, <1>4 DEF TxKnows, RepliesKnow, SchedKnows, Fresh, Threads
  <1> QED BY <1>9, <1>10, <1>11, <1>12, <1>13

\* A thread that has nothing to pop, or learns that its row is not SENT.
LEMMA ContinueLInv ==
  ASSUME IInv, LInv, NEW t \in Threads, Continue(t, todo[t]),
         UNCHANGED <<messages, inflight, todo, cutoff, air, aged>>
  PROVE  LInv'
  <1>1. \A u \in Threads : \/ pc'[u] = pc[u] /\ job'[u] = job[u]
                           \/ pc'[u] \in {"idle", "loop"} /\ job'[u] = NoJob
    BY DEF Continue, Goto, IInv, TypeOK
  <1> QED BY <1>1, LetGo DEF IInv, LInv, Ages

LEMMA PopOrStashLInv ==
  ASSUME IInv, OneCopy, LInv, NEW t \in {"tx", "rx"}, NEW p \in Packets, NEW reason,
         PopOrStash(t, p, reason), UNCHANGED <<messages, todo, cutoff, air, aged>>,
         t = "tx" => pc[t] = "replay" /\ job[t].packet = p,
         t = "rx" => pc[t] = "idle" /\ p \notin aged
  PROVE  LInv'
  <1>1. CASE inflight[p] # NoMsg
    BY <1>1, PopLInv
  <1>2. CASE inflight[p] = NoMsg
    BY <1>2, ContinueLInv DEF PopOrStash, Threads
  <1> QED BY <1>1, <1>2

LEMMA TxReplayLInv == IInv /\ OneCopy /\ LInv /\ TxReplay => LInv'
  <1> SUFFICES ASSUME IInv, OneCopy, LInv, TxReplay PROVE LInv'
    OBVIOUS
  <1>1. job["tx"].packet \in Packets
    BY DEF TxReplay, IInv, Replies
  <1> QED BY <1>1, PopOrStashLInv DEF TxReplay, environment

LEMMA RxRoutingLInv ==
  ASSUME Patient, IInv, OneCopy, LInv, NEW p \in Packets, NEW reason \in Reasons,
         RxRouting(p, reason)
  PROVE  LInv'
  BY PopOrStashLInv DEF RxRouting, Patient

LEMMA VerifyLInv ==
  ASSUME IInv, OneCopy, LInv, NEW t \in {"tx", "rx"}, Verify(t)
  PROVE  LInv'
  <1> DEFINE x == job[t].msg
             j == [job[t] EXCEPT !.retry = messages[x].retry_count]
  <1>1. /\ pc[t] = "verify" /\ UNCHANGED <<messages, inflight, todo, cutoff, air, aged>>
        /\ t \in Threads /\ job[t] \in Job /\ x \in Msgs
    BY DEF Verify, Threads, IInv, TypeOK, Copies, memory, environment
  <1>2. j.msg = x /\ j.retry = messages[x].retry_count
    BY <1>1 DEF Job
  <1>3. CASE messages[x].state # "SENT"
    BY <1>1, <1>3, ContinueLInv DEF Verify
  <1>4. CASE messages[x].state = "SENT"
    <2> USE DEF LInv
    <2>1. Goto(t, Verdict(job[t].reason), j)
      BY <1>4 DEF Verify
    <2>2. /\ pc'[t] \in {"ack", "fail"} /\ job'[t] = j
          /\ \A u \in Threads \ {t} : pc'[u] = pc[u] /\ job'[u] = job[u]
      BY <1>1, <2>1 DEF Goto, Verdict, IInv, TypeOK
    <2>3. Works(t, x)
      BY <1>1 DEF Works
    <2> HIDE DEF x, j
    <2>4. \A u \in Threads, m \in Msgs :
            /\ Works(u, m)' => Works(u, m) /\ (pc'[u] = pc[u] \/ (u = t /\ m = x))
            /\ Active(u, m)' => Active(u, m)
            /\ Attends(u, m)' => Attends(u, m)
      BY <1>1, <1>2, <2>2, <2>3 DEF Works, Active, Attends, x
    <2>5. Jobless' /\ Ages' /\ Rows'
      BY <1>1, <2>2 DEF Jobless, Ages, Rows, Transmitted
    <2>6. Present'
      BY <1>1, <2>3, <2>4 DEF Present
    <2>7. Exclusive' /\ Quiet'
      BY <1>1, <2>4 DEF Exclusive, Quiet, Threads
    <2>8. TxKnows' /\ RepliesKnow' /\ SchedKnows'
      BY <1>1, <1>2, <1>4, <2>2 DEF TxKnows, RepliesKnow, SchedKnows, Fresh, Threads
    <2> QED BY <2>5, <2>6, <2>7, <2>8
  <1> QED BY <1>3, <1>4

\* The row a thread is about to settle is still SENT, or QUEUED if send_text
\* failed, and has the count that the thread read.
LEMMA WriterKnows ==
  ASSUME IInv, LInv, NEW t \in Threads
  PROVE  /\ pc[t] = "ack" => job[t].msg \in Msgs /\ messages[job[t].msg].state = "SENT"
         /\ pc[t] \in {"fail", "try"} => /\ job[t].msg \in Msgs
                                         /\ messages[job[t].msg].state \in {"QUEUED", "SENT"}
                                         /\ messages[job[t].msg].retry_count = job[t].retry
  BY DEF IInv, Copies, Labels, LInv, RepliesKnow, SchedKnows, Fresh, Threads

LEMMA WriteAckLInv ==
  ASSUME IInv, OneCopy, LInv, NEW t \in {"tx", "rx"}, WriteAck(t)
  PROVE  LInv'
  <1> DEFINE x == job[t].msg
  <1>1. /\ pc[t] = "ack" /\ t \in Threads /\ x \in Msgs /\ messages[x] \in Row
        /\ messages' = [messages EXCEPT ![x].state = "ACKED", ![x].acked_at = "set"]
        /\ UNCHANGED <<memory, todo, cutoff, air, aged>>
    BY WriterKnows DEF WriteAck, Threads, IInv, TypeOK, environment
  <1>2. /\ pc'[t] \in {"idle", "loop"} /\ job'[t] = NoJob
        /\ \A u \in Threads \ {t} : pc'[u] = pc[u] /\ job'[u] = job[u]
    BY DEF WriteAck, Continue, Goto, IInv, TypeOK, Threads
  <1>3. /\ \A n \in Msgs \ {x} : messages'[n] = messages[n]
        /\ messages'[x].state = "ACKED" /\ messages'[x].retry_count = messages[x].retry_count
    BY <1>1 DEF IInv, TypeOK, Row
  <1>4. messages[x].retry_count <= MaxRetries /\ Works(t, x)
    BY <1>1 DEF LInv, Rows, Works
  <1> QED BY <1>1, <1>2, <1>3, <1>4, WriteRow

\* What SendFailure makes of the row: one more failed attempt, or the end.
LEMMA FailureWrites ==
  ASSUME IInv, LInv, NEW t \in Threads, SendFailure(t)
  PROVE  LET x == job[t].msg
         IN  /\ x \in Msgs /\ messages[x].state \in {"QUEUED", "SENT"}
             /\ \A n \in Msgs \ {x} : messages'[n] = messages[n]
             /\ \/ /\ messages[x].retry_count = MaxRetries
                   /\ messages'[x].state = "FAILED"
                   /\ messages'[x].retry_count = messages[x].retry_count
                \/ /\ messages[x].retry_count < MaxRetries
                   /\ messages'[x].state = "QUEUED"
                   /\ messages'[x].retry_count = messages[x].retry_count + 1
  <1> DEFINE x == job[t].msg
  <1>1. /\ x \in Msgs /\ messages[x].state \in {"QUEUED", "SENT"}
        /\ messages[x].retry_count = job[t].retry /\ messages[x] \in Row
    BY WriterKnows DEF SendFailure, IInv, TypeOK
  <1>2. messages' = [messages EXCEPT ![x] = Failed(messages[x], job[t].retry)]
    BY DEF SendFailure
  <1> HIDE DEF x
  <1>3. messages[x].retry_count \in Nat /\ messages[x].retry_count <= MaxRetries
    BY <1>1 DEF Row, LInv, Rows
  <1>4. /\ \A n \in Msgs \ {x} : messages'[n] = messages[n]
        /\ messages'[x] = Failed(messages[x], messages[x].retry_count)
    BY <1>1, <1>2 DEF IInv, TypeOK
  <1>5. CASE messages[x].retry_count = MaxRetries
    <2>1. messages'[x] = GiveUp(messages[x])
      BY <1>4, <1>5, RetriesAssumption DEF Failed
    <2> QED BY <1>1, <1>4, <1>5, <2>1, RowUpdates DEF x
  <1>6. CASE messages[x].retry_count < MaxRetries
    <2>1. messages'[x] = TryAgain(messages[x])
      BY <1>3, <1>4, <1>6, RetriesAssumption DEF Failed
    <2> QED BY <1>1, <1>4, <1>6, <2>1, RowUpdates DEF x
  <1> QED BY <1>3, <1>5, <1>6, RetriesAssumption

LEMMA SendFailureLInv ==
  ASSUME IInv, OneCopy, LInv, NEW t \in Threads, SendFailure(t)
  PROVE  LInv'
  <1> DEFINE x == job[t].msg
  <1>1. /\ pc[t] \in {"fail", "try"} /\ UNCHANGED <<memory, todo, air, aged>>
        /\ cutoff' \subseteq cutoff
        /\ pc'[t] \in {"idle", "loop"} /\ job'[t] = NoJob
        /\ \A u \in Threads \ {t} : pc'[u] = pc[u] /\ job'[u] = job[u]
    BY DEF SendFailure, ForgetCutoff, Continue, Goto, IInv, TypeOK, environment
  <1>2. /\ x \in Msgs
        /\ \A n \in Msgs \ {x} : messages'[n] = messages[n]
        /\ messages'[x].state \notin {"NEW", "SENT"}
        /\ \/ messages'[x].retry_count = messages[x].retry_count
           \/ /\ messages[x].retry_count < MaxRetries
              /\ messages'[x].retry_count = messages[x].retry_count + 1
    BY FailureWrites
  <1>3. messages[x].retry_count \in Nat /\ messages[x].retry_count <= MaxRetries
    BY <1>2 DEF LInv, Rows, IInv, TypeOK, Row
  <1>4. messages'[x].retry_count <= MaxRetries
    BY <1>2, <1>3, RetriesAssumption
  <1>5. Works(t, x) \/ pc[t] = "try"
    BY <1>1 DEF Works
  <1> QED BY <1>1, <1>2, <1>4, <1>5, WriteRow DEF Works

-----------------------------------------------------------------------------
(* The scheduler                                                           *)

LEMMA SchedScanLInv == IInv /\ LInv /\ SchedScan => LInv'
  <1> SUFFICES ASSUME IInv, LInv, SchedScan PROVE LInv'
    OBVIOUS
  <1> USE DEF LInv
  <1>1. /\ pc["sched"] = "idle" /\ pc'["sched"] \in {"idle", "loop"} /\ job'["sched"] = NoJob
        /\ \A u \in Threads \ {"sched"} : pc'[u] = pc[u] /\ job'[u] = job[u] /\ todo'[u] = todo[u]
        /\ todo'["sched"] = {Snapshot(m) : m \in {n \in Msgs : Unsettled(messages[n])}}
        /\ cutoff' \subseteq aged
        /\ UNCHANGED <<messages, inflight, deferred, air, aged>>
    BY DEF SchedScan, Begin, Goto, IInv, TypeOK, Threads, memory, environment
  <1>2. \A i \in todo'["sched"] : Fresh(i) /\ i.msg \in Msgs
    BY <1>1 DEF Snapshot, Fresh, Unsettled
  <1>3. NoJob.msg \notin Msgs
    BY NullsAssumption DEF NoJob
  <1>4. \A u \in Threads, m \in Msgs :
          /\ Works(u, m)' => Works(u, m) /\ pc'[u] = pc[u]
          /\ Active(u, m)' => Active(u, m)
          /\ u # "sched" => (Attends(u, m)' => Attends(u, m))
    BY <1>1, <1>3 DEF Works, Active, Attends, Threads
  <1>5. Jobless' /\ Ages' /\ Rows'
    BY <1>1 DEF Jobless, Ages, Rows, Transmitted
  <1>6. Present'
    BY <1>1, <1>4 DEF Present
  <1>7. Exclusive' /\ Quiet'
    BY <1>1, <1>4 DEF Exclusive, Quiet, Threads
  <1>8. TxKnows' /\ RepliesKnow'
    BY <1>1 DEF TxKnows, RepliesKnow, Threads
  <1>9. SchedKnows'
    BY <1>1, <1>2 DEF SchedKnows, Fresh, Rows
  <1> QED BY <1>5, <1>6, <1>7, <1>8, <1>9

\* A row that has timed out is as the scan read it, and is the scheduler's alone.
LEMMA Expired ==
  ASSUME IInv, LInv, NEW i \in todo["sched"], TimedOut(i)
  PROVE  /\ i.sent \in aged /\ Fresh(i)
         /\ ~Tracked(i) => \A p \in Packets : inflight[p] # i.msg
         /\ \A u \in {"tx", "rx"} : ~Active(u, i.msg)
  <1> USE DEF LInv
  <1>1. i.msg \in Msgs /\ i.sent \in Packets /\ i.packet \in {i.sent, NoPacket}
    BY DEF IInv, Copies, SchedKnows, Threads
  <1>2. i.sent \in aged
    BY <1>1 DEF TimedOut, Tracked, Ages
  <1>3. Fresh(i)
    BY <1>2 DEF SchedKnows
  <1>4. ASSUME ~Tracked(i), NEW p \in Packets, inflight[p] = i.msg PROVE FALSE
    <2>1. i.packet = p
      BY <1>1, <1>3, <1>4 DEF Present, Fresh
    <2> QED BY <1>1, <1>4, <2>1, NullsAssumption DEF Tracked
  <1>5. \A u \in {"tx", "rx"} : ~Active(u, i.msg)
    BY <1>1, <1>2, <1>3 DEF Quiet, Fresh, Active, Works, Attends
  <1> QED BY <1>2, <1>3, <1>4, <1>5

LEMMA SchedCheckLInv ==
  ASSUME IInv, OneCopy, LInv, NEW i \in todo["sched"], SchedCheck(i)
  PROVE  LInv'
  <1> USE DEF LInv
  <1>1. /\ i.msg \in Msgs /\ pc["sched"] = "loop" /\ todo'["sched"] \subseteq todo["sched"]
        /\ \A u \in Threads \ {"sched"} : pc'[u] = pc[u] /\ job'[u] = job[u] /\ todo'[u] = todo[u]
        /\ UNCHANGED <<messages, inflight, deferred, air, aged>> /\ cutoff' \subseteq cutoff
    BY DEF SchedCheck, ForgetCutoff, Take, Continue, Goto, IInv, TypeOK, Copies, Threads, memory, environment
  <1>2. CASE ~TimedOut(i)
    <2>1. pc'["sched"] \in {"idle", "loop"} /\ job'["sched"] = NoJob
      BY <1>2 DEF SchedCheck, Continue, Goto, IInv, TypeOK, Threads
    <2>2. \A t \in Threads :
            /\ \/ pc'[t] = pc[t] /\ job'[t] = job[t]
               \/ pc'[t] \in {"idle", "loop"} /\ job'[t] = NoJob
            /\ todo'[t] \subseteq todo[t]
      BY <1>1, <2>1 DEF Threads
    <2>3. cutoff' \subseteq aged
      BY <1>1 DEF Ages
    <2> QED BY <1>1, <2>2, <2>3, LetGo DEF IInv
  <1>3. CASE TimedOut(i)
    <2>1. /\ job'["sched"] = i
          /\ pc'["sched"] = IF Tracked(i) THEN "drop" ELSE "try"
      BY <1>3 DEF SchedCheck, Goto, IInv, TypeOK, Threads
    <2>2. /\ i.sent \in aged /\ Fresh(i)
          /\ ~Tracked(i) => \A p \in Packets : inflight[p] # i.msg
          /\ \A u \in {"tx", "rx"} : ~Active(u, i.msg)
      BY <1>3, Expired
    <2>3. \A u \in Threads, m \in Msgs :
            /\ Works(u, m)' => Works(u, m) \/ (u = "sched" /\ m = i.msg)
            /\ u # "sched" => /\ Works(u, m)' => Works(u, m) /\ pc'[u] = pc[u]
                              /\ Active(u, m)' => Active(u, m)
                              /\ Attends(u, m)' => Attends(u, m)
            /\ u = "sched" => (Active(u, m)' => m = i.msg)
      BY <1>1, <2>1 DEF Works, Active, Attends, Threads
    <2>4. Jobless' /\ Ages' /\ Rows'
      BY <1>1, <2>1 DEF Jobless, Ages, Rows, Transmitted
    <2>5. Present'
      <3>1. SUFFICES ASSUME NEW p \in Packets, NEW m \in Msgs, inflight[p] = m,
                            NEW u \in Threads, Works(u, m)'
                     PROVE  pc'[u] = "drop"
        BY <1>1 DEF Present
      <3>2. CASE u = "sched"
        BY <2>1, <2>2, <3>1, <3>2 DEF Works
      <3>3. CASE u # "sched"
        BY <2>3, <3>1, <3>3 DEF Present
      <3> QED BY <3>2, <3>3
    <2>6. Exclusive' /\ Quiet'
      BY <1>1, <2>2, <2>3 DEF Exclusive, Quiet, Threads
    <2>7. TxKnows' /\ RepliesKnow' /\ SchedKnows'
      BY <1>1, <2>1, <2>2 DEF TxKnows, RepliesKnow, SchedKnows, Fresh, Threads
    <2> QED BY <2>4, <2>5, <2>6, <2>7
  <1> QED BY <1>2, <1>3

LEMMA SchedDropLInv == IInv /\ LInv /\ SchedDrop => LInv'
  <1> SUFFICES ASSUME IInv, LInv, SchedDrop PROVE LInv'
    OBVIOUS
  <1> USE DEF LInv
  <1> DEFINE x == job["sched"].msg
             q == job["sched"].packet
  <1>1. /\ x \in Msgs /\ q \in Packets /\ pc["sched"] = "drop" /\ Works("sched", x)
        /\ Fresh(job["sched"]) /\ messages[x].meshtastic_packet_id = q
    BY DEF SchedDrop, IInv, Copies, SchedKnows, Fresh, Works, Threads
  <1>2. /\ pc' = [pc EXCEPT !["sched"] = "fail"] /\ job'["sched"] = job["sched"]
        /\ pc'["sched"] = "fail"
        /\ \A u \in Threads \ {"sched"} : pc'[u] = pc[u] /\ job'[u] = job[u]
        /\ \A p \in Packets : inflight'[p] = IF p = q THEN NoMsg ELSE inflight[p]
        /\ UNCHANGED <<messages, deferred, todo, cutoff, air, aged>>
    BY DEF SchedDrop, Popped, Goto, IInv, TypeOK, Threads, environment
  <1>3. \A u \in Threads, m \in Msgs :
          /\ Works(u, m)' => Works(u, m)
          /\ Active(u, m)' => Active(u, m)
          /\ Attends(u, m)' => Attends(u, m)
    BY <1>1, <1>2 DEF Works, Active, Attends, Threads
  <1>4. Jobless' /\ Ages' /\ Rows'
    BY <1>2 DEF Jobless, Ages, Rows, Transmitted
  <1>5. Present'
    <2>1. SUFFICES ASSUME NEW p \in Packets, NEW m \in Msgs, inflight'[p] = m
                   PROVE  /\ messages[m].state = "SENT"
                          /\ messages[m].meshtastic_packet_id = p
                          /\ \A u \in Threads : Works(u, m)' => pc'[u] = "drop"
      BY <1>2 DEF Present
    <2>2. p # q /\ inflight[p] = m
      BY <1>2, <2>1, NullsAssumption
    <2>3. messages[m].state = "SENT" /\ messages[m].meshtastic_packet_id = p
          /\ \A u \in Threads : Works(u, m) => pc[u] = "drop"
      BY <2>2 DEF Present
    <2>4. m # x
      BY <1>1, <2>2, <2>3
    <2>5. ~Works("sched", m)'
      BY <1>2, <2>4 DEF Works
    <2> QED BY <1>2, <1>3, <2>3, <2>5
  <1>6. Exclusive' /\ Quiet'
    BY <1>2, <1>3 DEF Exclusive, Quiet, Threads
  <1>7. TxKnows' /\ RepliesKnow' /\ SchedKnows'
    BY <1>1, <1>2 DEF TxKnows, RepliesKnow, SchedKnows, Fresh, Threads
  <1> QED BY <1>4, <1>5, <1>6, <1>7

-----------------------------------------------------------------------------
(* Faults, time and users                                                  *)

LEMMA FaultLInv ==
  ASSUME IInv, LInv, Crash \/ \E t \in Threads : DbFails(t)
  PROVE  LInv'
  <1>1. /\ \A t \in Threads :
             /\ \/ pc'[t] = pc[t] /\ job'[t] = job[t]
                \/ pc'[t] \in {"idle", "loop"} /\ job'[t] = NoJob
             /\ todo'[t] \subseteq todo[t]
        /\ \A p \in Packets : inflight'[p] \in {inflight[p], NoMsg}
        /\ cutoff' \subseteq aged /\ UNCHANGED <<messages, air, aged>>
    <2>1. CASE Crash
      BY <2>1 DEF Crash, Threads
    <2>2. ASSUME NEW t \in Threads, DbFails(t)
          PROVE  /\ \A u \in Threads :
                      /\ \/ pc'[u] = pc[u] /\ job'[u] = job[u]
                         \/ pc'[u] \in {"idle", "loop"} /\ job'[u] = NoJob
                      /\ todo'[u] \subseteq todo[u]
                 /\ UNCHANGED <<messages, inflight, air, aged>> /\ cutoff' \subseteq cutoff
      BY <2>2 DEF DbFails, ForgetCutoff, Continue, Goto, IInv, TypeOK, memory
    <2> QED BY <2>1, <2>2 DEF LInv, Ages
  <1> QED BY <1>1, LetGo DEF IInv

\* Under Patient a packet grows old only when no thread is at its message.
LEMMA AgeLInv ==
  ASSUME Patient, IInv, LInv, NEW p \in Packets, Age(p)
  PROVE  LInv'
  <1> USE DEF LInv
  <1>1. /\ air[p] # NoMsg /\ Unattended(air[p]) /\ aged' = aged \cup {p}
        /\ UNCHANGED <<messages, inflight, deferred, pc, job, todo, cutoff, air>>
    BY DEF Age, Patient, Transmitted, memory, threads
  <1>2. \A u \in Threads, m \in Msgs : /\ Works(u, m)' <=> Works(u, m)
                                       /\ Active(u, m)' <=> Active(u, m)
                                       /\ Attends(u, m)' <=> Attends(u, m)
    BY <1>1 DEF Works, Active, Attends
  <1>3. Jobless' /\ Ages' /\ Rows'
    BY <1>1 DEF Jobless, Ages, Rows, Transmitted
  <1>4. Present' /\ Exclusive'
    BY <1>1, <1>2 DEF Present, Exclusive
  <1>5. TxKnows'
    BY <1>1, NullsAssumption DEF TxKnows, IInv, Unregistered, Unattended, Threads
  <1>6. RepliesKnow' /\ SchedKnows'
    BY <1>1 DEF RepliesKnow, SchedKnows, Fresh, Unattended, Threads
  <1>7. Quiet'
    BY <1>1, <1>2 DEF Quiet, Rows, Unattended, Attends, Threads
  <1> QED BY <1>3, <1>4, <1>5, <1>6, <1>7

LEMMA BackoffElapsesLInv ==
  ASSUME IInv, LInv, NEW m \in Msgs, BackoffElapses(m)
  PROVE  LInv'
  <1> USE DEF LInv
  <1>1. /\ UNCHANGED <<inflight, deferred, pc, job, todo, cutoff, air, aged>>
        /\ \A n \in Msgs : /\ messages'[n].state = messages[n].state
                           /\ messages'[n].sent_at = messages[n].sent_at
                           /\ messages'[n].retry_count = messages[n].retry_count
                           /\ messages'[n].meshtastic_packet_id = messages[n].meshtastic_packet_id
    BY DEF BackoffElapses, IInv, TypeOK, Row, memory, threads, environment
  <1>2. \A u \in Threads, n \in Msgs : /\ Works(u, n)' <=> Works(u, n)
                                       /\ Active(u, n)' <=> Active(u, n)
                                       /\ Attends(u, n)' <=> Attends(u, n)
    BY <1>1 DEF Works, Active, Attends
  <1>3. Jobless' /\ Ages' /\ Rows'
    BY <1>1 DEF Jobless, Ages, Rows, Transmitted
  <1>4. Present'
    BY <1>1, <1>2 DEF Present
  <1>7. Exclusive' /\ Quiet'
    BY <1>1, <1>2 DEF Exclusive, Quiet, Threads
  <1>5. TxKnows' /\ RepliesKnow'
    BY <1>1 DEF TxKnows, RepliesKnow, IInv, Copies, Threads
  <1>6. SchedKnows'
    BY <1>1 DEF SchedKnows, Fresh, IInv, Copies, Threads
  <1> QED BY <1>3, <1>4, <1>5, <1>6, <1>7

\* What the users' statements do to a row.
LEMMA UsersWrite ==
  ASSUME Patient, IInv, NEW m \in Msgs, Enqueue(m) \/ Delete(m) \/ Retry(m)
  PROVE  /\ \A n \in Msgs \ {m} : messages'[n] = messages[n]
         /\ UNCHANGED <<memory, threads, environment>>
         /\ Enqueue(m) => /\ messages[m].state = "NEW" /\ messages'[m].state = "QUEUED"
                          /\ messages'[m].retry_count = messages[m].retry_count
         /\ Delete(m) => /\ messages[m].state \in {"ACKED", "FAILED"}
                         /\ messages'[m].state = "DELETED"
                         /\ messages'[m].retry_count = messages[m].retry_count
         /\ Retry(m) => /\ messages[m].state = "FAILED" /\ messages'[m].state = "QUEUED"
                        /\ messages'[m].retry_count = 0
  <1>1. messages[m] \in Row /\ messages \in [Msgs -> Row]
    BY DEF IInv, TypeOK
  <1>2. Retry(m) => messages'[m].state = "QUEUED" /\ messages'[m].retry_count = 0
    BY <1>1, RowUpdates DEF Retry
  <1> QED BY <1>1, <1>2 DEF Patient, Enqueue, Delete, Retry, Row

LEMMA ClientsLInv ==
  ASSUME Patient, IInv, LInv, NEW m \in Msgs, Enqueue(m) \/ Delete(m) \/ Retry(m)
  PROVE  LInv'
  <1>1. messages[m].retry_count <= MaxRetries
    BY DEF LInv, Rows
  <1> QED BY <1>1, UsersWrite, UserWrite, RetriesAssumption

\* A step that the threads do not see.
LEMMA UnseenLInv == IInv /\ LInv /\ (LinkChanges \/ UNCHANGED vars) => LInv'
  <1> SUFFICES ASSUME IInv, LInv, LinkChanges \/ UNCHANGED vars PROVE LInv'
    OBVIOUS
  <1> QED BY LetGo DEF IInv, LInv, Ages, LinkChanges, vars, memory, threads, environment

LEMMA NextLInv == Patient /\ IInv /\ OneCopy /\ LInv /\ [Next]_vars => LInv'
  <1> SUFFICES ASSUME Patient, IInv, OneCopy, LInv, [Next]_vars PROVE LInv'
    OBVIOUS
  <1>1. CASE TxStep
    BY <1>1, TxDrainLInv, TxSendLInv, TxSendFailsLInv, TxRecordLInv, TxRegisterLInv,
       TxReplayLInv, VerifyLInv, WriteAckLInv, SendFailureLInv DEF TxStep, Threads
  <1>2. CASE RxStep
    BY <1>2, VerifyLInv, WriteAckLInv, SendFailureLInv DEF RxStep, Threads
  <1>3. CASE SchedStep
    BY <1>3, SchedScanLInv, SchedCheckLInv, SchedDropLInv, SendFailureLInv DEF SchedStep, Threads
  <1>4. CASE \E p \in Packets, reason \in Reasons : RxRouting(p, reason)
    BY <1>4, RxRoutingLInv
  <1>5. CASE Crash \/ \E t \in Threads : DbFails(t)
    BY <1>5, FaultLInv
  <1>6. CASE Clock
    BY <1>6, AgeLInv, BackoffElapsesLInv DEF Clock
  <1>7. CASE Clients
    BY <1>7, ClientsLInv DEF Clients
  <1>8. CASE LinkChanges \/ UNCHANGED vars
    BY <1>8, UnseenLInv
  <1> QED BY <1>1, <1>2, <1>3, <1>4, <1>5, <1>6, <1>7, <1>8 DEF Next, Daemon

-----------------------------------------------------------------------------
(* The refinement                                                          *)

\* The row of m is written, in the abstract as in the detailed specification.
LEMMA OneRow ==
  ASSUME IInv, IInv', NEW m \in Msgs,
         \A n \in Msgs \ {m} : messages'[n] = messages[n],
         UNCHANGED <<air, confirmed>>
  PROVE  /\ [n \in Msgs |-> messages[n].state]'
              = [[n \in Msgs |-> messages[n].state] EXCEPT ![m] = messages'[m].state]
         /\ [n \in Msgs |-> messages[n].retry_count]'
              = [[n \in Msgs |-> messages[n].retry_count] EXCEPT ![m] = messages'[m].retry_count]
         /\ {air[p] : p \in confirmed}' = {air[p] : p \in confirmed}
  OBVIOUS

\* Nothing that the abstract specification sees is written.
LEMMA Hidden ==
  ASSUME \A n \in Msgs : /\ messages'[n].state = messages[n].state
                         /\ messages'[n].retry_count = messages[n].retry_count,
         {air[p] : p \in confirmed}' = {air[p] : p \in confirmed}
  PROVE  UNCHANGED Lifecycle!vars
  BY DEF Lifecycle!vars

\* TX hands a message to the radio and notes it.
LEMMA TxRecordStep == IInv /\ IInv' /\ LInv /\ TxRecord => \E m \in Msgs : Lifecycle!Send(m)
  <1> SUFFICES ASSUME IInv, IInv', LInv, TxRecord PROVE \E m \in Msgs : Lifecycle!Send(m)
    OBVIOUS
  <1> DEFINE x == job["tx"].msg
  <1>1. /\ x \in Msgs /\ messages[x] \in Row /\ messages[x].state = "QUEUED"
        /\ UNCHANGED <<air, confirmed>>
    BY DEF TxRecord, IInv, TypeOK, Copies, LInv, TxKnows, Threads, environment
  <1>2. /\ \A n \in Msgs \ {x} : messages'[n] = messages[n]
        /\ messages'[x].state = "SENT" /\ messages'[x].retry_count = messages[x].retry_count
    BY <1>1 DEF TxRecord, IInv, TypeOK, Row
  <1> HIDE DEF x
  <1> QED BY <1>1, <1>2, OneRow DEF Lifecycle!Send, Lifecycle!Move

\* A popped ACK settles a message that was confirmed.
LEMMA WriteAckStep ==
  ASSUME IInv, IInv', LInv, NEW t \in {"tx", "rx"}, WriteAck(t)
  PROVE  \E m \in Msgs : Lifecycle!Settle(m)
  <1> DEFINE x == job[t].msg
  <1>1. /\ x \in Msgs /\ messages[x] \in Row /\ messages[x].state = "SENT"
        /\ \E p \in confirmed : air[p] = x
        /\ UNCHANGED <<air, confirmed>>
    BY WriterKnows DEF WriteAck, IInv, TypeOK, Replies, Threads, environment
  <1>2. /\ \A n \in Msgs \ {x} : messages'[n] = messages[n]
        /\ messages'[x].state = "ACKED" /\ messages'[x].retry_count = messages[x].retry_count
    BY <1>1 DEF WriteAck, IInv, TypeOK, Row
  <1> HIDE DEF x
  <1> QED BY <1>1, <1>2, OneRow DEF Lifecycle!Settle, Lifecycle!Move

LEMMA SendFailureStep ==
  ASSUME IInv, IInv', LInv, NEW t \in Threads, SendFailure(t)
  PROVE  \E m \in Msgs : Lifecycle!TryAgain(m) \/ Lifecycle!GiveUp(m)
  <1> DEFINE x == job[t].msg
  <1>1. UNCHANGED <<air, confirmed>>
    BY DEF SendFailure, environment
  <1>2. /\ x \in Msgs /\ messages[x].state \in {"QUEUED", "SENT"}
        /\ \A n \in Msgs \ {x} : messages'[n] = messages[n]
        /\ \/ /\ messages[x].retry_count = MaxRetries
              /\ messages'[x].state = "FAILED"
              /\ messages'[x].retry_count = messages[x].retry_count
           \/ /\ messages[x].retry_count < MaxRetries
              /\ messages'[x].state = "QUEUED"
              /\ messages'[x].retry_count = messages[x].retry_count + 1
    BY FailureWrites
  <1> HIDE DEF x
  <1>3. CASE messages'[x].state = "FAILED"
    BY <1>1, <1>2, <1>3, OneRow DEF Lifecycle!GiveUp, Lifecycle!Move
  <1>4. CASE messages'[x].state = "QUEUED"
    BY <1>1, <1>2, <1>4, OneRow DEF Lifecycle!TryAgain, Lifecycle!Move
  <1> QED BY <1>2, <1>3, <1>4

\* A reply that is an ACK reaches a message that is no longer NEW.
LEMMA RxRoutingStep ==
  ASSUME IInv, LInv, NEW p \in Packets, NEW reason \in Reasons, RxRouting(p, reason)
  PROVE  UNCHANGED Lifecycle!vars \/ \E m \in Msgs : Lifecycle!Reach(m)
  <1>1. /\ air[p] \in Msgs /\ messages[air[p]].state # "NEW"
        /\ UNCHANGED <<messages, air>>
        /\ confirmed' = IF reason = "NONE" THEN confirmed \cup {p} ELSE confirmed
    BY DEF RxRouting, Transmitted, IInv, TypeOK, LInv, Rows
  <1>2. CASE reason = "NONE"
    <2>1. {air[q] : q \in confirmed}' = {air[q] : q \in confirmed} \cup {air[p]}
      BY <1>1, <1>2
    <2> QED BY <1>1, <2>1 DEF Lifecycle!Reach
  <1>3. CASE reason # "NONE"
    BY <1>1, <1>3, Hidden
  <1> QED BY <1>2, <1>3

LEMMA ClientsStep ==
  ASSUME Patient, IInv, IInv', NEW m \in Msgs, Enqueue(m) \/ Delete(m) \/ Retry(m)
  PROVE  Lifecycle!Submit(m) \/ Lifecycle!UserDelete(m) \/ Lifecycle!UserRetry(m)
  <1>1. UNCHANGED <<air, confirmed>> /\ \A n \in Msgs \ {m} : messages'[n] = messages[n]
    BY UsersWrite DEF environment
  <1>2. CASE Enqueue(m)
    BY <1>1, <1>2, UsersWrite, OneRow DEF Lifecycle!Submit, Lifecycle!Move
  <1>3. CASE Delete(m)
    BY <1>1, <1>3, UsersWrite, OneRow DEF Lifecycle!UserDelete, Lifecycle!Move
  <1>4. CASE Retry(m)
    BY <1>1, <1>4, UsersWrite, OneRow DEF Lifecycle!UserRetry, Lifecycle!Move
  <1> QED BY <1>2, <1>3, <1>4

\* The other steps are hidden: a packet on the air is not confirmed yet.
LEMMA TxSendStep ==
  ASSUME IInv, NEW i \in todo["tx"], NEW p \in Packets, NEW id, TxSend(i, p, id)
  PROVE  UNCHANGED Lifecycle!vars
  <1>1. /\ air[p] = NoMsg /\ air' = [air EXCEPT ![p] = i.msg] /\ UNCHANGED <<messages, confirmed>>
    BY DEF TxSend
  <1>2. \A q \in confirmed : air'[q] = air[q]
    BY <1>1 DEF IInv, Bookkeeping, TypeOK
  <1> QED BY <1>1, <1>2, Hidden

LEMMA HiddenSteps ==
  ASSUME IInv,
         \/ TxDrain \/ TxRegister \/ TxReplay
         \/ \E i \in todo["tx"] : TxSendFails(i)
         \/ \E t \in {"tx", "rx"} : Verify(t)
         \/ SchedScan \/ SchedDrop
         \/ \E i \in todo["sched"] : SchedCheck(i)
         \/ Crash \/ \E t \in Threads : DbFails(t)
         \/ Clock \/ LinkChanges
         \/ UNCHANGED vars
  PROVE  UNCHANGED Lifecycle!vars
  <1>1. ASSUME NEW m \in Msgs, BackoffElapses(m)
        PROVE  \A n \in Msgs : /\ messages'[n].state = messages[n].state
                               /\ messages'[n].retry_count = messages[n].retry_count
    BY <1>1 DEF BackoffElapses, IInv, TypeOK, Row
  <1>2. UNCHANGED <<air, confirmed>>
    BY DEF TxDrain, TxRegister, TxReplay, TxSendFails, Verify, SchedScan, SchedDrop, SchedCheck,
           Crash, LinkChanges, DbFails, Clock, Age, BackoffElapses, vars, environment
  <1>3. \A n \in Msgs : /\ messages'[n].state = messages[n].state
                        /\ messages'[n].retry_count = messages[n].retry_count
    BY <1>1 DEF TxDrain, TxRegister, TxReplay, TxSendFails, Verify, SchedScan, SchedDrop,
                SchedCheck, Crash, LinkChanges, DbFails, Clock, Age, vars
  <1> QED BY <1>2, <1>3, Hidden

LEMMA Simulation ==
  Patient /\ IInv /\ IInv' /\ LInv /\ [Next]_vars => [Lifecycle!Next]_Lifecycle!vars
  <1> SUFFICES ASSUME Patient, IInv, IInv', LInv, [Next]_vars
               PROVE  UNCHANGED Lifecycle!vars \/ Lifecycle!Next
    OBVIOUS
  <1>1. CASE TxStep
    BY <1>1, TxSendStep, TxRecordStep, WriteAckStep, SendFailureStep, HiddenSteps
    DEF TxStep, Threads, Lifecycle!Next
  <1>2. CASE RxStep
    BY <1>2, WriteAckStep, SendFailureStep, HiddenSteps DEF RxStep, Threads, Lifecycle!Next
  <1>3. CASE SchedStep
    BY <1>3, SendFailureStep, HiddenSteps DEF SchedStep, Threads, Lifecycle!Next
  <1>4. CASE \E p \in Packets, reason \in Reasons : RxRouting(p, reason)
    BY <1>4, RxRoutingStep DEF Lifecycle!Next
  <1>5. CASE \/ Crash \/ \E t \in Threads : DbFails(t)
             \/ Clock \/ LinkChanges \/ UNCHANGED vars
    BY <1>5, HiddenSteps
  <1>6. CASE Clients
    BY <1>6, ClientsStep DEF Clients, Lifecycle!Next
  <1> QED BY <1>1, <1>2, <1>3, <1>4, <1>5, <1>6 DEF Next, Daemon

\* When replies and handlers beat the ACK timeout and users delete settled
\* messages only, the three threads, the users and any number of crashes and
\* failed statements implement the life of a message that README.md draws.
THEOREM LifecycleRefined == ASSUME Patient PROVE Spec => ImplementsLifecycle
  <1>1. Init => Lifecycle!Init
    <2> SUFFICES ASSUME Init PROVE Lifecycle!Init
      OBVIOUS
    <2>1. \A m \in Msgs : messages[m] = NewRow
      BY DEF Init
    <2>2. NewRow.state = "NEW" /\ NewRow.retry_count = 0
      BY DEF NewRow
    <2> QED BY <2>1, <2>2 DEF Init, Lifecycle!Init
  <1>2. Init => IInv /\ OneCopy /\ LInv
    BY InitRInv, InitLInv DEF RInv
  <1>3. IInv /\ OneCopy /\ LInv /\ [Next]_vars => (IInv /\ OneCopy /\ LInv)'
    BY NextIInv, NextCopies, NextLInv
  <1>4. IInv /\ IInv' /\ LInv /\ [Next]_vars => [Lifecycle!Next]_Lifecycle!vars
    BY Simulation
  <1> QED BY <1>1, <1>2, <1>3, <1>4, PTL DEF Spec, ImplementsLifecycle, Lifecycle!Spec
-----------------------------------------------------------------------------
(* What the threads and the scan may rely on                               *)

\* A step leaves what counts of row m alone, or settles it, or moves a row that
\* is not settled and does not touch its acked_at.
LEMMA RowMoves ==
  ASSUME Patient, IInv, LInv, [Next]_vars, NEW m \in Msgs
  PROVE  \/ /\ messages'[m].state = messages[m].state
            /\ messages'[m].acked_at = messages[m].acked_at
            /\ messages'[m].retry_count = messages[m].retry_count
         \/ messages'[m].state \in {"ACKED", "DELETED"}
         \/ /\ messages[m].state \in {"NEW", "QUEUED", "SENT", "FAILED"}
            /\ messages'[m].acked_at = messages[m].acked_at
            /\ messages'[m].state = "FAILED" => messages'[m].retry_count = MaxRetries
  <1> DEFINE Same == messages'[m] = messages[m]
             Moved == /\ messages[m].state \in {"NEW", "QUEUED", "SENT", "FAILED"}
                      /\ messages'[m].acked_at = messages[m].acked_at
                      /\ messages'[m].state = "FAILED" => messages'[m].retry_count = MaxRetries
  <1>1. messages \in [Msgs -> Row]
    BY DEF IInv, TypeOK
  <1>2. CASE UNCHANGED messages
    BY <1>2
  <1>3. CASE TxRecord
    <2>1. job["tx"].msg \in Msgs /\ messages[job["tx"].msg].state = "QUEUED"
      BY <1>3 DEF TxRecord, IInv, Copies, LInv, TxKnows, Threads
    <2> QED BY <1>1, <1>3, <2>1 DEF TxRecord, Row
  <1>4. CASE \E t \in {"tx", "rx"} : WriteAck(t)
    BY <1>1, <1>4 DEF WriteAck, Row
  <1>5. CASE \E t \in Threads : SendFailure(t)
    <2>1. PICK t \in Threads : SendFailure(t)
      BY <1>5
    <2> DEFINE x == job[t].msg
    <2>2. /\ messages' = [messages EXCEPT ![x] = Failed(messages[x], job[t].retry)]
          /\ x \in Msgs /\ messages[x] \in Row
          /\ messages[x].state \in {"QUEUED", "SENT"}
          /\ messages'[x].state = "FAILED" => messages'[x].retry_count = MaxRetries
      BY <1>1, <2>1, FailureWrites DEF SendFailure
    <2> HIDE DEF x
    <2>3. Failed(messages[x], job[t].retry).acked_at = messages[x].acked_at
      BY <2>2 DEF Failed, GiveUp, TryAgain, Row
    <2>4. CASE m = x
      BY <1>1, <2>2, <2>3, <2>4
    <2>5. CASE m # x
      BY <1>1, <2>2, <2>5
    <2> QED BY <2>4, <2>5
  <1>6. CASE \E n \in Msgs : BackoffElapses(n)
    BY <1>1, <1>6 DEF BackoffElapses, Row
  <1>7. ASSUME NEW n \in Msgs, Enqueue(n) \/ Delete(n) \/ Retry(n)
        PROVE  Same \/ messages'[m].state = "DELETED" \/ Moved
    <2>1. CASE m = n
      <3>1. CASE Enqueue(n)
        BY <1>1, <2>1, <3>1 DEF Enqueue, Row
      <3>2. CASE Delete(n)
        BY <1>7, <2>1, <3>2, UsersWrite
      <3>3. CASE Retry(n)
        BY <1>1, <2>1, <3>3 DEF Retry, Requeue, Row
      <3> QED BY <1>7, <3>1, <3>2, <3>3
    <2>2. CASE m # n
      BY <1>7, <2>2, UsersWrite
    <2> QED BY <2>1, <2>2
  <1>8. \/ UNCHANGED messages \/ TxRecord
        \/ \E t \in {"tx", "rx"} : WriteAck(t)
        \/ \E t \in Threads : SendFailure(t)
        \/ \E n \in Msgs : BackoffElapses(n)
        \/ \E n \in Msgs : Enqueue(n) \/ Delete(n) \/ Retry(n)
    <2>1. CASE TxStep
      BY <2>1 DEF TxStep, TxDrain, TxSend, TxSendFails, TxRegister, TxReplay, Verify, Threads
    <2>2. CASE RxStep
      BY <2>2 DEF RxStep, Verify, Threads
    <2>3. CASE SchedStep
      BY <2>3 DEF SchedStep, SchedScan, SchedCheck, SchedDrop, Threads
    <2>4. CASE \E p \in Packets, reason \in Reasons : RxRouting(p, reason)
      BY <2>4 DEF RxRouting
    <2>5. CASE Crash \/ \E t \in Threads : DbFails(t)
      BY <2>5 DEF Crash, DbFails
    <2>6. CASE Clock
      BY <2>6 DEF Clock, Age
    <2>7. CASE Clients
      BY <2>7 DEF Clients
    <2>8. CASE LinkChanges \/ UNCHANGED vars
      BY <2>8 DEF LinkChanges, vars
    <2> QED BY <2>1, <2>2, <2>3, <2>4, <2>5, <2>6, <2>7, <2>8 DEF Next, Daemon
  <1> HIDE DEF Same, Moved
  <1>9. Same \/ messages'[m].state \in {"ACKED", "DELETED"} \/ Moved
          \/ /\ messages'[m].state = messages[m].state
             /\ messages'[m].acked_at = messages[m].acked_at
             /\ messages'[m].retry_count = messages[m].retry_count
    BY <1>2, <1>3, <1>4, <1>5, <1>6, <1>7, <1>8 DEF Same, Moved
  <1> QED BY <1>9 DEF Same, Moved

\* Under Patient _inflight holds the present packet of SENT rows and nothing
\* else, a row with acked_at is settled, so that the scan, which skips such rows,
\* overlooks no message that is SENT, and a message is FAILED only after
\* max_retries failed attempts.
THEOREM BooksAlwaysAgree == ASSUME Patient PROVE Spec => []BooksAgree
  <1> DEFINE SInv == AckedAtMeansSettled /\ GivenUpIsExhausted
  <1>1. Init => IInv /\ OneCopy /\ LInv /\ SInv
    BY InitRInv, InitLInv DEF RInv, Init, NewRow, AckedAtMeansSettled, GivenUpIsExhausted
  <1>2. IInv /\ OneCopy /\ LInv /\ [Next]_vars => (IInv /\ OneCopy /\ LInv)'
    BY NextIInv, NextCopies, NextLInv
  <1>3. IInv /\ LInv /\ SInv /\ [Next]_vars => SInv'
    <2> SUFFICES ASSUME IInv, LInv, SInv, [Next]_vars PROVE SInv'
      OBVIOUS
    <2> QED BY RowMoves DEF AckedAtMeansSettled, GivenUpIsExhausted
  <1>4. IInv /\ LInv /\ SInv => BooksAgree
    <2>1. IInv /\ LInv => TrackedIsCurrent
      BY DEF IInv, TypeOK, LInv, Present, TrackedIsCurrent
    <2> QED BY <2>1 DEF BooksAgree
  <1> QED BY <1>1, <1>2, <1>3, <1>4, PTL DEF Spec
=============================================================================

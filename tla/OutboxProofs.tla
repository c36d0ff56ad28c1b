---------------------------- MODULE OutboxProofs ----------------------------
(***************************************************************************)
(* Proofs about Outbox for every set of messages and packets, every        *)
(* max_retries, any number of crashes and failed statements and every      *)
(* choice of Deletable and Timely: the types, the safety of the reply      *)
(* bookkeeping, and how far retry_count can overshoot max_retries.         *)
(***************************************************************************)
EXTENDS Outbox, TLAPS

\* Each thread visits only its own labels, and only the RX callback has no loop.
Labels ==
    /\ pc["tx"] \in {"idle", "loop", "record", "register", "replay", "verify", "ack", "fail"}
    /\ pc["rx"] \in {"idle", "verify", "ack", "fail"}
    /\ pc["sched"] \in {"idle", "loop", "drop", "fail", "try"}
    /\ todo["rx"] = {}

\* What is tracked, stashed or confirmed was transmitted, for the message named.
Bookkeeping ==
    /\ \A p \in Packets : inflight[p] # NoMsg => air[p] = inflight[p]
    /\ \A p \in Packets : deferred[p] # NoReason => air[p] # NoMsg
    /\ \A p \in Packets : deferred[p] = "NONE" => p \in confirmed
    /\ \A p \in confirmed : air[p] # NoMsg

\* The rows a thread selected, and the one it works on, are rows.
Copies ==
    /\ \A t \in Threads : \A i \in todo[t] : i.msg \in Msgs
    /\ \A t \in Threads : pc[t] \notin {"idle", "loop"} => job[t].msg \in Msgs
    /\ pc["sched"] = "drop" => job["sched"].packet \in Packets

\* A packet between send_text and its registration: not tracked yet, and a
\* confirmation that was quicker is in the stash, unless a NAK replaced it.
Unregistered ==
    /\ pc["tx"] = "record" =>
         /\ job["tx"].sent \in Packets
         /\ job["tx"].packet \in {job["tx"].sent, NoPacket}
         /\ air[job["tx"].sent] = job["tx"].msg
    /\ pc["tx"] = "register" => job["tx"].packet \in Packets
    /\ (pc["tx"] \in {"record", "register"} /\ job["tx"].packet # NoPacket) =>
         /\ air[job["tx"].packet] = job["tx"].msg
         /\ inflight[job["tx"].packet] = NoMsg
         /\ job["tx"].packet \in confirmed \ overruled => deferred[job["tx"].packet] = "NONE"
         /\ ~(pc["rx"] \in {"verify", "ack"} /\ job["rx"].packet = job["tx"].packet)

\* A reply a thread has in hand answers a transmission of the message it names,
\* and if it is an ACK the confirmation was heard.
Replies ==
    \A t \in {"tx", "rx"} :
        /\ pc[t] \in {"replay", "verify", "ack"} =>
             /\ job[t].packet \in Packets
             /\ job[t].reason \in Reasons
             /\ air[job[t].packet] = job[t].msg
             /\ job[t].reason = "NONE" => job[t].packet \in confirmed
        /\ pc[t] = "ack" => job[t].reason = "NONE"

IInv ==
    /\ TypeOK
    /\ Labels
    /\ Bookkeeping
    /\ Copies
    /\ Unregistered
    /\ Replies
    /\ AckNotLost
    /\ SettledOnce
    /\ AckedImpliesConfirmed

LEMMA InitIInv == Init => IInv
  BY NullsAssumption, RetriesAssumption, ChoicesAssumption
  DEF Init, IInv, TypeOK, Labels, Bookkeeping, Copies, Unregistered, Replies,
      AckNotLost, SettledOnce, AckedImpliesConfirmed, Row, NewRow, Job, NoJob,
      Threads, States, Reasons

\* The UPDATE statements keep a row a row.
LEMMA RowUpdates ==
  ASSUME NEW r \in Row
  PROVE  /\ GiveUp(r) \in Row /\ TryAgain(r) \in Row /\ Requeue(r) \in Row
         /\ GiveUp(r).state = "FAILED" /\ GiveUp(r).retry_count = r.retry_count
         /\ TryAgain(r).state = "QUEUED" /\ TryAgain(r).retry_count = r.retry_count + 1
         /\ Requeue(r).state = "QUEUED" /\ Requeue(r).retry_count = 0
  <1>1. r.retry_count + 1 \in Nat /\ 0 \in Nat
    BY DEF Row
  <1>2. ASSUME NEW k \in Nat
        PROVE  [r EXCEPT !.state = "QUEUED", !.retry_count = k,
                         !.next_attempt_at = "future", !.sent_at = NoPacket,
                         !.meshtastic_packet_id = NoPacket] \in Row
    BY ZenonT(30) DEF Row, States
  <1>3. ASSUME NEW k \in Nat
        PROVE  [r EXCEPT !.state = "QUEUED", !.retry_count = k,
                         !.next_attempt_at = "null"] \in Row
    BY ZenonT(30) DEF Row, States
  <1>4. GiveUp(r) \in Row
    BY DEF GiveUp, Row, States
  <1>5. /\ GiveUp(r).state = "FAILED" /\ GiveUp(r).retry_count = r.retry_count
        /\ TryAgain(r).state = "QUEUED" /\ TryAgain(r).retry_count = r.retry_count + 1
        /\ Requeue(r).state = "QUEUED" /\ Requeue(r).retry_count = 0
    BY DEF GiveUp, TryAgain, Requeue, Row
  <1> QED  BY <1>1, <1>2, <1>3, <1>4, <1>5 DEF TryAgain, Requeue

\* So does what TX notes about the packet it just sent.
LEMMA SentJob ==
  \A i \in Job, p \in Packets, id \in Packets \cup {NoPacket} :
    [i EXCEPT !.sent = p, !.packet = id] \in Job
  BY DEF Job

\* A step that only changes rows, and makes none of them ACKED.
LEMMA RowsOnlyIInv ==
  ASSUME IInv, UNCHANGED <<memory, threads, connected, environment>>,
         messages' \in [Msgs -> Row],
         \A m \in Msgs : messages'[m].state = "ACKED" => messages[m].state = "ACKED"
  PROVE  IInv'
  <1> USE DEF IInv, memory, threads, environment
  <1>1. TypeOK'
    BY DEF TypeOK
  <1>2. Labels' /\ Bookkeeping' /\ Copies' /\ Unregistered'
    BY DEF Labels, Bookkeeping, Copies, Unregistered
  <1>3. Replies' /\ AckNotLost' /\ SettledOnce'
    BY DEF Replies, AckNotLost, SettledOnce
  <1>4. AckedImpliesConfirmed'
    BY DEF AckedImpliesConfirmed
  <1> QED  BY <1>1, <1>2, <1>3, <1>4

\* A thread is done with a row, or dead; no row turns ACKED without a confirmation.
LEMMA DoneIInv ==
  ASSUME IInv, NEW t \in Threads, NEW label \in {"idle", "loop"},
         pc[t] # "replay", t = "rx" => label = "idle",
         pc' = [pc EXCEPT ![t] = label],
         job' = [job EXCEPT ![t] = NoJob],
         todo' = todo \/ todo' = [todo EXCEPT ![t] = {}],
         UNCHANGED <<inflight, deferred, connected, air, confirmed, overruled, aged>>,
         cutoff' \subseteq cutoff,
         faults' \in 0..MaxFaults, dead' \subseteq {"tx", "sched"},
         messages' \in [Msgs -> Row],
         \A m \in Msgs : messages'[m].state = "ACKED" =>
             messages[m].state = "ACKED" \/ \E p \in confirmed : air[p] = m
  PROVE  IInv'
  <1> USE DEF IInv, Threads
  <1>1. NoJob \in Job
    BY DEF NoJob, Job
  <1>2. TypeOK'
    BY <1>1 DEF TypeOK
  <1>3. Labels'
    BY DEF TypeOK, Labels
  <1>4. Bookkeeping'
    BY DEF Bookkeeping
  <1>5. Copies'
    BY DEF TypeOK, Copies
  <1>6. Unregistered'
    BY DEF TypeOK, Unregistered
  <1>7. Replies'
    BY DEF TypeOK, Replies
  <1>8. AckNotLost'
    BY DEF TypeOK, AckNotLost
  <1>9. SettledOnce'
    BY DEF TypeOK, SettledOnce
  <1>10. AckedImpliesConfirmed'
    BY DEF AckedImpliesConfirmed
  <1> QED  BY <1>2, <1>3, <1>4, <1>5, <1>6, <1>7, <1>8, <1>9, <1>10

LEMMA TxDrainIInv == IInv /\ TxDrain => IInv'
  BY NullsAssumption, RetriesAssumption, ChoicesAssumption DEF TxDrain, Begin, Goto, Snapshot,
      memory, threads, environment,
      IInv, TypeOK, Labels, Bookkeeping, Copies, Unregistered, Replies,
      AckNotLost, SettledOnce, AckedImpliesConfirmed, Row, Job, NoJob,
      Threads, States, Reasons

LEMMA TxSendIInv ==
  ASSUME NEW i \in todo["tx"], NEW p \in Packets, NEW id \in Packets \cup {NoPacket},
         IInv, TxSend(i, p, id)
  PROVE  IInv'
  <1> USE NullsAssumption DEF IInv, TxSend, Take, Goto, memory, threads, environment, Threads, Reasons
  <1>1. TypeOK'
    <2>1. i \in Job
      BY DEF TypeOK
    <2>2. [i EXCEPT !.sent = p, !.packet = id] \in Job
      BY <2>1, SentJob
    <2>3. i.msg \in Msgs
      BY DEF Copies
    <2> QED  BY <2>2, <2>3 DEF TypeOK
  <1>2. Labels'
    BY DEF TypeOK, Row, Job, NoJob, Labels
  <1>3. Bookkeeping'
    BY DEF TypeOK, Row, Job, NoJob, Bookkeeping, Copies, Unregistered, Replies
  <1>4. Copies'
    BY DEF TypeOK, Row, Job, NoJob, Labels, Bookkeeping, Copies, Unregistered, Replies
  <1>5. Unregistered'
    BY DEF TypeOK, Row, Job, NoJob, Labels, Bookkeeping, Copies, Unregistered, Replies, SettledOnce
  <1>6. Replies'
    BY DEF TypeOK, Row, Job, NoJob, Labels, Bookkeeping, Copies, Unregistered, Replies
  <1>7. AckNotLost'
    BY DEF TypeOK, Row, Job, NoJob, Bookkeeping, Unregistered, Replies, AckNotLost
  <1>8. SettledOnce'
    BY DEF TypeOK, Row, Job, NoJob, Labels, Bookkeeping, Unregistered, Replies, SettledOnce
  <1>9. AckedImpliesConfirmed'
    BY DEF TypeOK, Row, Job, NoJob, Labels, Bookkeeping, Copies, Unregistered, Replies, AckedImpliesConfirmed
  <1> QED  BY <1>1, <1>2, <1>3, <1>4, <1>5, <1>6, <1>7, <1>8, <1>9

LEMMA TxSendFailsIInv == ASSUME NEW i \in todo["tx"] PROVE IInv /\ TxSendFails(i) => IInv'
  BY NullsAssumption, RetriesAssumption, ChoicesAssumption DEF TxSendFails, Take, Goto,
      memory, threads, environment,
      IInv, TypeOK, Labels, Bookkeeping, Copies, Unregistered, Replies,
      AckNotLost, SettledOnce, AckedImpliesConfirmed, Row, Job, NoJob,
      Threads, States, Reasons

LEMMA TxRecordIInv == IInv /\ TxRecord => IInv'
  <1> SUFFICES ASSUME IInv, TxRecord PROVE IInv'
    OBVIOUS
  <1> USE NullsAssumption DEF IInv, TxRecord, Continue, Goto, memory, threads, environment, Threads
  <1>1. TypeOK'
    <2>1. /\ job["tx"].msg \in Msgs /\ messages[job["tx"].msg] \in Row
          /\ job["tx"].sent \in Packets /\ job["tx"].packet \in Packets \cup {NoPacket}
      BY DEF TypeOK, Copies, Unregistered
    <2>2. messages' \in [Msgs -> Row]
      BY <2>1 DEF TypeOK, Row, States
    <2>3. NoJob \in Job
      BY DEF NoJob, Job
    <2> QED  BY <2>2, <2>3 DEF TypeOK
  <1>2. Labels'
    BY DEF TypeOK, Labels
  <1>3. Bookkeeping'
    BY DEF Bookkeeping
  <1>4. Copies'
    BY DEF TypeOK, Copies
  <1>5. Unregistered'
    BY DEF TypeOK, NoJob, Unregistered
  <1>6. Replies'
    BY DEF TypeOK, Replies
  <1>7. AckNotLost'
    BY DEF TypeOK, AckNotLost
  <1>8. SettledOnce'
    BY DEF TypeOK, SettledOnce
  <1>9. AckedImpliesConfirmed'
    <2>1. \A m \in Msgs : messages'[m].state = "ACKED" => messages[m].state = "ACKED"
      BY DEF TypeOK, Row
    <2> QED  BY <2>1 DEF AckedImpliesConfirmed
  <1> QED  BY <1>1, <1>2, <1>3, <1>4, <1>5, <1>6, <1>7, <1>8, <1>9

LEMMA TxRegisterIInv ==
  ASSUME IInv, TxRegister
  PROVE  IInv'
  <1> USE DEF IInv
  <1> DEFINE p == job["tx"].packet
             early == deferred[p]
             j == [job["tx"] EXCEPT !.reason = early]
  <1>1. /\ pc["tx"] = "register" /\ p \in Packets /\ job["tx"].msg \in Msgs
        /\ air[p] = job["tx"].msg /\ job["tx"] \in Job
        /\ early \in Reasons \cup {NoReason}
    BY NullsAssumption DEF TxRegister, TypeOK, Threads, Labels, Copies, Unregistered, Bookkeeping
  <1>2. /\ inflight' = [inflight EXCEPT ![p] = job["tx"].msg]
        /\ deferred' = [deferred EXCEPT ![p] = NoReason]
        /\ UNCHANGED <<messages, todo, cutoff, connected, environment>>
    BY DEF TxRegister
  <1>3. PICK label \in {"idle", "loop", "replay"}, i \in {NoJob, j} :
          /\ pc' = [pc EXCEPT !["tx"] = label] /\ job' = [job EXCEPT !["tx"] = i]
          /\ early = NoReason => label # "replay"
          /\ early # NoReason => label = "replay" /\ i = j
    BY DEF TxRegister, Stashed, Continue, Goto
  <1>4. /\ NoJob \in Job /\ NoJob.packet = NoPacket
        /\ j \in Job /\ j.msg = job["tx"].msg /\ j.packet = p /\ j.reason = early
    BY <1>1 DEF NoJob, Job
  <1> HIDE DEF j
  <1>5. TypeOK'
    BY <1>1, <1>2, <1>3, <1>4 DEF TypeOK, Threads, environment
  <1>6. Labels'
    <2>1. /\ pc'["tx"] = label /\ pc'["rx"] = pc["rx"] /\ pc'["sched"] = pc["sched"]
          /\ todo' = todo
      BY <1>2, <1>3 DEF TypeOK, Threads
    <2> QED  BY <2>1 DEF Labels
  <1>7. Bookkeeping'
    <2>1. /\ \A q \in Packets : inflight'[q] = IF q = p THEN job["tx"].msg ELSE inflight[q]
          /\ \A q \in Packets : deferred'[q] = IF q = p THEN NoReason ELSE deferred[q]
          /\ air' = air /\ confirmed' = confirmed
      BY <1>2 DEF TypeOK, environment
    <2>2. p \in Packets /\ air[p] = job["tx"].msg /\ NoReason # "NONE"
      BY <1>1, NullsAssumption DEF Reasons
    <2> HIDE DEF p
    <2> QED  BY <2>1, <2>2 DEF Bookkeeping
  <1>8. Copies'
    BY <1>1, <1>2, <1>3, <1>4 DEF TypeOK, Copies, Threads
  <1>9. Unregistered'
    BY <1>2, <1>3 DEF TypeOK, Unregistered, Threads
  <1>10. Replies'
    BY <1>1, <1>2, <1>3, <1>4, NullsAssumption
       DEF TypeOK, Replies, Bookkeeping, Threads, environment
  <1>11. AckNotLost'
    <2>1. p \in confirmed \ overruled => early = "NONE"
      BY <1>1, NullsAssumption DEF Unregistered
    <2>2. p \in confirmed \ overruled =>
            pc'["tx"] = "replay" /\ job'["tx"].packet = p /\ job'["tx"].reason = "NONE"
      BY <1>3, <1>4, <2>1, NullsAssumption DEF TypeOK, Threads, Reasons
    <2>3. \A q \in confirmed \ overruled : q # p => inflight[q] = NoMsg
      BY <1>1 DEF AckNotLost
    <2>4. /\ \A q \in Packets \ {p} : inflight'[q] = inflight[q]
          /\ confirmed' = confirmed /\ overruled' = overruled
      BY <1>2 DEF TypeOK, environment
    <2> QED  BY <2>2, <2>3, <2>4 DEF AckNotLost, TypeOK
  <1>12. SettledOnce'
    <2>1. /\ pc'["tx"] \notin {"verify", "ack"}
          /\ pc'["rx"] = pc["rx"] /\ job'["rx"] = job["rx"]
      BY <1>3 DEF TypeOK, Threads
    <2>2. ~(pc["rx"] \in {"verify", "ack"} /\ job["rx"].packet = p)
      BY <1>1, NullsAssumption DEF Unregistered
    <2>3. \A q \in Packets \ {p} : inflight'[q] = inflight[q]
      BY <1>2 DEF TypeOK
    <2> QED  BY <2>1, <2>2, <2>3 DEF SettledOnce
  <1>13. AckedImpliesConfirmed'
    BY <1>2 DEF AckedImpliesConfirmed, environment
  <1> QED  BY <1>5, <1>6, <1>7, <1>8, <1>9, <1>10, <1>11, <1>12, <1>13

\* The lock section of _handle_ack_nak, whoever runs it: the RX callback with a
\* reply it just heard, or TX with the reply it took from the stash.
LEMMA PopOrStashIInv ==
  ASSUME NEW t \in {"tx", "rx"}, NEW p \in Packets, NEW reason \in Reasons,
         IInv, PopOrStash(t, p, reason),
         IF t = "tx" THEN pc[t] = "replay" /\ job[t].packet = p ELSE pc[t] = "idle",
         air[p] # NoMsg,
         confirmed' = IF reason = "NONE" THEN confirmed \cup {p} ELSE confirmed,
         overruled' \subseteq confirmed',
         t = "tx" => overruled' = overruled \ {p},
         t = "rx" => overruled' = IF reason = "NONE" THEN overruled \ {p}
                        ELSE overruled \cup {q \in {p} \cap confirmed : Untracked(q)},
         UNCHANGED <<messages, todo, cutoff, connected, air, aged, dead, faults>>
  PROVE  IInv'
  <1> USE DEF IInv
  <1>1. CASE inflight[p] # NoMsg
    <2> DEFINE j == [NoJob EXCEPT !.msg = inflight[p], !.packet = p, !.reason = reason]
    <2>1. /\ inflight[p] \in Msgs /\ air[p] = inflight[p]
          /\ t = "rx" => ~(pc["tx"] \in {"record", "register"} /\ job["tx"].packet = p)
      BY <1>1, NullsAssumption DEF TypeOK, Bookkeeping, Unregistered
    <2>2. /\ inflight' = [inflight EXCEPT ![p] = NoMsg]
          /\ pc' = [pc EXCEPT ![t] = "verify"]
          /\ job' = [job EXCEPT ![t] = j]
          /\ deferred' = deferred
      BY <1>1 DEF PopOrStash, Popped, Goto
    <2>3. /\ j \in Job
          /\ j.msg = inflight[p] /\ j.packet = p /\ j.reason = reason
      BY <2>1 DEF NoJob, Job
    <2> HIDE DEF j
    <2>4. TypeOK'
      BY <2>2, <2>3 DEF TypeOK, Threads, Reasons
    <2>5. Labels'
      BY <2>2 DEF TypeOK, Labels, Threads
    <2>6. Bookkeeping'
      BY <2>2 DEF TypeOK, Bookkeeping
    <2>7. Copies'
      BY <2>1, <2>2, <2>3 DEF TypeOK, Copies, Threads
    <2>8. Unregistered'
      BY <2>1, <2>2, <2>3 DEF TypeOK, Unregistered, Threads
    <2>9. Replies'
      BY <2>1, <2>2, <2>3, NullsAssumption DEF TypeOK, Replies, Threads
    <2>10. AckNotLost'
      BY <2>2 DEF TypeOK, AckNotLost, Threads
    <2>11. SettledOnce'
      BY <1>1, <2>2, <2>3 DEF TypeOK, SettledOnce, Threads
    <2>12. AckedImpliesConfirmed'
      BY DEF AckedImpliesConfirmed
    <2> QED  BY <2>4, <2>5, <2>6, <2>7, <2>8, <2>9, <2>10, <2>11, <2>12
  <1>2. CASE inflight[p] = NoMsg
    <2>1. /\ deferred' = [deferred EXCEPT ![p] = reason]
          /\ \E label \in {"idle", "loop"} : /\ t = "rx" => label = "idle"
                                             /\ pc' = [pc EXCEPT ![t] = label]
          /\ job' = [job EXCEPT ![t] = NoJob]
          /\ inflight' = inflight
      BY <1>2 DEF PopOrStash, Continue, Goto, Labels
    <2>2. PICK label \in {"idle", "loop"} : /\ t = "rx" => label = "idle"
                                            /\ pc' = [pc EXCEPT ![t] = label]
      BY <2>1
    <2>3. NoJob \in Job /\ reason # NoReason
      BY NullsAssumption DEF NoJob, Job
    <2>4. TypeOK'
      BY <2>1, <2>2, <2>3 DEF TypeOK, Threads, Reasons
    <2>5. Labels'
      BY <2>2 DEF TypeOK, Labels, Threads
    <2>6. Bookkeeping'
      BY <2>1 DEF TypeOK, Bookkeeping
    <2>7. Copies'
      BY <2>1, <2>2 DEF TypeOK, Copies, Threads
    <2>8. Unregistered'
      <3>1. CASE t = "tx"
        BY <2>1, <2>2, <3>1 DEF TypeOK, Unregistered, Threads
      <3>2. CASE t = "rx"
        <4>1. /\ pc'["tx"] = pc["tx"] /\ job'["tx"] = job["tx"] /\ pc'["rx"] = "idle"
              /\ UNCHANGED <<inflight, air>>
          BY <2>1, <2>2, <3>2 DEF TypeOK, Threads
        <4>2. ASSUME pc["tx"] \in {"record", "register"},
                     job["tx"].packet \in confirmed' \ overruled', job["tx"].packet # NoPacket
              PROVE  deferred'[job["tx"].packet] = "NONE"
          <5>1. CASE job["tx"].packet = p
            BY <2>1, <3>2, <4>2, <5>1 DEF TypeOK, Untracked, Reasons
          <5>2. CASE job["tx"].packet # p
            BY <2>1, <3>2, <4>2, <5>2 DEF TypeOK, Unregistered
          <5> QED  BY <5>1, <5>2
        <4> QED  BY <4>1, <4>2 DEF Unregistered
      <3> QED  BY <3>1, <3>2
    <2>9. Replies'
      BY <2>1, <2>2 DEF TypeOK, Replies, Threads
    <2>10. AckNotLost'
      BY <1>2, <2>1, <2>2 DEF TypeOK, AckNotLost, Threads
    <2>11. SettledOnce'
      BY <2>1, <2>2 DEF TypeOK, SettledOnce, Threads
    <2>12. AckedImpliesConfirmed'
      BY DEF AckedImpliesConfirmed
    <2> QED  BY <2>4, <2>5, <2>6, <2>7, <2>8, <2>9, <2>10, <2>11, <2>12
  <1> QED  BY <1>1, <1>2

LEMMA TxReplayIInv == IInv /\ TxReplay => IInv'
  <1> SUFFICES ASSUME IInv, TxReplay PROVE IInv'
    OBVIOUS
  <1>1. /\ job["tx"].packet \in Packets /\ job["tx"].reason \in Reasons
        /\ air[job["tx"].packet] # NoMsg
        /\ job["tx"].reason = "NONE" => job["tx"].packet \in confirmed
    BY NullsAssumption DEF IInv, TxReplay, Replies, Copies, Threads
  <1>2. /\ confirmed' = IF job["tx"].reason = "NONE" THEN confirmed \cup {job["tx"].packet}
                                                     ELSE confirmed
        /\ overruled' \subseteq confirmed'
    BY <1>1 DEF TxReplay, IInv, TypeOK
  <1> QED  BY <1>1, <1>2, PopOrStashIInv DEF TxReplay

LEMMA RxRoutingIInv ==
  ASSUME NEW p \in Packets, NEW reason \in Reasons
  PROVE  IInv /\ RxRouting(p, reason) => IInv'
  <1> SUFFICES ASSUME IInv, RxRouting(p, reason) PROVE IInv'
    OBVIOUS
  <1>1. overruled' \subseteq confirmed'
    BY DEF RxRouting, IInv, TypeOK
  <1> QED  BY <1>1, PopOrStashIInv DEF RxRouting, Transmitted

LEMMA VerifyIInv == ASSUME NEW t \in {"tx", "rx"} PROVE IInv /\ Verify(t) => IInv'
  <1> SUFFICES ASSUME IInv, Verify(t) PROVE IInv'
    OBVIOUS
  <1> USE NullsAssumption DEF IInv, Verify, Threads
  <1>1. UNCHANGED <<messages, inflight, deferred, todo, cutoff, connected, air, confirmed,
                    overruled, aged, dead, faults>>
    BY DEF memory, environment
  <1>2. CASE messages[job[t].msg].state # "SENT"
    <2>1. /\ job' = [job EXCEPT ![t] = NoJob]
          /\ \E label \in {"idle", "loop"} : /\ t = "rx" => label = "idle"
                                             /\ pc' = [pc EXCEPT ![t] = label]
      BY <1>2 DEF Continue, Goto, Labels
    <2> QED  BY <1>1, <2>1, DoneIInv DEF TypeOK
  <1>3. CASE messages[job[t].msg].state = "SENT"
    <2> DEFINE j == [job[t] EXCEPT !.retry = messages[job[t].msg].retry_count]
    <2>1. /\ job[t].msg \in Msgs /\ messages[job[t].msg] \in Row /\ job[t] \in Job
      BY DEF TypeOK, Copies
    <2>2. /\ j \in Job /\ j.msg = job[t].msg /\ j.packet = job[t].packet
          /\ j.reason = job[t].reason
      BY <2>1 DEF Job, Row
    <2>3. /\ pc' = [pc EXCEPT ![t] = IF job[t].reason = "NONE" THEN "ack" ELSE "fail"]
          /\ job' = [job EXCEPT ![t] = j]
      BY <1>3 DEF Verdict, Goto
    <2> HIDE DEF j
    <2>4. TypeOK' /\ Labels' /\ Bookkeeping' /\ Copies'
      BY <1>1, <2>1, <2>2, <2>3 DEF TypeOK, Labels, Bookkeeping, Copies
    <2>5. Unregistered' /\ Replies'
      BY <1>1, <2>2, <2>3 DEF TypeOK, Unregistered, Replies
    <2>6. AckNotLost' /\ SettledOnce' /\ AckedImpliesConfirmed'
      BY <1>1, <2>2, <2>3 DEF TypeOK, AckNotLost, SettledOnce, AckedImpliesConfirmed
    <2> QED  BY <2>4, <2>5, <2>6
  <1> QED  BY <1>2, <1>3

LEMMA WriteAckIInv ==
  ASSUME NEW t \in {"tx", "rx"}, IInv, WriteAck(t)
  PROVE  IInv'
  <1> USE DEF IInv
  <1>1. PICK label \in {"idle", "loop"} : /\ t = "rx" => label = "idle"
                                          /\ pc' = [pc EXCEPT ![t] = label]
    BY DEF WriteAck, Continue, Goto, Labels
  <1>2. /\ job' = [job EXCEPT ![t] = NoJob] /\ pc[t] # "replay"
        /\ UNCHANGED <<inflight, deferred, todo, cutoff, connected, air, confirmed, overruled, aged,
                      dead, faults>>
    BY DEF WriteAck, Continue, Goto, memory, environment
  <1>3. faults' \in 0..MaxFaults /\ dead' \subseteq {"tx", "sched"}
    BY <1>2 DEF TypeOK
  <1> DEFINE m == job[t].msg
             row == [messages[m] EXCEPT !.state = "ACKED", !.acked_at = "set"]
  <1>4. m \in Msgs /\ messages[m] \in Row /\ t \in Threads
    BY DEF WriteAck, TypeOK, Copies, Threads
  <1>5. row \in Row /\ row.state = "ACKED"
    BY <1>4 DEF Row, States
  <1>6. messages' = [messages EXCEPT ![m] = row]
    BY <1>4 DEF WriteAck, TypeOK, Row
  <1>7. \E p \in confirmed : air[p] = m
    BY DEF WriteAck, Replies
  <1> HIDE DEF m, row
  <1>8. /\ messages' \in [Msgs -> Row]
        /\ \A n \in Msgs : messages'[n].state = "ACKED" =>
             messages[n].state = "ACKED" \/ \E p \in confirmed : air[p] = n
    BY <1>4, <1>5, <1>6, <1>7 DEF TypeOK
  <1> QED  BY <1>1, <1>2, <1>3, <1>4, <1>8, DoneIInv

LEMMA SendFailureIInv ==
  ASSUME NEW t \in Threads, IInv, SendFailure(t)
  PROVE  IInv'
  <1> USE DEF IInv
  <1>1. PICK label \in {"idle", "loop"} : /\ t = "rx" => label = "idle"
                                          /\ pc' = [pc EXCEPT ![t] = label]
    BY DEF SendFailure, Continue, Goto, Labels
  <1>2. /\ job' = [job EXCEPT ![t] = NoJob] /\ pc[t] # "replay"
        /\ UNCHANGED <<inflight, deferred, todo, connected, air, confirmed, overruled, aged,
                      dead, faults>>
        /\ cutoff' \subseteq cutoff
    BY DEF SendFailure, ForgetCutoff, Continue, Goto, memory, environment
  <1>3. faults' \in 0..MaxFaults /\ dead' \subseteq {"tx", "sched"}
    BY <1>2 DEF TypeOK
  <1> DEFINE m == job[t].msg
             row == Failed(messages[m], job[t].retry)
  <1>4. m \in Msgs /\ messages[m] \in Row
    BY DEF SendFailure, TypeOK, Copies
  <1>5. row \in Row /\ row.state # "ACKED"
    BY <1>4, RowUpdates DEF Failed
  <1>6. messages' = [messages EXCEPT ![m] = row]
    BY DEF SendFailure
  <1> HIDE DEF m, row
  <1>7. /\ messages' \in [Msgs -> Row]
        /\ \A n \in Msgs : messages'[n].state = "ACKED" => messages[n].state = "ACKED"
    BY <1>4, <1>5, <1>6 DEF TypeOK
  <1> QED  BY <1>1, <1>2, <1>3, <1>7, DoneIInv

LEMMA SchedScanIInv == IInv /\ SchedScan => IInv'
  BY NullsAssumption, RetriesAssumption, ChoicesAssumption DEF SchedScan, Unsettled, Begin, Goto, Snapshot,
      memory, threads, environment,
      IInv, TypeOK, Labels, Bookkeeping, Copies, Unregistered, Replies,
      AckNotLost, SettledOnce, AckedImpliesConfirmed, Row, Job, NoJob,
      Threads, States, Reasons

LEMMA SchedCheckIInv == ASSUME NEW i \in todo["sched"] PROVE IInv /\ SchedCheck(i) => IInv'
  BY NullsAssumption, RetriesAssumption, ChoicesAssumption
  DEF SchedCheck, TimedOut, Tracked, Take, Continue, Goto, ForgetCutoff,
      memory, threads, environment,
      IInv, TypeOK, Labels, Bookkeeping, Copies, Unregistered, Replies,
      AckNotLost, SettledOnce, AckedImpliesConfirmed, Row, Job, NoJob,
      Threads, States, Reasons

LEMMA SchedDropIInv == IInv /\ SchedDrop => IInv'
  BY NullsAssumption, RetriesAssumption, ChoicesAssumption DEF SchedDrop, Popped, Goto,
      memory, threads, environment,
      IInv, TypeOK, Labels, Bookkeeping, Copies, Unregistered, Replies,
      AckNotLost, SettledOnce, AckedImpliesConfirmed, Row, Job, NoJob,
      Threads, States, Reasons

\* A statement that fails leaves the thread at the top of its loop, in its loop,
\* or dead, and everything else as it was.
LEMMA DbFailsIInv ==
  ASSUME NEW t \in Threads,
         IInv, DbFails(t)
  PROVE  IInv'
  <1> USE NullsAssumption DEF IInv, Threads
  <1>1. /\ UNCHANGED <<messages, inflight, deferred, connected, air, confirmed, overruled, aged>>
        /\ cutoff' \subseteq cutoff
        /\ job' = [job EXCEPT ![t] = NoJob]
        /\ faults' \in 0..MaxFaults /\ dead' \subseteq {"tx", "sched"}
    <2>1. faults' \in 0..MaxFaults
      BY RetriesAssumption DEF DbFails, Fault, TypeOK
    <2>2. dead' \subseteq {"tx", "sched"}
      BY DEF DbFails, Caught, TypeOK
    <2>3. cutoff' \subseteq cutoff
      BY DEF DbFails, ForgetCutoff
    <2> QED  BY <2>1, <2>2, <2>3 DEF DbFails, Continue, Goto, memory
  <1>2. /\ todo' = todo \/ todo' = [todo EXCEPT ![t] = {}]
        /\ \E label \in {"idle", "loop"} : /\ t = "rx" => label = "idle"
                                           /\ pc' = [pc EXCEPT ![t] = label]
    BY DEF DbFails, Caught, Continue, Goto, Labels
  <1>3. PICK label \in {"idle", "loop"} : /\ t = "rx" => label = "idle"
                                          /\ pc' = [pc EXCEPT ![t] = label]
    BY <1>2
  <1>4. pc[t] # "replay"
    BY DEF DbFails, Executes
  <1>5. /\ messages' \in [Msgs -> Row]
        /\ \A m \in Msgs : messages'[m].state = "ACKED" => messages[m].state = "ACKED"
    BY <1>1 DEF TypeOK
  <1> QED  BY <1>1, <1>2, <1>3, <1>4, <1>5, DoneIInv

LEMMA AgeIInv == ASSUME NEW p \in Packets PROVE IInv /\ Age(p) => IInv'
  BY NullsAssumption, RetriesAssumption, ChoicesAssumption DEF Age, Transmitted,
      memory, threads, environment,
      IInv, TypeOK, Labels, Bookkeeping, Copies, Unregistered, Replies,
      AckNotLost, SettledOnce, AckedImpliesConfirmed, Row, Job, NoJob,
      Threads, States, Reasons

LEMMA BackoffElapsesIInv ==
  ASSUME NEW m \in Msgs,
         IInv, BackoffElapses(m)
  PROVE  IInv'
  <1>1. messages \in [Msgs -> Row] /\ messages[m] \in Row
    BY DEF IInv, TypeOK
  <1> DEFINE row == [messages[m] EXCEPT !.next_attempt_at = "past"]
  <1>2. row \in Row /\ row.state = messages[m].state
    BY <1>1 DEF Row
  <1>3. messages' = [messages EXCEPT ![m] = row]
    BY <1>1 DEF BackoffElapses, Row
  <1> HIDE DEF row
  <1>4. /\ messages' \in [Msgs -> Row]
        /\ \A n \in Msgs : messages'[n].state = "ACKED" => messages[n].state = "ACKED"
    BY <1>1, <1>2, <1>3
  <1> QED  BY <1>4, RowsOnlyIInv DEF BackoffElapses

LEMMA CrashIInv == IInv /\ Crash => IInv'
  BY NullsAssumption, RetriesAssumption, ChoicesAssumption DEF Crash, Fault,
      memory, threads, environment,
      IInv, TypeOK, Labels, Bookkeeping, Copies, Unregistered, Replies,
      AckNotLost, SettledOnce, AckedImpliesConfirmed, Row, Job, NoJob,
      Threads, States, Reasons

LEMMA EnqueueIInv ==
  ASSUME NEW m \in Msgs,
         IInv, Enqueue(m)
  PROVE  IInv'
  <1>1. messages \in [Msgs -> Row] /\ messages[m] \in Row
    BY DEF IInv, TypeOK
  <1> DEFINE row == [messages[m] EXCEPT !.state = "QUEUED"]
  <1>2. row \in Row /\ row.state = "QUEUED"
    BY <1>1 DEF Row, States
  <1>3. messages' = [messages EXCEPT ![m] = row]
    BY <1>1 DEF Enqueue, Row
  <1> HIDE DEF row
  <1>4. /\ messages' \in [Msgs -> Row]
        /\ \A n \in Msgs : messages'[n].state = "ACKED" => messages[n].state = "ACKED"
    BY <1>1, <1>2, <1>3
  <1> QED  BY <1>4, RowsOnlyIInv DEF Enqueue

LEMMA DeleteIInv ==
  ASSUME NEW m \in Msgs,
         IInv, Delete(m)
  PROVE  IInv'
  <1>1. messages \in [Msgs -> Row] /\ messages[m] \in Row
    BY DEF IInv, TypeOK
  <1> DEFINE row == [messages[m] EXCEPT !.state = "DELETED"]
  <1>2. row \in Row /\ row.state = "DELETED"
    BY <1>1 DEF Row, States
  <1>3. messages' = [messages EXCEPT ![m] = row]
    BY <1>1 DEF Delete, Row
  <1> HIDE DEF row
  <1>4. /\ messages' \in [Msgs -> Row]
        /\ \A n \in Msgs : messages'[n].state = "ACKED" => messages[n].state = "ACKED"
    BY <1>1, <1>2, <1>3
  <1> QED  BY <1>4, RowsOnlyIInv DEF Delete

LEMMA RetryIInv ==
  ASSUME NEW m \in Msgs,
         IInv, Retry(m)
  PROVE  IInv'
  <1>1. messages \in [Msgs -> Row] /\ messages[m] \in Row
    BY DEF IInv, TypeOK
  <1> DEFINE row == Requeue(messages[m])
  <1>2. row \in Row /\ row.state = "QUEUED"
    BY <1>1, RowUpdates
  <1>3. messages' = [messages EXCEPT ![m] = row]
    BY <1>1 DEF Retry, Row
  <1> HIDE DEF row
  <1>4. /\ messages' \in [Msgs -> Row]
        /\ \A n \in Msgs : messages'[n].state = "ACKED" => messages[n].state = "ACKED"
    BY <1>1, <1>2, <1>3
  <1> QED  BY <1>4, RowsOnlyIInv DEF Retry

LEMMA LinkChangesIInv == IInv /\ LinkChanges => IInv'
  BY ChoicesAssumption DEF LinkChanges, memory, threads, environment,
      IInv, TypeOK, Labels, Bookkeeping, Copies, Unregistered, Replies,
      AckNotLost, SettledOnce, AckedImpliesConfirmed, Row, Job, NoJob,
      Threads, States, Reasons

LEMMA StutterIInv == IInv /\ UNCHANGED vars => IInv'
  BY DEF vars, memory, threads, environment,
      IInv, TypeOK, Labels, Bookkeeping, Copies, Unregistered, Replies,
      AckNotLost, SettledOnce, AckedImpliesConfirmed, Row, Job, NoJob,
      Threads, States, Reasons

-----------------------------------------------------------------------------
LEMMA NextIInv == IInv /\ [Next]_vars => IInv'
  <1> SUFFICES ASSUME IInv, [Next]_vars PROVE IInv'
    OBVIOUS
  <1>1. CASE TxStep
    BY <1>1, TxDrainIInv, TxSendIInv, TxSendFailsIInv, TxRecordIInv, TxRegisterIInv,
       TxReplayIInv, VerifyIInv, WriteAckIInv, SendFailureIInv DEF TxStep, Threads
  <1>2. CASE RxStep
    BY <1>2, VerifyIInv, WriteAckIInv, SendFailureIInv DEF RxStep, Threads
  <1>3. CASE SchedStep
    BY <1>3, SchedScanIInv, SchedCheckIInv, SchedDropIInv, SendFailureIInv
       DEF SchedStep, Threads
  <1>4. CASE \E p \in Packets, reason \in Reasons : RxRouting(p, reason)
    BY <1>4, RxRoutingIInv
  <1>5. CASE \E t \in Threads : DbFails(t)
    BY <1>5, DbFailsIInv
  <1>6. CASE Clock
    BY <1>6, AgeIInv, BackoffElapsesIInv DEF Clock
  <1>7. CASE Crash
    BY <1>7, CrashIInv
  <1>8. CASE Clients
    BY <1>8, EnqueueIInv, DeleteIInv, RetryIInv DEF Clients
  <1>10. CASE LinkChanges
    BY <1>10, LinkChangesIInv
  <1>9. CASE UNCHANGED vars
    BY <1>9, StutterIInv
  <1> QED  BY <1>1, <1>2, <1>3, <1>4, <1>5, <1>6, <1>7, <1>8, <1>9, <1>10 DEF Next, Daemon

\* The strengthened invariant holds throughout every behaviour of the code.
THEOREM Invariance == Spec => []IInv
  BY InitIInv, NextIInv, PTL DEF Spec

\* Every variable keeps its type, and no thread ever works on a packet, a row or
\* a reason that does not exist.
THEOREM TypeCorrect == Spec => []TypeOK
  BY Invariance, PTL DEF IInv

\* A confirmation that overtakes the registration of its packet is replayed as a
\* confirmation, unless a NAK for the packet followed it into the stash.
THEOREM NoAckIsLost == Spec => []AckNotLost
  BY Invariance, PTL DEF IInv

\* No packet is being settled by two replies at once.
THEOREM SettlesOnce == Spec => []SettledOnce
  BY Invariance, PTL DEF IInv

\* ACKED is never shown for a message nobody confirmed.
THEOREM AckedIsConfirmed == Spec => []AckedImpliesConfirmed
  BY Invariance, PTL DEF IInv

-----------------------------------------------------------------------------
(* How far retry_count can overshoot max_retries.  A thread may add one to *)
(* the count of row m only while it holds a copy of m that was read below  *)
(* max_retries: a permit.  There are three threads, each holds at most one *)
(* permit per row, and taking one requires the count to be below the       *)
(* limit, so count + permits never exceeds max_retries + 2.                *)

\* Thread t may still add one to the retry count of m.
Holds(t, m) ==
    \/ \E i \in todo[t] : i.msg = m /\ i.retry < MaxRetries
    \/ pc[t] \in {"drop", "fail", "try"} /\ job[t].msg = m /\ job[t].retry < MaxRetries

Permit(t, m) == IF Holds(t, m) THEN 1 ELSE 0

\* A thread holds at most one copy of a row.
OneCopy ==
    \A t \in Threads :
        /\ \A i, k \in todo[t] : i.msg = k.msg => i = k
        /\ pc[t] \notin {"idle", "loop"} => \A i \in todo[t] : i.msg # job[t].msg

Budget ==
    \A m \in Msgs :
        messages[m].retry_count + Permit("tx", m) + Permit("rx", m) + Permit("sched", m)
            <= MaxRetries + 2

RInv == IInv /\ OneCopy /\ Budget

LEMMA PermitValue == \A t, m : Permit(t, m) \in {0, 1}
  BY DEF Permit

\* A step that gives no thread a permit on m unless the count is below the
\* limit, and leaves the count alone, keeps the budget of m.
LEMMA BudgetKept ==
  ASSUME TypeOK, TypeOK', Budget,
         \A m \in Msgs : messages'[m].retry_count = messages[m].retry_count,
         \A m \in Msgs, t \in Threads :
            Holds(t, m)' => Holds(t, m) \/ messages[m].retry_count < MaxRetries
  PROVE  Budget'
  <1> SUFFICES ASSUME NEW m \in Msgs
               PROVE  messages'[m].retry_count + Permit("tx", m)' + Permit("rx", m)'
                        + Permit("sched", m)' <= MaxRetries + 2
    BY DEF Budget
  <1> DEFINE c == messages[m].retry_count
  <1>1. c \in Nat /\ messages'[m].retry_count = c
    BY DEF TypeOK, Row
  <1>2. \A t \in Threads : /\ Permit(t, m) \in {0, 1} /\ Permit(t, m)' \in {0, 1}
                           /\ Permit(t, m)' <= Permit(t, m) \/ c < MaxRetries
    BY DEF Permit
  <1>3. c + Permit("tx", m) + Permit("rx", m) + Permit("sched", m) <= MaxRetries + 2
    BY DEF Budget
  <1> HIDE DEF c
  <1> QED  BY <1>1, <1>2, <1>3, RetriesAssumption DEF Threads

LEMMA InitRInv == Init => RInv
  <1> SUFFICES ASSUME Init PROVE OneCopy /\ Budget
    BY InitIInv DEF RInv
  <1>1. OneCopy
    BY DEF Init, OneCopy
  <1>2. \A t \in Threads, m \in Msgs : Permit(t, m) = 0
    BY DEF Init, Permit, Holds, Threads
  <1>3. \A m \in Msgs : messages[m].retry_count = 0
    BY DEF Init, NewRow
  <1>4. ASSUME NEW m \in Msgs
        PROVE  messages[m].retry_count + Permit("tx", m) + Permit("rx", m)
                 + Permit("sched", m) <= MaxRetries + 2
    <2>1. /\ Permit("tx", m) = 0 /\ Permit("rx", m) = 0 /\ Permit("sched", m) = 0
          /\ messages[m].retry_count = 0
      BY <1>2, <1>3 DEF Threads
    <2> QED  BY <2>1, RetriesAssumption
  <1> QED  BY <1>1, <1>4 DEF Budget

\* What a step may do to the copies: a thread gets a permit only by reading a
\* count below the limit, or keeps the one it has.
NoNewPermit ==
    \A m \in Msgs, t \in Threads :
        Holds(t, m)' => Holds(t, m) \/ messages[m].retry_count < MaxRetries

\* A thread starts its loop over fresh copies.
LEMMA BeginCopies ==
  ASSUME TypeOK, OneCopy, NEW t \in Threads, NEW S \in SUBSET Msgs,
         Begin(t, {Snapshot(m) : m \in S})
  PROVE  OneCopy' /\ NoNewPermit
  <1> DEFINE rows == {Snapshot(m) : m \in S}
  <1>1. /\ todo' = [todo EXCEPT ![t] = rows]
        /\ pc' = [pc EXCEPT ![t] = IF rows = {} THEN "idle" ELSE "loop"]
        /\ job' = [job EXCEPT ![t] = NoJob]
    BY DEF Begin, Goto
  <1>2. \A i \in rows : i.msg \in S /\ i = Snapshot(i.msg)
                         /\ i.retry = messages[i.msg].retry_count
    BY DEF Snapshot
  <1> HIDE DEF rows
  <1>3. OneCopy'
    BY <1>1, <1>2 DEF OneCopy, TypeOK
  <1>4. NoNewPermit
    BY <1>1, <1>2 DEF NoNewPermit, Holds, TypeOK
  <1> QED  BY <1>3, <1>4

\* A thread takes a copy off its loop and either drops it or goes on with it.
LEMMA TakeCopies ==
  ASSUME TypeOK, OneCopy, NEW t \in Threads, NEW i \in todo[t], Take(t, i),
         NEW label, NEW j, Goto(t, label, j),
         label \notin {"idle", "loop"} => j.msg = i.msg /\ j.retry = i.retry
  PROVE  OneCopy' /\ NoNewPermit
  <1>1. OneCopy'
    BY DEF Take, Goto, OneCopy, TypeOK
  <1>2. NoNewPermit
    BY DEF Take, Goto, NoNewPermit, Holds, TypeOK
  <1> QED  BY <1>1, <1>2

\* A thread goes on with the row it has; if it is about to report a failure, it
\* read the count of the row just now or had decided before.
LEMMA GoOnCopies ==
  ASSUME TypeOK, OneCopy, NEW t \in Threads, todo' = todo,
         NEW label, NEW j, Goto(t, label, j),
         label \notin {"idle", "loop"} => j.msg = job[t].msg /\ pc[t] \notin {"idle", "loop"},
         label \in {"drop", "fail", "try"} =>
             \/ j.retry = messages[j.msg].retry_count
             \/ pc[t] \in {"drop", "fail", "try"} /\ j.retry = job[t].retry
  PROVE  OneCopy' /\ NoNewPermit
  <1>1. OneCopy'
    BY DEF Goto, OneCopy, TypeOK
  <1>2. NoNewPermit
    BY DEF Goto, NoNewPermit, Holds, TypeOK
  <1> QED  BY <1>1, <1>2

LEMMA NextCopies == IInv /\ OneCopy /\ [Next]_vars => OneCopy' /\ NoNewPermit
  <1> SUFFICES ASSUME IInv, OneCopy, [Next]_vars PROVE OneCopy' /\ NoNewPermit
    OBVIOUS
  <1>0. TypeOK
    BY DEF IInv
  <1>1. CASE TxDrain
    <2> DEFINE S == {n \in Msgs : messages[n].state = "QUEUED"
                                   /\ messages[n].next_attempt_at # "future"}
    <2>1. Begin("tx", {Snapshot(m) : m \in S})
      BY <1>1 DEF TxDrain
    <2> QED  BY <2>1, <1>0, BeginCopies DEF Threads
  <1>2. ASSUME NEW i \in todo["tx"], NEW p \in Packets, NEW id \in Packets \cup {NoPacket},
               TxSend(i, p, id)
        PROVE  OneCopy' /\ NoNewPermit
    <2> DEFINE j == [i EXCEPT !.sent = p, !.packet = id]
    <2>1. i \in Job
      BY <1>0 DEF TypeOK, Threads
    <2>2. j.msg = i.msg /\ j.retry = i.retry
      BY <2>1 DEF Job
    <2>3. Take("tx", i) /\ Goto("tx", "record", j)
      BY <1>2 DEF TxSend
    <2> HIDE DEF j
    <2> QED  BY <2>2, <2>3, <1>0, TakeCopies DEF Threads
  <1>3. ASSUME NEW i \in todo["tx"], TxSendFails(i)
        PROVE  OneCopy' /\ NoNewPermit
    BY <1>3, <1>0, TakeCopies DEF TxSendFails, Threads
  <1>4. CASE TxRecord
    <2>1. \/ /\ Goto("tx", "register", job["tx"]) /\ pc["tx"] = "record"
          \/ \E label \in {"idle", "loop"} : Goto("tx", label, NoJob)
      BY <1>4 DEF TxRecord, Continue
    <2> QED  BY <1>4, <2>1, <1>0, GoOnCopies DEF TxRecord, Threads
  <1>5. CASE TxRegister
    <2>1. \/ \E reason : /\ Goto("tx", "replay", [job["tx"] EXCEPT !.reason = reason])
                         /\ pc["tx"] = "register"
          \/ \E label \in {"idle", "loop"} : Goto("tx", label, NoJob)
      BY <1>5 DEF TxRegister, Stashed, Continue
    <2>2. \A reason : [job["tx"] EXCEPT !.reason = reason].msg = job["tx"].msg
      BY <1>0 DEF TypeOK, Job, Threads
    <2> QED  BY <1>5, <2>1, <2>2, <1>0, GoOnCopies DEF TxRegister, Threads
  <1>6. ASSUME NEW t \in {"tx", "rx"}, NEW p \in Packets, NEW reason, todo' = todo,
               PopOrStash(t, p, reason),
               IF t = "tx" THEN pc[t] = "replay" /\ job[t].packet = p
                           ELSE pc[t] = "idle" /\ todo[t] = {}
        PROVE  OneCopy' /\ NoNewPermit
    <2> DEFINE j == [NoJob EXCEPT !.msg = inflight[p], !.packet = p, !.reason = reason]
    <2>1. \/ /\ Goto(t, "verify", j)
             /\ inflight[p] # NoMsg
          \/ \E label \in {"idle", "loop"} : Goto(t, label, NoJob)
      BY <1>6 DEF PopOrStash, Continue
    <2>2. j.msg = inflight[p]
      BY DEF NoJob
    <2> HIDE DEF j
    <2>3. CASE t = "tx"
      <3>1. inflight[p] # NoMsg => inflight[p] = job["tx"].msg
        BY <1>6, <2>3 DEF IInv, Replies, Bookkeeping
      <3> QED  BY <1>0, <1>6, <2>1, <2>2, <2>3, <3>1, GoOnCopies DEF Threads
    <2>4. CASE t = "rx"
      BY <1>0, <1>6, <2>1, <2>4 DEF Goto, OneCopy, NoNewPermit, Holds, TypeOK, Threads
    <2> QED  BY <2>3, <2>4
  <1>7. CASE TxReplay
    <2>1. job["tx"].packet \in Packets
      BY <1>7 DEF TxReplay, IInv, Replies
    <2> QED  BY <1>6, <1>7, <2>1 DEF TxReplay
  <1>8. ASSUME NEW p \in Packets, NEW reason \in Reasons, RxRouting(p, reason)
        PROVE  OneCopy' /\ NoNewPermit
    BY <1>6, <1>8 DEF RxRouting, IInv, Labels
  <1>9. ASSUME NEW t \in {"tx", "rx"}, Verify(t)
        PROVE  OneCopy' /\ NoNewPermit
    <2> DEFINE j == [job[t] EXCEPT !.retry = messages[job[t].msg].retry_count]
    <2>1. \/ \E label \in {"ack", "fail"} : Goto(t, label, j) /\ pc[t] = "verify"
          \/ \E label \in {"idle", "loop"} : Goto(t, label, NoJob)
      BY <1>9 DEF Verify, Verdict, Continue
    <2>2. j.msg = job[t].msg /\ j.retry = messages[job[t].msg].retry_count
      BY <1>0 DEF TypeOK, Job, Threads
    <2> HIDE DEF j
    <2> QED  BY <1>9, <2>1, <2>2, <1>0, GoOnCopies DEF Verify, Threads
  <1>10. ASSUME NEW t \in Threads, WriteAck(t) \/ SendFailure(t)
         PROVE  OneCopy' /\ NoNewPermit
    <2>1. todo' = todo /\ \E label \in {"idle", "loop"} : Goto(t, label, NoJob)
      BY <1>10 DEF WriteAck, SendFailure, Continue
    <2> QED  BY <2>1, <1>0, GoOnCopies
  <1>11. CASE SchedScan
    <2> DEFINE S == {n \in Msgs : Unsettled(messages[n])}
    <2>1. Begin("sched", {Snapshot(m) : m \in S})
      BY <1>11 DEF SchedScan
    <2> QED  BY <2>1, <1>0, BeginCopies DEF Threads
  <1>12. ASSUME NEW i \in todo["sched"], SchedCheck(i)
         PROVE  OneCopy' /\ NoNewPermit
    <2>1. \/ \E label \in {"drop", "try"} : Goto("sched", label, i)
          \/ \E label \in {"idle", "loop"} : Goto("sched", label, NoJob)
      BY <1>12 DEF SchedCheck, Continue
    <2> QED  BY <1>12, <2>1, <1>0, TakeCopies DEF SchedCheck, Threads
  <1>13. CASE SchedDrop
    BY <1>13, <1>0, GoOnCopies DEF SchedDrop, Threads
  <1>14. CASE Crash
    BY <1>14 DEF Crash, OneCopy, NoNewPermit, Holds, Threads
  <1>15. ASSUME NEW t \in Threads, DbFails(t)
         PROVE  OneCopy' /\ NoNewPermit
    <2>1. /\ todo' = todo \/ todo' = [todo EXCEPT ![t] = {}]
          /\ job' = [job EXCEPT ![t] = NoJob]
          /\ \E label \in {"idle", "loop"} : pc' = [pc EXCEPT ![t] = label]
      BY <1>15 DEF DbFails, Continue, Goto
    <2>2. OneCopy'
      BY <1>0, <2>1 DEF OneCopy, TypeOK
    <2>3. NoNewPermit
      BY <1>0, <2>1 DEF NoNewPermit, Holds, TypeOK
    <2> QED  BY <2>2, <2>3
  <1>16. CASE Clock \/ Clients \/ LinkChanges \/ UNCHANGED vars
    <2>1. UNCHANGED <<pc, job, todo>>
      BY <1>16 DEF Clock, LinkChanges, Age, BackoffElapses, Clients, Enqueue, Delete, Retry, vars, threads
    <2> QED  BY <2>1 DEF OneCopy, NoNewPermit, Holds
  <1> QED
    BY <1>1, <1>2, <1>3, <1>4, <1>5, <1>7, <1>8, <1>9, <1>10, <1>11, <1>12, <1>13,
       <1>14, <1>15, <1>16 DEF Next, Daemon, TxStep, RxStep, SchedStep, Threads

\* A failure reported with a count below the limit spends the thread's permit.
LEMMA FailureSpends ==
  ASSUME RInv, TypeOK', NEW t \in Threads, SendFailure(t), NoNewPermit
  PROVE  Budget'
  <1>0. PICK x \in Msgs : x = job[t].msg
    BY DEF RInv, IInv, Copies, SendFailure
  <1>1. /\ TypeOK /\ OneCopy /\ Budget
        /\ messages[x] \in Row
    BY DEF RInv, IInv, TypeOK
  <1>2. \A m \in Msgs : messages[m].retry_count \in Nat
    BY <1>1 DEF TypeOK, Row
  <1>3. /\ pc[t] \in {"fail", "try"} /\ todo' = todo
        /\ \E label \in {"idle", "loop"} : pc' = [pc EXCEPT ![t] = label]
        /\ job' = [job EXCEPT ![t] = NoJob]
    BY DEF SendFailure, Continue, Goto
  <1>4. CASE job[t].retry >= MaxRetries
    <2>1. messages' = [messages EXCEPT ![x] = GiveUp(messages[x])]
      BY <1>0, <1>4 DEF SendFailure, Failed
    <2>2. \A m \in Msgs : messages'[m].retry_count = messages[m].retry_count
      BY <1>1, <2>1, RowUpdates DEF TypeOK
    <2> QED  BY <1>1, <2>2, BudgetKept DEF NoNewPermit
  <1>5. CASE ~(job[t].retry >= MaxRetries)
    <2>1. job[t].retry < MaxRetries
      BY <1>1, <1>5, RetriesAssumption DEF TypeOK, Job
    <2>2. messages' = [messages EXCEPT ![x] = TryAgain(messages[x])]
      BY <1>0, <1>5 DEF SendFailure, Failed
    <2>3. /\ messages'[x].retry_count = messages[x].retry_count + 1
          /\ \A m \in Msgs \ {x} : messages'[m].retry_count = messages[m].retry_count
      BY <1>1, <2>2, RowUpdates DEF TypeOK
    <2>4. Permit(t, x) = 1 /\ Permit(t, x)' = 0
      BY <1>0, <1>1, <1>3, <2>1 DEF Permit, Holds, OneCopy, TypeOK
    <2>5. \A u \in Threads \ {t}, m \in Msgs : Permit(u, m)' = Permit(u, m)
      BY <1>0, <1>1, <1>3 DEF Permit, Holds, TypeOK
    <2>6. \A m \in Msgs \ {x} : Permit(t, m)' = Permit(t, m)
      BY <1>0, <1>1, <1>3 DEF Permit, Holds, TypeOK
    <2> SUFFICES ASSUME NEW m \in Msgs
                 PROVE  messages'[m].retry_count + Permit("tx", m)' + Permit("rx", m)'
                          + Permit("sched", m)' <= MaxRetries + 2
      BY DEF Budget
    <2>7. messages[m].retry_count + Permit("tx", m) + Permit("rx", m) + Permit("sched", m)
            <= MaxRetries + 2
      BY <1>1 DEF Budget
    <2>8. \A u \in Threads : Permit(u, m) \in {0, 1} /\ Permit(u, m)' \in {0, 1}
      BY DEF Permit
    <2>9. CASE m = x
      BY <1>2, <2>3, <2>4, <2>5, <2>7, <2>8, <2>9, RetriesAssumption DEF Threads
    <2>10. CASE m # x
      BY <1>2, <2>3, <2>5, <2>6, <2>7, <2>8, <2>10, RetriesAssumption DEF Threads
    <2> QED  BY <2>9, <2>10
  <1> QED  BY <1>4, <1>5

\* A user's retry starts the count again; nobody holds a permit if none exist.
LEMMA RetryRestarts ==
  ASSUME RInv, NEW m \in Msgs, Retry(m)
  PROVE  Budget'
  <1>1. TypeOK /\ Budget
    BY DEF RInv, IInv
  <1>2. /\ messages'[m].retry_count = 0
        /\ \A n \in Msgs \ {m} : messages'[n].retry_count = messages[n].retry_count
    BY <1>1, RowUpdates DEF Retry, TypeOK
  <1>3. \A t \in Threads, n \in Msgs : Permit(t, n)' = Permit(t, n) /\ Permit(t, n) \in {0, 1}
    BY DEF Retry, threads, Permit, Holds
  <1>4. \A t \in Threads : MaxRetries = 0 => Permit(t, m) = 0
    <2>1. \A t \in Threads : \A i \in todo[t] \cup {job[t]} : i.retry \in Nat
      BY <1>1 DEF TypeOK, Job
    <2> QED  BY <2>1, RetriesAssumption DEF Permit, Holds
  <1> SUFFICES ASSUME NEW n \in Msgs
               PROVE  messages'[n].retry_count + Permit("tx", n)' + Permit("rx", n)'
                        + Permit("sched", n)' <= MaxRetries + 2
    BY DEF Budget
  <1>5. CASE n = m
    BY <1>2, <1>3, <1>4, <1>5, RetriesAssumption DEF Threads
  <1>6. CASE n # m
    <2>1. messages[n].retry_count + Permit("tx", n) + Permit("rx", n) + Permit("sched", n)
            <= MaxRetries + 2
      BY <1>1 DEF Budget
    <2> QED  BY <1>2, <1>3, <1>6, <2>1 DEF Threads
  <1> QED  BY <1>5, <1>6

\* No other step touches a retry count.
LEMMA CountsKept ==
  ASSUME TypeOK, [Next]_vars,
         \A t \in Threads : ~SendFailure(t), \A m \in Msgs : ~Retry(m)
  PROVE  \A m \in Msgs : messages'[m].retry_count = messages[m].retry_count
  <1>1. ASSUME NEW m \in Msgs, Enqueue(m) \/ Delete(m) \/ BackoffElapses(m)
        PROVE  \A n \in Msgs : messages'[n].retry_count = messages[n].retry_count
    BY <1>1 DEF Enqueue, Delete, BackoffElapses, TypeOK, Row
  <1>2. ASSUME TxRecord \/ \E t \in {"tx", "rx"} : WriteAck(t)
        PROVE  \A n \in Msgs : messages'[n].retry_count = messages[n].retry_count
    BY <1>2 DEF TxRecord, WriteAck, TypeOK, Row
  <1> QED
    BY <1>1, <1>2 DEF Next, Daemon, TxStep, RxStep, SchedStep, Clock, Clients, vars,
       TxDrain, TxSend, TxSendFails, TxRegister, TxReplay, RxRouting, Verify,
       SchedScan, SchedCheck, SchedDrop, Age, Crash, LinkChanges, DbFails, Threads

LEMMA NextRInv == RInv /\ [Next]_vars => RInv'
  <1> SUFFICES ASSUME RInv, [Next]_vars PROVE RInv'
    OBVIOUS
  <1>1. IInv' /\ OneCopy' /\ NoNewPermit
    BY NextIInv, NextCopies DEF RInv
  <1>2. Budget'
    <2>1. CASE \E t \in Threads : SendFailure(t)
      BY <1>1, <2>1, FailureSpends DEF IInv
    <2>2. CASE \E m \in Msgs : Retry(m)
      BY <2>2, RetryRestarts
    <2>3. CASE /\ \A t \in Threads : ~SendFailure(t)
               /\ \A m \in Msgs : ~Retry(m)
      BY <1>1, <2>3, CountsKept, BudgetKept DEF RInv, IInv, NoNewPermit
    <2> QED  BY <2>1, <2>2, <2>3
  <1> QED  BY <1>1, <1>2 DEF RInv

\* max_retries is overshot by two at the most, for any number of messages,
\* packets, crashes, failed statements and user retries.
THEOREM RetryBounded == Spec => []RetryBudget
  <1>1. RInv => RetryBudget
    <2> SUFFICES ASSUME RInv, NEW m \in Msgs PROVE messages[m].retry_count <= MaxRetries + 2
      BY DEF RetryBudget
    <2>1. /\ messages[m].retry_count \in Nat
          /\ messages[m].retry_count + Permit("tx", m) + Permit("rx", m)
               + Permit("sched", m) <= MaxRetries + 2
      BY DEF RInv, IInv, Budget, TypeOK, Row
    <2>2. /\ Permit("tx", m) \in {0, 1} /\ Permit("rx", m) \in {0, 1}
          /\ Permit("sched", m) \in {0, 1}
      BY DEF Permit
    <2> QED  BY <2>1, <2>2, RetriesAssumption
  <1> QED  BY <1>1, InitRInv, NextRInv, PTL DEF Spec
=============================================================================

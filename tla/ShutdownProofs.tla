--------------------------- MODULE ShutdownProofs ---------------------------
(***************************************************************************)
(* Proofs about module Shutdown, for any number of queued messages and of  *)
(* failing statements: a drain that stop() finds under way is recorded,     *)
(* nobody waits in a circle, and only the scheduler keeps the daemon       *)
(* online.                                                                 *)
(***************************************************************************)
EXTENDS Shutdown, SequenceTheorems, TLAPS

Request == [from: Users, write: {"none", "beat", "SENT", "QUEUED"}, msg: Msgs \cup {NoMsg}]

Gone(u) == \/ u = "tx" /\ tx = "dead"
           \/ u = "sched" /\ sched = "dead"

\* A thread waits for DbThread, or has its answer, in the places where it
\* called execute().
Callers ==
    /\ reply["tx"] # "none" <=> tx \in {"select", "update"}
    /\ reply["sched"] # "none" <=> sched \in {"tick", "beat"}

Awaited(u) == reply[u] = "wait" \/ (db = "exited" /\ (reply[u] = "err" \/ Gone(u)))

\* A thread has one request in the queue at most, and waits for its answer
\* unless DbThread has gone.
Queued ==
    /\ \A i, j \in 1..Len(queue) : i # j => queue[i].from # queue[j].from
    /\ \A i \in 1..Len(queue), u \in Users : queue[i].from = u => Awaited(u)

\* A drain holds the lock.
Locking == lock = "tx" <=> tx \in {"select", "loop", "update"}

\* What stop() has done by then.
Stopped ==
    /\ (main \notin {"running", "draining", "killed"} /\ ~late) => lock = "free"
    /\ (~running \/ conn = "closed") => main \notin {"running", "draining"}
    /\ db = "exited" => ~running

\* Only TX writes to rows, a state to a row at a time.
Shaped(r) == /\ r.from = "sched" => r.msg = NoMsg /\ r.write \in {"none", "beat"}
             /\ r.msg # NoMsg => r.write \in {"SENT", "QUEUED"}
             /\ r.msg = NoMsg => r.write \in {"none", "beat"}

\* TX takes no message back that it has put on the air.
Writes ==
    /\ \A i \in 1..Len(queue) : Shaped(queue[i])
    /\ ~late => \A i \in 1..Len(queue) :
         queue[i].write = "QUEUED" => queue[i].msg \notin air \ refused
    /\ ~late => todo \cap (air \ refused) = {}

\* TX waits for the UPDATE that records m.
Recording(m) ==
    /\ tx = "update" /\ reply["tx"] = "wait"
    /\ \E i \in 1..Len(queue) : queue[i] = [from |-> "tx", write |-> "SENT", msg |-> m]

InFlight == ~late => \A m \in air \ refused : rows[m] = "SENT" \/ Recording(m)

IInv == TypeOK /\ Callers /\ Queued /\ Locking /\ Stopped /\ Writes /\ InFlight

-----------------------------------------------------------------------------
(* The queue                                                               *)

LEMMA QueueType ==
    TypeOK <=> /\ TypeOK
               /\ queue \in Seq(Request)
BY DEF TypeOK, Request

\* The request at the head is taken; the others move up.
LEMMA Taken ==
    ASSUME TypeOK, queue # <<>>, queue' = Tail(queue)
    PROVE  /\ Head(queue) = queue[1] /\ Head(queue) \in Request
           /\ Len(queue) \in Nat /\ Len(queue) >= 1
           /\ queue' \in Seq(Request) /\ Len(queue') = Len(queue) - 1
           /\ \A i \in 1..Len(queue') : queue'[i] = queue[i + 1] /\ i + 1 \in 1..Len(queue)
BY QueueType, HeadTailProperties, LenProperties, ElementOfSeq

\* A request is added at the end.
LEMMA Posted ==
    ASSUME TypeOK, NEW r \in Request, queue' = Append(queue, r)
    PROVE  /\ Len(queue) \in Nat
           /\ queue' \in Seq(Request) /\ Len(queue') = Len(queue) + 1
           /\ \A i \in 1..Len(queue) : queue'[i] = queue[i]
           /\ queue'[Len(queue) + 1] = r
BY QueueType, AppendProperties, LenProperties

LEMMA ShortQueue ==
    ASSUME NEW q \in Seq(Request),
           \A i, j \in 1..Len(q) : i # j => q[i].from # q[j].from
    PROVE  Len(q) <= 2
<1>1. \A i \in 1..Len(q) : q[i] \in Request
  BY ElementOfSeq
<1>2. \A i \in 1..Len(q) : q[i].from \in {"tx", "sched"}
  BY <1>1 DEF Request, Users
<1>3. Len(q) \in Nat
  BY LenProperties
<1>4. SUFFICES ASSUME Len(q) >= 3 PROVE FALSE
  BY <1>3
<1>5. 1 \in 1..Len(q) /\ 2 \in 1..Len(q) /\ 3 \in 1..Len(q)
  BY <1>3, <1>4
<1> QED BY <1>2, <1>5

-----------------------------------------------------------------------------
(* Every step keeps the invariant                                          *)

LEMMA InitIInv == Init => IInv
<1> SUFFICES ASSUME Init PROVE IInv
  OBVIOUS
<1>1. queue \in Seq(Request) /\ Len(queue) = 0
  BY DEF Init
<1>2. TypeOK
  <2>1. queue \in Seq([from: Users, write: {"none", "beat", "SENT", "QUEUED"},
                       msg: Msgs \cup {NoMsg}])
    BY <1>1 DEF Request
  <2>2. Len(queue) <= 2
    BY <1>1
  <2>3. /\ reply \in [Users -> {"none", "wait", "ok", "err"}]
        /\ rows \in [Msgs -> {"QUEUED", "SENT"}]
        /\ errors \in 0..MaxErrors
    BY ShutdownAssumption DEF Init
  <2> QED BY <2>1, <2>2, <2>3 DEF Init, TypeOK
<1> QED BY <1>1, <1>2 DEF Init, IInv, Callers, Queued, Locking, Stopped, Writes, InFlight, Users

\* The main thread goes on: it never leaves the wait for the drain while TX
\* holds the lock.
LEMMA StopIInv == IInv /\ (StopStep \/ Interrupt \/ Terminate) => IInv'
<1> SUFFICES ASSUME IInv, StopStep \/ Interrupt \/ Terminate PROVE IInv'
  OBVIOUS
<1> USE DEF IInv
<1>1. UNCHANGED <<lock, tx, todo, air, late, sched, queue, reply, db, rows, beat, errors, refused>>
  BY DEF StopStep, StopDrain, StopDisconnect, StopDb, StopJoin, StopClose, Exit, Stop,
         Interrupt, Terminate, drain, answers
<1>2. /\ main' \in {"draining", "disconnecting", "stopping", "joining", "closing", "leaving",
                    "exited", "killed"}
      /\ shutdown' \in BOOLEAN /\ running' \in BOOLEAN /\ connected' \in BOOLEAN
      /\ conn' \in {"open", "closed"}
  BY DEF TypeOK, StopStep, StopDrain, StopDisconnect, StopDb, StopJoin, StopClose, Exit, Stop,
         Interrupt, Terminate
<1>3. TypeOK'
  BY <1>1, <1>2 DEF TypeOK
<1>4. Stopped'
  BY <1>1 DEF Stopped, StopStep, StopDrain, StopDisconnect, StopDb, StopJoin, StopClose, Exit,
              Stop, Drained, Interrupt, Terminate
<1> QED BY <1>1, <1>3, <1>4 DEF Callers, Queued, Awaited, Gone, Locking, Writes, InFlight, Recording

\* Steps that neither call execute() nor take an answer.
LEMMA LookIInv == IInv /\ (BeatAges \/ DbCheck \/ TxCheck) => IInv'
<1> SUFFICES ASSUME IInv, BeatAges \/ DbCheck \/ TxCheck PROVE IInv'
  OBVIOUS
<1> USE DEF IInv
<1>1. UNCHANGED <<stopping, lock, todo, air, late, sched, queue, reply, rows, errors, refused>>
  BY DEF BeatAges, DbCheck, TxCheck, drain, answers
<1>2. /\ tx' \in {"check", "lock", "select", "loop", "update", "done", "dead"}
      /\ tx' # tx => tx = "check" /\ tx' \in {"lock", "done"}
      /\ db' \in {"check", "get", "exited"} /\ beat' \in {"fresh", "stale"}
      /\ db' # db => db # "exited" \/ db' = "exited"
      /\ db = "exited" => db' = "exited"
      /\ (db' = "exited" /\ db # "exited") => ~running
  BY DEF TypeOK, BeatAges, DbCheck, TxCheck, drain, answers
<1>3. TypeOK'
  BY <1>1, <1>2 DEF TypeOK, stopping
<1>4. Callers' /\ Locking' /\ Stopped'
  BY <1>1, <1>2 DEF Callers, Locking, Stopped, stopping
<1>5. Queued'
  BY <1>1, <1>2 DEF Queued, Awaited, Gone
<1>6. Writes' /\ InFlight'
  BY <1>1, <1>2 DEF Writes, InFlight, Recording
<1> QED BY <1>3, <1>4, <1>5, <1>6

\* A thread that got its answer, or waits for none, has nothing in the queue.
LEMMA Unqueued ==
    ASSUME IInv, NEW u \in Users, reply[u] \in {"none", "ok"}, ~Gone(u)
    PROVE  \A i \in 1..Len(queue) : queue[i].from # u
BY DEF IInv, Queued, Awaited

\* A thread takes the answer.
LEMMA AnsweredIInv == IInv /\ (TxGoesOn \/ TxDies \/ SchedEnds) => IInv'
<1> SUFFICES ASSUME IInv, TxGoesOn \/ TxDies \/ SchedEnds PROVE IInv'
  OBVIOUS
<1> USE DEF IInv
<1>1. /\ UNCHANGED <<stopping, queue, db, rows, beat, errors, refused, air, late>>
      /\ Alive
  BY DEF TxGoesOn, TxDies, SchedEnds, drain, answers
<1>2. PICK u \in Users :
        /\ reply[u] \in {"ok", "err"} /\ reply' = [reply EXCEPT ![u] = "none"]
        /\ u = "tx" => UNCHANGED sched
        /\ u = "sched" => UNCHANGED <<tx, lock, todo>>
        /\ u = "tx" => /\ tx \in {"select", "update"} /\ tx' \in {"check", "loop", "dead"}
                       /\ reply[u] = "err" => tx' = "dead"
                       /\ tx' = "loop" => lock' = lock
                       /\ tx' # "loop" => lock' = "free"
                       /\ \/ todo' = {}
                          \/ todo' = todo
                          \/ tx = "select" /\ todo' = {m \in Msgs : rows[m] = "QUEUED"}
        /\ u = "sched" => /\ sched \in {"tick", "beat"} /\ sched' \in {"idle", "dead"}
                          /\ reply[u] = "err" => sched' = "dead"
  <2>1. CASE TxGoesOn
    BY <2>1 DEF TxGoesOn, Answered, NextRow, Users
  <2>2. CASE TxDies
    BY <2>2 DEF TxDies, Answered, Users, Callers
  <2>3. CASE SchedEnds
    BY <2>3 DEF SchedEnds, Answered, Users, Callers, drain
  <2> QED BY <2>1, <2>2, <2>3
<1>3. reply \in [Users -> {"none", "wait", "ok", "err"}]
  BY DEF TypeOK
<1>4. reply'[u] = "none" /\ \A v \in Users \ {u} : reply'[v] = reply[v]
  BY <1>2, <1>3
<1>5. TypeOK'
  <2>1. /\ reply' \in [Users -> {"none", "wait", "ok", "err"}]
        /\ todo' \subseteq Msgs
        /\ lock' \in {"free", "tx"}
        /\ tx' \in {"check", "lock", "select", "loop", "update", "done", "dead"}
        /\ sched' \in {"idle", "tick", "beat", "done", "dead"}
    BY <1>2, <1>3 DEF TypeOK, Users
  <2> QED BY <1>1, <2>1 DEF TypeOK, stopping
<1>6. Callers' /\ Locking'
  BY <1>2, <1>4 DEF Callers, Locking, Users
<1>7. Stopped'
  BY <1>1, <1>2 DEF Stopped, Locking, stopping, Users, TypeOK
<1>8. Queued'
  <2>1. SUFFICES ASSUME NEW v \in Users, Awaited(v) PROVE Awaited(v)'
    BY <1>1 DEF Queued
  <2>2. CASE v = u
    BY <1>1, <1>2, <2>1, <2>2 DEF Awaited, Gone, Users
  <2>3. CASE v # u
    BY <1>1, <1>2, <1>4, <2>1, <2>3 DEF Awaited, Gone, Users
  <2> QED BY <2>2, <2>3
<1>9. ~late => todo' \cap (air \ refused) = {}
  BY <1>2 DEF Writes, InFlight, Recording, TypeOK, Users
<1>10. Writes' /\ InFlight'
  BY <1>1, <1>2, <1>4, <1>9 DEF Writes, InFlight, Recording, Users
<1> QED BY <1>5, <1>6, <1>7, <1>8, <1>10

\* What execute() puts in the queue keeps it well formed.
LEMMA Enqueued ==
    ASSUME IInv, NEW r \in Request, reply[r.from] \in {"none", "ok"}, ~Gone(r.from),
           queue' = Append(queue, r), reply' = [reply EXCEPT ![r.from] = "wait"],
           UNCHANGED db, \A u \in Users : Gone(u) => Gone(u)'
    PROVE  /\ queue' \in Seq(Request) /\ Len(queue') <= 2
           /\ reply' \in [Users -> {"none", "wait", "ok", "err"}]
           /\ Queued'
           /\ reply'[r.from] = "wait" /\ \A u \in Users \ {r.from} : reply'[u] = reply[u]
<1> USE DEF IInv
<1>1. r.from \in Users
  BY DEF Request
<1>2. /\ Len(queue) \in Nat
      /\ queue' \in Seq(Request) /\ Len(queue') = Len(queue) + 1
      /\ \A i \in 1..Len(queue) : queue'[i] = queue[i]
      /\ queue'[Len(queue) + 1] = r
  BY Posted
<1>3. reply \in [Users -> {"none", "wait", "ok", "err"}]
  BY DEF TypeOK
<1>4. /\ reply' \in [Users -> {"none", "wait", "ok", "err"}]
      /\ reply'[r.from] = "wait" /\ \A u \in Users \ {r.from} : reply'[u] = reply[u]
  BY <1>1, <1>3
<1>5. \A i \in 1..Len(queue) : queue[i].from # r.from
  BY <1>1, Unqueued
<1>6. \A i \in 1..Len(queue') : i \in 1..Len(queue) \/ (i = Len(queue) + 1 /\ queue'[i] = r)
  BY <1>2
<1>7. \A i, j \in 1..Len(queue') : i # j => queue'[i].from # queue'[j].from
  <2>1. SUFFICES ASSUME NEW i \in 1..Len(queue'), NEW j \in 1..Len(queue'), i # j
                 PROVE  queue'[i].from # queue'[j].from
    OBVIOUS
  <2>2. CASE i \in 1..Len(queue) /\ j \in 1..Len(queue)
    BY <1>2, <2>1, <2>2 DEF Queued
  <2>3. CASE i \in 1..Len(queue) /\ j \notin 1..Len(queue)
    BY <1>2, <1>5, <1>6, <2>3
  <2>4. CASE i \notin 1..Len(queue) /\ j \in 1..Len(queue)
    BY <1>2, <1>5, <1>6, <2>4
  <2>5. CASE i \notin 1..Len(queue) /\ j \notin 1..Len(queue)
    BY <1>6, <2>1, <2>5
  <2> QED BY <2>2, <2>3, <2>4, <2>5
<1>8. \A i \in 1..Len(queue'), u \in Users : queue'[i].from = u => Awaited(u)'
  <2>1. SUFFICES ASSUME NEW i \in 1..Len(queue'), NEW u \in Users, queue'[i].from = u
                 PROVE  Awaited(u)'
    OBVIOUS
  <2>2. CASE u = r.from
    BY <1>4, <2>2 DEF Awaited
  <2>3. CASE u # r.from
    <3>1. i \in 1..Len(queue) /\ queue[i].from = u
      BY <1>2, <1>6, <2>1, <2>3
    <3>2. Awaited(u)
      BY <3>1 DEF Queued
    <3> QED BY <1>4, <2>3, <3>2 DEF Awaited
  <2> QED BY <2>2, <2>3
<1>9. Queued'
  BY <1>7, <1>8 DEF Queued
<1>10. Len(queue') <= 2
  BY <1>2, <1>7, ShortQueue
<1> QED BY <1>2, <1>4, <1>9, <1>10

\* The new request is one of the old ones or the one that was posted.
LEMMA OneMore ==
    ASSUME TypeOK, NEW r \in Request, queue' = Append(queue, r)
    PROVE  /\ \A i \in 1..Len(queue') : queue'[i] = r \/ \E j \in 1..Len(queue) : queue'[i] = queue[j]
           /\ \A i \in 1..Len(queue) : i \in 1..Len(queue') /\ queue'[i] = queue[i]
           /\ \E i \in 1..Len(queue') : queue'[i] = r
<1>1. /\ Len(queue) \in Nat
      /\ Len(queue') = Len(queue) + 1
      /\ \A i \in 1..Len(queue) : queue'[i] = queue[i]
      /\ queue'[Len(queue) + 1] = r
  BY Posted
<1>2. Len(queue) + 1 \in 1..Len(queue')
  BY <1>1
<1>3. \A i \in 1..Len(queue') : i \in 1..Len(queue) \/ i = Len(queue) + 1
  BY <1>1
<1>4. \A i \in 1..Len(queue) : i \in 1..Len(queue')
  BY <1>1
<1> QED BY <1>1, <1>2, <1>3, <1>4

\* The scheduler calls execute(), or ends.
LEMMA SchedIInv == IInv /\ (SchedTick \/ SchedBeat) => IInv'
<1> SUFFICES ASSUME IInv, SchedTick \/ SchedBeat PROVE IInv'
  OBVIOUS
<1> USE DEF IInv
<1>1. UNCHANGED <<stopping, drain, answers>>
  BY DEF SchedTick, SchedBeat
<1>2. CASE sched = "idle" /\ sched' = "done" /\ UNCHANGED <<queue, reply>>
  <2>1. \A u \in Users : Awaited(u) => Awaited(u)'
    BY <1>1, <1>2 DEF Awaited, Gone, answers, drain
  <2> QED BY <1>1, <1>2, <2>1 DEF TypeOK, Callers, Queued, Locking, Stopped, Writes, InFlight,
                                Recording, stopping, drain, answers
<1>3. CASE ~(sched = "idle" /\ sched' = "done" /\ UNCHANGED <<queue, reply>>)
  <2>1. PICK w \in {"none", "beat"} :
          LET r == [from |-> "sched", write |-> w, msg |-> NoMsg]
          IN  /\ sched \in {"idle", "tick"} /\ sched' \in {"tick", "beat"}
              /\ reply["sched"] \in {"none", "ok"}
              /\ queue' = Append(queue, r) /\ reply' = [reply EXCEPT !["sched"] = "wait"]
    <3>1. CASE SchedTick
      BY <1>3, <3>1 DEF SchedTick, Post, Callers, TypeOK, Users
    <3>2. CASE SchedBeat
      BY <3>2 DEF SchedBeat, Post
    <3> QED BY <3>1, <3>2
  <2> DEFINE r == [from |-> "sched", write |-> w, msg |-> NoMsg]
  <2>2. r \in Request /\ r.from = "sched" /\ Shaped(r) /\ r.write # "QUEUED" /\ ~Gone("sched")
    BY <2>1 DEF Request, Users, Shaped, Gone
  <2>3. UNCHANGED db /\ \A u \in Users : Gone(u) => Gone(u)'
    BY <1>1, <2>1 DEF Gone, drain, answers
  <2>4. queue' = Append(queue, r) /\ reply' = [reply EXCEPT ![r.from] = "wait"]
    BY <2>1
  <2> HIDE DEF r
  <2>5. /\ queue' \in Seq(Request) /\ Len(queue') <= 2
        /\ reply' \in [Users -> {"none", "wait", "ok", "err"}]
        /\ Queued'
        /\ reply'["sched"] = "wait" /\ \A u \in Users \ {"sched"} : reply'[u] = reply[u]
    BY <2>1, <2>2, <2>3, <2>4, Enqueued
  <2>6. /\ \A i \in 1..Len(queue') : queue'[i] = r \/ \E j \in 1..Len(queue) : queue'[i] = queue[j]
        /\ \A i \in 1..Len(queue) : i \in 1..Len(queue') /\ queue'[i] = queue[i]
    BY <2>2, <2>4, OneMore
  <2>7. TypeOK'
    BY <1>1, <2>1, <2>5 DEF TypeOK, Request, stopping, drain, answers
  <2>8. Callers' /\ Locking' /\ Stopped'
    BY <1>1, <2>1, <2>5 DEF Callers, Locking, Stopped, Users, stopping, drain, answers
  <2>9. Writes'
    BY <1>1, <2>2, <2>6 DEF Writes, drain, answers
  <2>10. \A m : Recording(m) => Recording(m)'
    BY <1>1, <2>5, <2>6 DEF Recording, Users, drain
  <2>11. InFlight'
    BY <1>1, <2>10 DEF InFlight, drain, answers
  <2> QED BY <2>5, <2>7, <2>8, <2>9, <2>11
<1> QED BY <1>2, <1>3

\* TX begins a drain.
LEMMA TxLockIInv == IInv /\ TxLock => IInv'
<1> SUFFICES ASSUME IInv, TxLock PROVE IInv'
  OBVIOUS
<1> USE DEF IInv
<1> DEFINE r == [from |-> "tx", write |-> "none", msg |-> NoMsg]
<1>1. /\ UNCHANGED <<stopping, todo, air, sched, answers>>
      /\ tx = "lock" /\ tx' = "select" /\ lock = "free" /\ lock' = "tx" /\ Alive
      /\ late' = (late \/ main \notin {"running", "draining"})
      /\ queue' = Append(queue, r) /\ reply' = [reply EXCEPT !["tx"] = "wait"]
  BY DEF TxLock, Post
<1>2. /\ r \in Request /\ r.from = "tx" /\ Shaped(r) /\ r.write # "QUEUED" /\ ~Gone("tx")
      /\ reply["tx"] = "none"
  BY <1>1 DEF Request, Users, Shaped, Gone, Callers
<1>3. UNCHANGED db /\ \A u \in Users : Gone(u) => Gone(u)'
  BY <1>1 DEF Gone, answers
<1>4. queue' = Append(queue, r) /\ reply' = [reply EXCEPT ![r.from] = "wait"]
  BY <1>1
<1> HIDE DEF r
<1>5. /\ queue' \in Seq(Request) /\ Len(queue') <= 2
      /\ reply' \in [Users -> {"none", "wait", "ok", "err"}]
      /\ Queued'
      /\ reply'["tx"] = "wait" /\ \A u \in Users \ {"tx"} : reply'[u] = reply[u]
  BY <1>2, <1>3, <1>4, Enqueued
<1>6. \A i \in 1..Len(queue') : queue'[i] = r \/ \E j \in 1..Len(queue) : queue'[i] = queue[j]
  BY <1>2, <1>4, OneMore
<1>7. TypeOK'
  BY <1>1, <1>5 DEF TypeOK, Request, stopping, answers
<1>8. Callers' /\ Locking' /\ Stopped'
  BY <1>1, <1>5 DEF Callers, Locking, Stopped, Users, stopping, answers, Alive
<1>9. Writes'
  BY <1>1, <1>2, <1>6 DEF Writes, answers
<1>10. InFlight'
  BY <1>1 DEF InFlight, Recording, answers
<1> QED BY <1>5, <1>7, <1>8, <1>9, <1>10

\* TX puts a message on the air, or fails to, and asks DbThread to say so.
LEMMA TxSendIInv == IInv /\ (\E m \in todo : TxSend(m)) => IInv'
<1> SUFFICES ASSUME IInv, NEW m \in todo, TxSend(m) PROVE IInv'
  OBVIOUS
<1> USE DEF IInv
<1>1. PICK w \in {"SENT", "QUEUED"} :
        LET r == [from |-> "tx", write |-> w, msg |-> m]
        IN  /\ UNCHANGED <<stopping, lock, late, sched, answers>>
            /\ tx = "loop" /\ tx' = "update" /\ todo' = todo \ {m}
            /\ air' = IF w = "SENT" THEN air \cup {m} ELSE air
            /\ queue' = Append(queue, r) /\ reply' = [reply EXCEPT !["tx"] = "wait"]
  BY DEF TxSend, Post
<1> DEFINE r == [from |-> "tx", write |-> w, msg |-> m]
<1>2. m \in Msgs /\ m # NoMsg
  BY ShutdownAssumption DEF TypeOK
<1>3. /\ r \in Request /\ r.from = "tx" /\ r.msg = m /\ r.write = w
      /\ Shaped(r) /\ ~Gone("tx")
      /\ reply["tx"] = "none"
  BY <1>1, <1>2 DEF Request, Users, Shaped, Gone, Callers
<1>4. UNCHANGED db /\ \A u \in Users : Gone(u) => Gone(u)'
  BY <1>1 DEF Gone, answers
<1>5. queue' = Append(queue, r) /\ reply' = [reply EXCEPT ![r.from] = "wait"]
  BY <1>1
<1>6. r = [from |-> "tx", write |-> w, msg |-> m]
  OBVIOUS
<1> HIDE DEF r
<1>7. /\ queue' \in Seq(Request) /\ Len(queue') <= 2
      /\ reply' \in [Users -> {"none", "wait", "ok", "err"}]
      /\ Queued'
      /\ reply'["tx"] = "wait" /\ \A u \in Users \ {"tx"} : reply'[u] = reply[u]
  BY <1>3, <1>4, <1>5, Enqueued
<1>8. /\ \A i \in 1..Len(queue') : queue'[i] = r \/ \E j \in 1..Len(queue) : queue'[i] = queue[j]
      /\ \E i \in 1..Len(queue') : queue'[i] = r
  BY <1>3, <1>5, OneMore
<1>9. TypeOK'
  <2>1. todo' \subseteq Msgs /\ air' \subseteq Msgs
    BY <1>1, <1>2 DEF TypeOK
  <2> QED BY <1>1, <1>7, <2>1 DEF TypeOK, Request, stopping, answers
<1>10. Callers' /\ Locking' /\ Stopped'
  BY <1>1, <1>7 DEF Callers, Locking, Stopped, Users, stopping, answers
<1>11. \A j \in 1..Len(queue) : queue[j].write # "QUEUED"
  <2>1. SUFFICES ASSUME NEW j \in 1..Len(queue), queue[j].write = "QUEUED" PROVE FALSE
    OBVIOUS
  <2>2. queue[j] \in Request
    BY QueueType, ElementOfSeq
  <2>3. Shaped(queue[j]) /\ queue[j].from # "tx"
    BY <1>3, Unqueued DEF Writes, Users
  <2> QED BY <2>1, <2>2, <2>3 DEF Shaped, Request, Users
<1>12. Writes'
  <2>1. \A i \in 1..Len(queue') : Shaped(queue'[i])
    BY <1>3, <1>8 DEF Writes
  <2>2. ASSUME ~late'
        PROVE  \A i \in 1..Len(queue') : queue'[i].write = "QUEUED" => queue'[i].msg \notin air' \ refused'
    <3>1. \A i \in 1..Len(queue') : queue'[i].write = "QUEUED" => queue'[i] = r
      BY <1>8, <1>11
    <3>2. w = "QUEUED" => m \notin air' \ refused'
      BY <1>1, <2>2 DEF Writes, answers
    <3> QED BY <1>3, <3>1, <3>2
  <2>3. ~late' => todo' \cap (air' \ refused') = {}
    BY <1>1 DEF Writes, answers
  <2> QED BY <2>1, <2>2, <2>3 DEF Writes
<1>13. InFlight'
  <2>1. SUFFICES ASSUME ~late', NEW n \in air' \ refused'
                 PROVE  rows'[n] = "SENT" \/ Recording(n)'
    BY DEF InFlight
  <2>2. CASE n \in air
    BY <1>1, <2>1, <2>2 DEF InFlight, Recording, answers
  <2>3. CASE n \notin air
    <3>1. n = m /\ w = "SENT"
      BY <1>1, <2>1, <2>3
    <3> QED BY <1>1, <1>6, <1>7, <1>8, <3>1 DEF Recording
  <2> QED BY <2>2, <2>3
<1> QED BY <1>7, <1>9, <1>10, <1>12, <1>13

\* DbThread ends only once stop() has waited for the drain, so that no UPDATE
\* of that drain is left unanswered.
LEMMA TimesOutIInv == IInv /\ (\E u \in Users : ExecuteTimesOut(u)) => IInv'
<1> SUFFICES ASSUME IInv, NEW u \in Users, ExecuteTimesOut(u) PROVE IInv'
  OBVIOUS
<1> USE DEF IInv
<1>1. /\ UNCHANGED <<stopping, drain, sched, queue, answers>>
      /\ Alive /\ db = "exited" /\ reply[u] = "wait" /\ reply' = [reply EXCEPT ![u] = "err"]
  BY DEF ExecuteTimesOut
<1>2. reply \in [Users -> {"none", "wait", "ok", "err"}]
  BY DEF TypeOK
<1>3. /\ reply' \in [Users -> {"none", "wait", "ok", "err"}]
      /\ reply'[u] = "err" /\ \A v \in Users \ {u} : reply'[v] = reply[v]
  BY <1>1, <1>2
<1>4. TypeOK'
  BY <1>1, <1>3 DEF TypeOK, stopping, drain, answers
<1>5. Callers' /\ Locking' /\ Stopped'
  BY <1>1, <1>3 DEF Callers, Locking, Stopped, Users, stopping, drain, answers
<1>6. \A v \in Users : Awaited(v) => Awaited(v)'
  BY <1>1, <1>3 DEF Awaited, Gone, drain, answers
<1>7. Queued'
  BY <1>1, <1>6 DEF Queued
<1>8. ~late => tx # "update"
  BY <1>1 DEF Stopped, Locking, Alive
<1>9. Writes' /\ InFlight'
  BY <1>1, <1>8 DEF Writes, InFlight, Recording, drain, answers
<1> QED BY <1>4, <1>5, <1>7, <1>9

\* DbThread takes the request at the head and answers it.  An UPDATE to SENT
\* that does not take place is one the open database refused: stop() closes
\* the connection after it has waited for the drain.
LEMMA DbServeIInv == IInv /\ DbServe => IInv'
<1> SUFFICES ASSUME IInv, DbServe PROVE IInv'
  OBVIOUS
<1> USE DEF IInv
<1> DEFINE r == Head(queue)
<1>1. /\ UNCHANGED <<stopping, drain, sched>>
      /\ Alive /\ db = "get" /\ db' = "check" /\ queue # <<>> /\ queue' = Tail(queue)
  BY DEF DbServe
<1>2. \/ /\ rows' = IF r.msg = NoMsg THEN rows ELSE [rows EXCEPT ![r.msg] = r.write]
         /\ beat' \in {beat, "fresh"}
         /\ reply' = [reply EXCEPT ![r.from] = "ok"]
         /\ UNCHANGED <<errors, refused>>
      \/ /\ conn = "closed" \/ errors < MaxErrors
         /\ errors' = IF conn = "open" THEN errors + 1 ELSE errors
         /\ refused' = IF conn = "open" THEN refused \cup ({r.msg} \ {NoMsg}) ELSE refused
         /\ reply' = [reply EXCEPT ![r.from] = "err"]
         /\ UNCHANGED <<rows, beat>>
  BY DEF DbServe, Answer
<1>3. /\ r = queue[1] /\ r \in Request /\ 1 \in 1..Len(queue)
      /\ Len(queue) \in Nat
      /\ queue' \in Seq(Request) /\ Len(queue') = Len(queue) - 1
      /\ \A i \in 1..Len(queue') : queue'[i] = queue[i + 1] /\ i + 1 \in 1..Len(queue)
  BY <1>1, Taken
<1> HIDE DEF r
<1>4. /\ r.from \in Users /\ Shaped(r)
      /\ r.msg # NoMsg => r.msg \in Msgs /\ r.write \in {"SENT", "QUEUED"}
  BY <1>3 DEF Request, Writes, Shaped
<1>5. reply[r.from] = "wait"
  BY <1>1, <1>3, <1>4 DEF Queued, Awaited
<1>6. reply \in [Users -> {"none", "wait", "ok", "err"}]
  BY DEF TypeOK
<1>7. /\ reply' \in [Users -> {"none", "wait", "ok", "err"}]
      /\ reply'[r.from] \in {"ok", "err"}
      /\ \A u \in Users \ {r.from} : reply'[u] = reply[u]
  BY <1>2, <1>4, <1>6
<1>8. TypeOK'
  <2>1. rows' \in [Msgs -> {"QUEUED", "SENT"}] /\ beat' \in {"fresh", "stale"}
    BY <1>2, <1>4 DEF TypeOK
  <2>2. errors' \in 0..MaxErrors
    BY <1>2, ShutdownAssumption DEF TypeOK
  <2>3. refused' \subseteq Msgs
    BY <1>2, <1>4 DEF TypeOK
  <2>4. Len(queue') <= 2
    BY <1>3 DEF TypeOK
  <2> QED BY <1>1, <1>3, <1>7, <2>1, <2>2, <2>3, <2>4 DEF TypeOK, Request, stopping, drain
<1>9. Callers' /\ Locking' /\ Stopped'
  BY <1>1, <1>5, <1>7 DEF Callers, Locking, Stopped, Users, stopping, drain
<1>10. \A i \in 1..Len(queue') : queue'[i].from # r.from
  BY <1>3 DEF Queued
<1>11. Queued'
  <2>1. \A i, j \in 1..Len(queue') : i # j => queue'[i].from # queue'[j].from
    <3>1. SUFFICES ASSUME NEW i \in 1..Len(queue'), NEW j \in 1..Len(queue'), i # j
                   PROVE  queue'[i].from # queue'[j].from
      OBVIOUS
    <3>2. i + 1 # j + 1
      BY <1>3, <3>1
    <3> QED BY <1>3, <3>2 DEF Queued
  <2>2. SUFFICES ASSUME NEW i \in 1..Len(queue'), NEW u \in Users, queue'[i].from = u
                 PROVE  Awaited(u)'
    BY <2>1 DEF Queued
  <2>3. u # r.from /\ Awaited(u)
    BY <1>3, <1>10, <2>2 DEF Queued
  <2> QED BY <1>1, <1>7, <2>3 DEF Awaited
<1>12. refused \subseteq refused'
  BY <1>2
<1>13. Writes'
  <2>1. \A i \in 1..Len(queue') : Shaped(queue'[i])
    BY <1>3 DEF Writes
  <2>2. ~late' => \A i \in 1..Len(queue') :
          queue'[i].write = "QUEUED" => queue'[i].msg \notin air' \ refused'
    BY <1>1, <1>3, <1>12 DEF Writes, drain
  <2>3. ~late' => todo' \cap (air' \ refused') = {}
    BY <1>1, <1>12 DEF Writes, drain
  <2> QED BY <2>1, <2>2, <2>3 DEF Writes
<1>14. InFlight'
  <2>1. SUFFICES ASSUME ~late, NEW m \in air \ refused, m \notin refused'
                 PROVE  rows'[m] = "SENT" \/ Recording(m)'
    BY <1>1, <1>12 DEF InFlight, drain
  <2>2. m \in Msgs /\ m # NoMsg
    BY ShutdownAssumption DEF TypeOK
  <2>3. r.msg = m => r.write = "SENT"
    BY <1>3, <1>4, <2>1, <2>2 DEF Writes
  <2>4. CASE rows[m] = "SENT"
    BY <1>2, <1>4, <2>2, <2>3, <2>4 DEF TypeOK
  <2>5. CASE Recording(m)
    <3>1. PICK i \in 1..Len(queue) : queue[i] = [from |-> "tx", write |-> "SENT", msg |-> m]
      BY <2>5 DEF Recording
    <3>2. CASE i = 1
      <4>1. r = [from |-> "tx", write |-> "SENT", msg |-> m]
        BY <1>3, <3>1, <3>2
      <4>2. conn = "open"
        BY <1>1, <2>1, <2>5 DEF Recording, Stopped, Locking, Alive, TypeOK
      <4> QED BY <1>2, <2>1, <2>2, <4>1, <4>2 DEF TypeOK
    <3>3. CASE i # 1
      <4>1. i - 1 \in 1..Len(queue') /\ queue'[i - 1] = queue[i]
        BY <1>3, <3>3
      <4>2. r.from # "tx"
        BY <1>3, <3>1, <3>3 DEF Queued
      <4> QED BY <1>1, <1>7, <2>5, <3>1, <4>1, <4>2 DEF Recording, drain, Users
    <3> QED BY <3>2, <3>3
  <2> QED BY <2>1, <2>4, <2>5 DEF InFlight
<1> QED BY <1>8, <1>9, <1>11, <1>13, <1>14

-----------------------------------------------------------------------------
\* The invariant holds in every reachable state.
THEOREM Invariance == Spec => []IInv
<1>1. Init => IInv
  BY InitIInv
<1>2. IInv /\ [Next]_vars => IInv'
  <2>1. SUFFICES ASSUME IInv, [Next]_vars PROVE IInv'
    OBVIOUS
  <2>2. CASE UNCHANGED vars
    <3>1. UNCHANGED <<shutdown, main, running, conn, connected, lock, tx, todo, sched, queue,
                      reply, db, rows, beat, errors, air, late, refused>>
      BY <2>2 DEF vars, stopping, drain, answers
    <3> QED BY <2>1, <3>1 DEF IInv, TypeOK, Callers, Queued, Awaited, Gone, Locking, Stopped,
                              Writes, InFlight, Recording
  <2>3. CASE DbStep
    BY <2>1, <2>3, LookIInv, DbServeIInv DEF DbStep
  <2>4. CASE TxStep
    BY <2>1, <2>4, LookIInv, TxLockIInv, AnsweredIInv, TxSendIInv DEF TxStep
  <2>5. CASE SchedStep
    BY <2>1, <2>5, SchedIInv, AnsweredIInv DEF SchedStep
  <2>6. CASE StopStep \/ Interrupt \/ Terminate
    BY <2>1, <2>6, StopIInv
  <2>7. CASE BeatAges \/ \E u \in Users : ExecuteTimesOut(u)
    BY <2>1, <2>7, LookIInv, TimesOutIInv
  <2> QED BY <2>1, <2>2, <2>3, <2>4, <2>5, <2>6, <2>7 DEF Next
<1> QED BY <1>1, <1>2, PTL DEF Spec

\* Every variable keeps its type; in particular DbThread never has more than
\* one request of a thread in its queue.
THEOREM TypeCorrect == Spec => []TypeOK
<1>1. IInv => TypeOK
  BY DEF IInv
<1> QED BY <1>1, Invariance, PTL

\* A drain that was under way when Daemon.stop() was called is recorded before
\* the process ends: what it put on the air is SENT in the database, unless the
\* database refused the UPDATE of that very message.
THEOREM InFlightIsRecorded == Spec => []InFlightRecorded
<1>1. IInv => InFlightRecorded
  BY DEF IInv, InFlightRecorded, InFlight, Recording, Recorded, Stopped, Locking
<1> QED BY <1>1, Invariance, PTL
-----------------------------------------------------------------------------
(* Who waits for whom                                                      *)

\* A drain that goes on has a row to send, and DbThread has lost no request.
Waiting ==
    /\ tx = "loop" => todo # {}
    /\ \A u \in Users : reply[u] = "wait" => \E i \in 1..Len(queue) : queue[i].from = u

\* A heartbeat in the queue is the scheduler's, which waits for it or has died
\* of DbThread's end.
Beating == \A i \in 1..Len(queue) :
             queue[i].write = "beat" => queue[i].from = "sched" /\ sched \in {"beat", "dead"}

WInv == Waiting /\ Beating

LEMMA InitWInv == Init => WInv
BY DEF Init, WInv, Waiting, Beating

\* Steps that leave the queue and the replies alone.
LEMMA LookWInv ==
    IInv /\ WInv /\ (StopStep \/ Interrupt \/ Terminate \/ BeatAges \/ DbCheck \/ TxCheck) => WInv'
<1> SUFFICES ASSUME WInv, StopStep \/ Interrupt \/ Terminate \/ BeatAges \/ DbCheck \/ TxCheck
             PROVE  WInv'
  OBVIOUS
<1>1. /\ UNCHANGED <<todo, sched, queue, reply>>
      /\ tx' = "loop" => tx = "loop"
      /\ db = "exited" => db' = "exited"
  BY DEF StopStep, StopDrain, StopDisconnect, StopDb, StopJoin, StopClose, Exit, Stop,
         Interrupt, Terminate, BeatAges, DbCheck, TxCheck, drain, answers
<1> QED BY <1>1 DEF WInv, Waiting, Beating

\* A thread takes the answer, and has nothing in the queue then.
LEMMA AnsweredWInv ==
    IInv /\ WInv /\ (TxGoesOn \/ TxDies \/ SchedEnds \/ \E u \in Users : ExecuteTimesOut(u)) => WInv'
<1> SUFFICES ASSUME IInv, WInv, TxGoesOn \/ TxDies \/ SchedEnds \/ \E u \in Users : ExecuteTimesOut(u)
             PROVE  WInv'
  OBVIOUS
<1>1. reply \in [Users -> {"none", "wait", "ok", "err"}]
  BY DEF IInv, TypeOK
<1>2. /\ UNCHANGED <<queue, db>>
      /\ \A u \in Users : reply'[u] = "wait" => reply[u] = "wait"
  BY <1>1 DEF TxGoesOn, TxDies, SchedEnds, ExecuteTimesOut, Answered, drain, answers, Users
<1>3. tx' = "loop" => todo' # {}
  BY DEF TxGoesOn, TxDies, SchedEnds, ExecuteTimesOut, NextRow, drain, WInv, Waiting
<1>4. Waiting'
  BY <1>2, <1>3 DEF WInv, Waiting
<1>5. CASE sched' = sched
  BY <1>2, <1>4, <1>5 DEF WInv, Beating
<1>6. CASE sched' = "dead"
  BY <1>2, <1>4, <1>6 DEF WInv, Beating
<1>7. CASE sched = "beat" /\ reply["sched"] = "ok" /\ sched' = "idle"
  <2>1. \A i \in 1..Len(queue) : queue[i].from # "sched"
    BY <1>7, Unqueued DEF Gone, Users
  <2> QED BY <1>2, <1>4, <2>1 DEF WInv, Beating
<1>8. sched' = sched \/ sched' = "dead" \/ (sched = "beat" /\ reply["sched"] = "ok" /\ sched' = "idle")
  BY DEF TxGoesOn, TxDies, SchedEnds, ExecuteTimesOut, Answered, drain
<1> QED BY <1>4, <1>5, <1>6, <1>7, <1>8 DEF WInv

\* A thread calls execute().
LEMMA EnqueuedWInv ==
    ASSUME IInv, WInv, NEW r \in Request,
           queue' = Append(queue, r), reply' = [reply EXCEPT ![r.from] = "wait"],
           UNCHANGED db, tx' = "loop" => tx = "loop" /\ UNCHANGED todo,
           r.write = "beat" => r.from = "sched",
           r.from = "sched" => \/ r.write = "beat" /\ sched' = "beat"
                               \/ r.write = "none" /\ \A i \in 1..Len(queue) : queue[i].from # "sched",
           r.from # "sched" => UNCHANGED sched
    PROVE  WInv'
<1>1. /\ \A i \in 1..Len(queue') : queue'[i] = r \/ \E j \in 1..Len(queue) : queue'[i] = queue[j]
      /\ \A i \in 1..Len(queue) : i \in 1..Len(queue') /\ queue'[i] = queue[i]
      /\ \E i \in 1..Len(queue') : queue'[i] = r
  BY OneMore DEF IInv
<1>2. \A u \in Users \ {r.from} : reply'[u] = reply[u]
  BY DEF IInv, TypeOK
<1>3. Waiting'
  BY <1>1, <1>2 DEF WInv, Waiting
<1>4. Beating'
  BY <1>1 DEF WInv, Beating
<1> QED BY <1>3, <1>4 DEF WInv

LEMMA PostWInv ==
    IInv /\ WInv /\ (TxLock \/ (\E m \in todo : TxSend(m)) \/ SchedTick \/ SchedBeat) => WInv'
<1> SUFFICES ASSUME IInv, WInv, TxLock \/ (\E m \in todo : TxSend(m)) \/ SchedTick \/ SchedBeat
             PROVE  WInv'
  OBVIOUS
<1>1. todo \subseteq Msgs
  BY DEF IInv, TypeOK
<1>2. CASE TxLock
  <2> DEFINE r == [from |-> "tx", write |-> "none", msg |-> NoMsg]
  <2>1. /\ r \in Request /\ r.from = "tx" /\ r.write = "none"
        /\ queue' = Append(queue, r) /\ reply' = [reply EXCEPT ![r.from] = "wait"]
        /\ UNCHANGED <<db, sched>> /\ tx' = "select"
    BY <1>2 DEF TxLock, Post, Request, Users, answers
  <2> HIDE DEF r
  <2> QED BY <2>1, EnqueuedWInv
<1>3. CASE \E m \in todo : TxSend(m)
  <2>1. PICK m \in todo, w \in {"SENT", "QUEUED"} :
          /\ queue' = Append(queue, [from |-> "tx", write |-> w, msg |-> m])
          /\ reply' = [reply EXCEPT !["tx"] = "wait"]
          /\ UNCHANGED <<db, sched>> /\ tx' = "update"
    BY <1>3 DEF TxSend, Post, answers
  <2> DEFINE r == [from |-> "tx", write |-> w, msg |-> m]
  <2>2. /\ r \in Request /\ r.from = "tx" /\ r.write = w
        /\ queue' = Append(queue, r) /\ reply' = [reply EXCEPT ![r.from] = "wait"]
    BY <1>1, <2>1 DEF Request, Users
  <2> HIDE DEF r
  <2> QED BY <2>1, <2>2, EnqueuedWInv
<1>4. CASE SchedTick /\ sched' = "done"
  BY <1>4 DEF SchedTick, WInv, Waiting, Beating, drain, answers
<1>5. CASE SchedTick /\ sched' # "done"
  <2> DEFINE r == [from |-> "sched", write |-> "none", msg |-> NoMsg]
  <2>1. /\ r \in Request /\ r.from = "sched" /\ r.write = "none"
        /\ queue' = Append(queue, r) /\ reply' = [reply EXCEPT ![r.from] = "wait"]
        /\ UNCHANGED <<db, tx, todo>> /\ sched = "idle"
    BY <1>5 DEF SchedTick, Post, Request, Users, drain, answers
  <2>2. \A i \in 1..Len(queue) : queue[i].from # "sched"
    <3>1. reply["sched"] \in {"none", "ok"}
      BY <2>1 DEF IInv, TypeOK, Callers, Users
    <3> QED BY <2>1, <3>1, Unqueued DEF Gone, Users
  <2> HIDE DEF r
  <2> QED BY <2>1, <2>2, EnqueuedWInv
<1>6. CASE SchedBeat
  <2> DEFINE r == [from |-> "sched", write |-> "beat", msg |-> NoMsg]
  <2>1. /\ r \in Request /\ r.from = "sched" /\ r.write = "beat"
        /\ queue' = Append(queue, r) /\ reply' = [reply EXCEPT ![r.from] = "wait"]
        /\ UNCHANGED <<db, tx, todo>> /\ sched' = "beat"
    BY <1>6 DEF SchedBeat, Post, Request, Users, drain, answers
  <2> HIDE DEF r
  <2> QED BY <2>1, EnqueuedWInv
<1> QED BY <1>2, <1>3, <1>4, <1>5, <1>6

\* DbThread answers the one whose request it takes.
LEMMA DbServeWInv == IInv /\ WInv /\ DbServe => WInv'
<1> SUFFICES ASSUME IInv, WInv, DbServe PROVE WInv'
  OBVIOUS
<1> DEFINE r == Head(queue)
<1>1. /\ UNCHANGED <<drain, sched>>
      /\ db = "get" /\ queue # <<>> /\ queue' = Tail(queue)
      /\ \/ reply' = [reply EXCEPT ![r.from] = "ok"]
         \/ reply' = [reply EXCEPT ![r.from] = "err"]
  BY DEF DbServe, Answer
<1>2. /\ r = queue[1] /\ r \in Request
      /\ Len(queue) \in Nat /\ Len(queue') = Len(queue) - 1
      /\ \A i \in 1..Len(queue') : queue'[i] = queue[i + 1] /\ i + 1 \in 1..Len(queue)
  BY <1>1, Taken DEF IInv
<1> HIDE DEF r
<1>3. r.from \in Users
  BY <1>2 DEF Request
<1>4. /\ reply'[r.from] \in {"ok", "err"}
      /\ \A u \in Users \ {r.from} : reply'[u] = reply[u]
  BY <1>1, <1>3 DEF IInv, TypeOK
<1>5. \A u \in Users : reply'[u] = "wait" => \E i \in 1..Len(queue') : queue'[i].from = u
  <2>1. SUFFICES ASSUME NEW u \in Users, reply'[u] = "wait"
                 PROVE  \E i \in 1..Len(queue') : queue'[i].from = u
    OBVIOUS
  <2>2. u # r.from /\ reply[u] = "wait"
    BY <1>4, <2>1
  <2>3. PICK i \in 1..Len(queue) : queue[i].from = u
    BY <1>1, <2>2 DEF WInv, Waiting
  <2>4. i # 1
    BY <1>2, <2>2, <2>3
  <2>5. i - 1 \in 1..Len(queue') /\ queue'[i - 1] = queue[i]
    BY <1>2, <2>4
  <2> QED BY <2>3, <2>5
<1>6. Waiting'
  BY <1>1, <1>5 DEF WInv, Waiting, drain
<1>7. Beating'
  BY <1>1, <1>2 DEF WInv, Beating
<1> QED BY <1>6, <1>7 DEF WInv

THEOREM WaitInvariance == Spec => [](IInv /\ WInv)
<1>1. Init => WInv
  BY InitWInv
<1>2. IInv /\ WInv /\ [Next]_vars => WInv'
  <2>1. SUFFICES ASSUME IInv, WInv, [Next]_vars PROVE WInv'
    OBVIOUS
  <2>2. CASE UNCHANGED vars
    BY <2>1, <2>2 DEF vars, drain, answers, WInv, Waiting, Beating
  <2>3. CASE Next
    BY <2>1, <2>3, LookWInv, AnsweredWInv, PostWInv, DbServeWInv DEF Next, DbStep, TxStep, SchedStep
  <2> QED BY <2>1, <2>2, <2>3
<1> QED BY <1>1, <1>2, Invariance, PTL DEF Spec

\* stop() and the threads never wait for each other in a circle: while stop()
\* waits for the drain lock, the drain that holds it can go on or is waiting for
\* a DbThread that runs and has its request (Daemon.stop, DbThread.execute).
THEOREM NoCircle == Spec => []NoCircularWait
<1>1. IInv /\ WInv => NoCircularWait
  <2> SUFFICES ASSUME IInv, WInv PROVE NoCircularWait
    OBVIOUS
  <2>1. ASSUME main = "draining", lock # "free"
        PROVE  /\ db # "exited"
               /\ reply["tx"] # "none" \/ (tx = "loop" /\ todo # {})
    <3>1. tx \in {"select", "loop", "update"}
      BY <2>1 DEF IInv, TypeOK, Locking
    <3> QED BY <2>1, <3>1 DEF IInv, Stopped, Callers, WInv, Waiting
  <2> QED BY <2>1 DEF NoCircularWait, WInv, Waiting
<1> QED BY <1>1, WaitInvariance, PTL

\* Only the last statement of a tick brings the daemon back online in the TUI,
\* while the scheduler waits for it: no statement of TX does, nor a tick that
\* fails before its end, nor a request that is served when its caller has gone.
OnlineBySchedulerOnly ==
    [][beat = "stale" /\ beat' = "fresh" => sched = "beat" /\ reply["sched"] = "wait"]_vars

\* is_daemon_online goes back to true only by the statement that ends a tick,
\* while the scheduler is alive and waits for it.
THEOREM OnlineByScheduler == Spec => OnlineBySchedulerOnly
<1>1. IInv /\ WInv /\ [Next]_vars =>
        [beat = "stale" /\ beat' = "fresh" => sched = "beat" /\ reply["sched"] = "wait"]_vars
  <2> SUFFICES ASSUME IInv, WInv, Next, beat = "stale", beat' = "fresh"
               PROVE  sched = "beat" /\ reply["sched"] = "wait"
    OBVIOUS
  <2>1. DbServe
    BY DEF Next, DbStep, DbCheck, TxStep, TxCheck, TxLock, TxGoesOn, TxDies, TxSend, SchedStep,
           SchedTick, SchedBeat, SchedEnds, StopStep, StopDrain, StopDisconnect, StopDb, StopJoin,
           StopClose, Exit, Stop, ExecuteTimesOut, BeatAges, Interrupt, Terminate, answers
  <2>2. Head(queue).write = "beat" /\ db = "get" /\ queue # <<>> /\ queue' = Tail(queue)
    BY <2>1 DEF DbServe, Beats
  <2>3. Head(queue) = queue[1] /\ 1 \in 1..Len(queue)
    BY <2>2, Taken DEF IInv
  <2>4. queue[1].from = "sched" /\ sched \in {"beat", "dead"}
    BY <2>2, <2>3 DEF WInv, Beating
  <2>5. reply["sched"] = "wait"
    BY <2>2, <2>3, <2>4 DEF IInv, Queued, Awaited, Users
  <2>6. sched # "dead"
    BY <2>5 DEF IInv, Callers
  <2> QED BY <2>4, <2>5, <2>6
<1> QED BY <1>1, WaitInvariance, PTL DEF Spec, OnlineBySchedulerOnly
-----------------------------------------------------------------------------
(* execute() is atomic                                                     *)

\* Nobody's call changes where queue and reply stay as they are.
LEMMA AskedSame == ASSUME UNCHANGED <<queue, reply>>, NEW u PROVE Asked(u)' = Asked(u)
BY DEF Asked

\* A thread calls execute(): it asks for that statement and no other.
LEMMA AskedPosted ==
    ASSUME IInv, NEW r \in Request, reply[r.from] \in {"none", "ok"}, ~Gone(r.from),
           queue' = Append(queue, r), reply' = [reply EXCEPT ![r.from] = "wait"]
    PROVE  \A u \in Users : Asked(u)' = IF u = r.from THEN {r} ELSE Asked(u)
<1>1. /\ Len(queue) \in Nat /\ Len(queue') = Len(queue) + 1
      /\ \A i \in 1..Len(queue) : queue'[i] = queue[i]
      /\ queue'[Len(queue) + 1] = r
  BY Posted DEF IInv
<1>2. r.from \in Users
  BY DEF Request
<1>3. \A i \in 1..Len(queue) : queue[i].from # r.from
  BY <1>2, Unqueued
<1>4. \A u \in Users : reply'[u] = IF u = r.from THEN "wait" ELSE reply[u]
  BY <1>2 DEF IInv, TypeOK
<1>5. \A i \in 1..Len(queue') : i \in 1..Len(queue) \/ i = Len(queue) + 1
  BY <1>1
<1>6. \A i \in 1..Len(queue) : i \in 1..Len(queue')
  BY <1>1
<1>7. Len(queue) + 1 \in 1..Len(queue')
  BY <1>1
<1>8. ASSUME NEW u \in Users, u # r.from
      PROVE  Asked(u)' = Asked(u)
  <2> DEFINE Old == {j \in 1..Len(queue) : queue[j].from = u}
             New == {j \in 1..Len(queue') : queue'[j].from = u}
  <2>1. \A i \in 1..Len(queue') : queue'[i].from = u => i \in 1..Len(queue)
    BY <1>1, <1>5, <1>8
  <2>2. New = Old
    BY <1>1, <1>6, <2>1
  <2>3. \A i \in Old : queue'[i] = queue[i]
    BY <1>1
  <2>4. {queue'[i] : i \in New} = {queue[i] : i \in Old}
    <3> HIDE DEF Old, New
    <3> QED BY <2>2, <2>3
  <2> QED BY <1>4, <1>8, <2>4 DEF Asked
<1>9. Asked(r.from)' = {r}
  <2>1. \A i \in 1..Len(queue') : queue'[i].from = r.from => i = Len(queue) + 1
    BY <1>1, <1>3, <1>5
  <2>2. {j \in 1..Len(queue') : queue'[j].from = r.from} = {Len(queue) + 1}
    BY <1>1, <1>7, <2>1
  <2> QED BY <1>1, <1>2, <1>4, <2>2 DEF Asked
<1> QED BY <1>8, <1>9

\* A thread that hears an answer asks for nothing; nobody else is concerned.
LEMMA AskedAnswered ==
    ASSUME IInv, NEW u \in Users, NEW answer \in {"none", "ok", "err"},
           reply' = [reply EXCEPT ![u] = answer], UNCHANGED queue
    PROVE  \A v \in Users : Asked(v)' = IF v = u THEN {} ELSE Asked(v)
<1>1. \A v \in Users : reply'[v] = IF v = u THEN answer ELSE reply[v]
  BY DEF IInv, TypeOK
<1> QED BY <1>1 DEF Asked

\* DbThread serves what the caller asked for.
LEMMA AskedServed ==
    ASSUME IInv, queue # <<>>, queue' = Tail(queue), db # "exited",
           NEW answer \in {"ok", "err"}, reply' = [reply EXCEPT ![Head(queue).from] = answer]
    PROVE  LET r == Head(queue)
           IN  /\ r.from \in Users /\ reply[r.from] = "wait" /\ Asked(r.from) = {r}
               /\ \A u \in Users : Asked(u)' = IF u = r.from THEN {} ELSE Asked(u)
<1> DEFINE r == Head(queue)
<1>1. /\ r = queue[1] /\ r \in Request /\ 1 \in 1..Len(queue)
      /\ Len(queue) \in Nat /\ Len(queue') = Len(queue) - 1
      /\ \A i \in 1..Len(queue') : queue'[i] = queue[i + 1] /\ i + 1 \in 1..Len(queue)
  BY Taken DEF IInv
<1>2. reply' = [reply EXCEPT ![r.from] = answer]
  OBVIOUS
<1> HIDE DEF r
<1>3. r.from \in Users
  BY <1>1 DEF Request
<1>4. reply[r.from] = "wait"
  BY <1>1, <1>3 DEF IInv, Queued, Awaited
<1>5. \A u \in Users : reply'[u] = IF u = r.from THEN answer ELSE reply[u]
  BY <1>2, <1>3 DEF IInv, TypeOK
<1>6. Asked(r.from) = {r}
  <2>1. \A i \in 1..Len(queue) : queue[i].from = r.from => i = 1
    BY <1>1 DEF IInv, Queued
  <2>2. {j \in 1..Len(queue) : queue[j].from = r.from} = {1}
    BY <1>1, <2>1
  <2> QED BY <1>1, <1>4, <2>2 DEF Asked
<1>7. \A u \in Users : u = r.from => Asked(u)' = {}
  BY <1>5 DEF Asked
<1>8. ASSUME NEW u \in Users, u # r.from
      PROVE  Asked(u)' = Asked(u)
  <2> DEFINE Old == {j \in 1..Len(queue) : queue[j].from = u}
             New == {j \in 1..Len(queue') : queue'[j].from = u}
  <2>1. \A j \in New : j + 1 \in Old /\ queue'[j] = queue[j + 1]
    BY <1>1
  <2>2. \A j \in Old : j - 1 \in New /\ queue[j] = queue'[j - 1]
    <3>1. SUFFICES ASSUME NEW j \in Old PROVE j - 1 \in New /\ queue[j] = queue'[j - 1]
      OBVIOUS
    <3>2. j # 1 /\ j \in 1..Len(queue) /\ queue[j].from = u
      BY <1>1, <1>8
    <3>3. j - 1 \in 1..Len(queue') /\ (j - 1) + 1 = j
      BY <1>1, <3>2
    <3>4. queue'[j - 1] = queue[j]
      BY <1>1, <3>3
    <3>5. j - 1 \in New
      BY <3>2, <3>3, <3>4
    <3> HIDE DEF New
    <3> QED BY <3>4, <3>5
  <2>3. {queue[i] : i \in Old} = {queue'[i] : i \in New}
    <3>1. \A j \in New : \E i \in Old : queue'[j] = queue[i]
      BY <2>1
    <3>2. \A j \in Old : \E i \in New : queue[j] = queue'[i]
      BY <2>2
    <3> HIDE DEF Old, New
    <3>3. ASSUME NEW x \in {queue[i] : i \in Old}
          PROVE  x \in {queue'[i] : i \in New}
      <4>1. PICK j \in Old : x = queue[j]
        OBVIOUS
      <4>2. PICK i \in New : x = queue'[i]
        BY <3>2, <4>1
      <4> QED BY <4>2
    <3>4. ASSUME NEW x \in {queue'[i] : i \in New}
          PROVE  x \in {queue[i] : i \in Old}
      <4>1. PICK j \in New : x = queue'[j]
        OBVIOUS
      <4>2. PICK i \in Old : x = queue[i]
        BY <3>1, <4>1
      <4> QED BY <4>2
    <3> QED BY <3>3, <3>4
  <2> QED BY <1>5, <1>8, <2>3 DEF Asked
<1> QED BY <1>3, <1>4, <1>6, <1>7, <1>8 DEF r

Asking == [u \in Users |-> Asked(u)]

\* The abstract function changes in one place.
LEMMA AskingExcept ==
    ASSUME NEW v \in Users, NEW S, \A u \in Users : Asked(u)' = IF u = v THEN S ELSE Asked(u)
    PROVE  Asking' = [Asking EXCEPT ![v] = S]
BY DEF Asking

LEMMA CallStep ==
    ASSUME IInv, NEW r \in Request, r \in Statements[r.from],
           reply[r.from] \in {"none", "ok"}, ~Gone(r.from),
           queue' = Append(queue, r), reply' = [reply EXCEPT ![r.from] = "wait"],
           UNCHANGED <<db, rows, beat>>
    PROVE  \E u \in Users : Calls!Call(u)
<1>1. r.from \in Users
  BY DEF Request
<1>2. Asking' = [Asking EXCEPT ![r.from] = {r}]
  BY <1>1, AskedPosted, AskingExcept
<1> QED BY <1>1, <1>2 DEF Calls!Call, Asking

LEMMA PostStep ==
    ASSUME IInv, TxLock \/ (\E m \in todo : TxSend(m)) \/ (SchedTick /\ sched' # "done") \/ SchedBeat
    PROVE  \E u \in Users : Calls!Call(u)
<1> DEFINE R(u, w, n) == [from |-> u, write |-> w, msg |-> n]
           Calling(r) == /\ r \in Request /\ r \in Statements[r.from]
                        /\ reply[r.from] \in {"none", "ok"} /\ ~Gone(r.from)
                        /\ queue' = Append(queue, r)
                        /\ reply' = [reply EXCEPT ![r.from] = "wait"]
<1>1. /\ todo \subseteq Msgs
      /\ UNCHANGED <<db, rows, beat>>
  BY DEF IInv, TypeOK, TxLock, TxSend, SchedTick, SchedBeat, answers
<1>2. \E r \in Request : Calling(r)
  <2>1. CASE TxLock
    <3>1. R("tx", "none", NoMsg) \in Request /\ R("tx", "none", NoMsg) \in Statements["tx"]
      BY DEF Request, Statements, Users
    <3>2. Calling(R("tx", "none", NoMsg))
      BY <2>1, <3>1 DEF TxLock, Post, IInv, Callers, Gone
    <3> QED BY <3>1, <3>2
  <2>2. ASSUME NEW m \in todo, TxSend(m) PROVE \E r \in Request : Calling(r)
    <3>1. PICK w \in {"SENT", "QUEUED"} : Post("tx", w, m)
      BY <2>2 DEF TxSend
    <3>2. R("tx", w, m) \in Request /\ R("tx", w, m) \in Statements["tx"]
      BY <1>1 DEF Request, Statements, Users
    <3>3. Calling(R("tx", w, m))
      BY <2>2, <3>1, <3>2 DEF TxSend, Post, IInv, Callers, Gone
    <3> QED BY <3>2, <3>3
  <2>3. ASSUME NEW w \in {"none", "beat"}, Post("sched", w, NoMsg),
               sched # "dead", reply["sched"] \in {"none", "ok"}
        PROVE  \E r \in Request : Calling(r)
    <3>1. R("sched", w, NoMsg) \in Request /\ R("sched", w, NoMsg) \in Statements["sched"]
      BY DEF Request, Statements, Users
    <3>2. Calling(R("sched", w, NoMsg))
      BY <2>3, <3>1 DEF Post, Gone
    <3> QED BY <3>1, <3>2
  <2>4. CASE SchedTick /\ sched' # "done"
    BY <2>3, <2>4 DEF SchedTick, IInv, Callers
  <2>5. CASE SchedBeat
    BY <2>3, <2>5 DEF SchedBeat
  <2> QED BY <2>1, <2>2, <2>4, <2>5
<1> QED BY <1>1, <1>2, CallStep

LEMMA ServeStep == IInv /\ DbServe => \E u \in Users : Calls!Execute(u) \/ Calls!Raise(u)
<1> SUFFICES ASSUME IInv, DbServe PROVE \E u \in Users : Calls!Execute(u) \/ Calls!Raise(u)
  OBVIOUS
<1> DEFINE r == Head(queue)
<1>1. PICK answer \in {"ok", "err"} :
        /\ db = "get" /\ db' = "check" /\ queue # <<>> /\ queue' = Tail(queue)
        /\ reply' = [reply EXCEPT ![r.from] = answer]
        /\ answer = "ok" =>
             /\ rows' = IF r.msg = NoMsg THEN rows ELSE [rows EXCEPT ![r.msg] = r.write]
             /\ beat' = IF r.write = "beat" THEN "fresh" ELSE beat
        /\ answer = "err" => UNCHANGED <<rows, beat>>
  BY DEF DbServe, Answer, Beats
<1>2. /\ r.from \in Users /\ reply[r.from] = "wait" /\ Asked(r.from) = {r}
      /\ \A u \in Users : Asked(u)' = IF u = r.from THEN {} ELSE Asked(u)
  BY <1>1, AskedServed
<1> HIDE DEF r
<1>3. Asking' = [Asking EXCEPT ![r.from] = {}] /\ Asking[r.from] = {r}
  BY <1>2, AskingExcept DEF Asking
<1>4. Calls!Answer(r.from, answer)
  BY <1>1, <1>2, <1>3 DEF Calls!Answer, Asking
<1>5. CASE answer = "ok"
  <2>1. Calls!Execute(r.from)
    BY <1>1, <1>3, <1>4, <1>5 DEF Calls!Execute, Asking
  <2> QED BY <1>2, <2>1
<1>6. CASE answer = "err"
  <2>1. Calls!Raise(r.from)
    BY <1>1, <1>4, <1>6 DEF Calls!Raise
  <2> QED BY <1>2, <2>1
<1> QED BY <1>5, <1>6

LEMMA ReturnStep ==
    IInv /\ (TxGoesOn \/ TxDies \/ SchedEnds) => \E u \in Users : Calls!Return(u)
<1> SUFFICES ASSUME IInv, TxGoesOn \/ TxDies \/ SchedEnds PROVE \E u \in Users : Calls!Return(u)
  OBVIOUS
<1>1. PICK u \in Users : /\ reply[u] \in {"ok", "err"} /\ reply' = [reply EXCEPT ![u] = "none"]
                         /\ UNCHANGED <<queue, db, rows, beat>>
  BY DEF TxGoesOn, TxDies, SchedEnds, Answered, Users, answers
<1>2. \A v \in Users : Asked(v)' = Asked(v)
  <2>1. Asked(u) = {}
    BY <1>1 DEF Asked
  <2> QED BY <1>1, <2>1, AskedAnswered
<1>3. Asking' = Asking
  BY <1>2 DEF Asking
<1> QED BY <1>1, <1>3 DEF Calls!Return, Asking

LEMMA GiveUpStep ==
    IInv /\ (\E u \in Users : ExecuteTimesOut(u)) => \E u \in Users : Calls!GiveUp(u)
<1> SUFFICES ASSUME IInv, NEW u \in Users, ExecuteTimesOut(u) PROVE Calls!GiveUp(u)
  OBVIOUS
<1>1. /\ db = "exited" /\ reply[u] = "wait" /\ reply' = [reply EXCEPT ![u] = "err"]
      /\ UNCHANGED <<queue, db, rows, beat>>
  BY DEF ExecuteTimesOut, answers
<1>2. Asking' = [Asking EXCEPT ![u] = {}]
  BY <1>1, AskedAnswered, AskingExcept
<1> QED BY <1>1, <1>2 DEF Calls!GiveUp, Calls!Answer, Asking

\* DbThread ends on an empty queue, so nobody has a call.
LEMMA EndStep == DbCheck => Calls!End \/ UNCHANGED Calls!vars
<1> SUFFICES ASSUME DbCheck PROVE Calls!End \/ UNCHANGED Calls!vars
  OBVIOUS
<1>1. UNCHANGED <<queue, reply, rows, beat>>
  BY DEF DbCheck
<1>2. Asking' = Asking
  BY <1>1, AskedSame DEF Asking
<1>3. CASE db' = "exited"
  <2>1. Len(queue) = 0
    BY <1>3 DEF DbCheck
  <2>2. \A u \in Users : Asked(u) = {}
    BY <2>1 DEF Asked
  <2> QED BY <1>1, <1>2, <1>3, <2>2 DEF Calls!End, Asking
<1>4. CASE db' # "exited"
  <2>1. db # "exited"
    BY <1>4 DEF DbCheck
  <2> QED BY <1>1, <1>2, <1>4, <2>1 DEF Calls!vars, Asking
<1> QED BY <1>3, <1>4

LEMMA HiddenSteps ==
    ASSUME \/ StopStep \/ Interrupt \/ Terminate \/ TxCheck \/ (SchedTick /\ sched' = "done")
           \/ BeatAges \/ UNCHANGED vars
    PROVE  Calls!Age \/ UNCHANGED Calls!vars
<1>1. UNCHANGED <<queue, reply, db, rows>> /\ (beat' = beat \/ beat' = "stale")
  BY DEF StopStep, StopDrain, StopDisconnect, StopDb, StopJoin, StopClose, Exit, Stop,
         Interrupt, Terminate, TxCheck, SchedTick, BeatAges, vars, answers
<1>2. Asking' = Asking
  BY <1>1, AskedSame DEF Asking
<1> QED BY <1>1, <1>2 DEF Calls!Age, Calls!vars, Asking

\* The two threads, the queue and DbThread implement atomic calls of execute(),
\* while the daemon runs and while it stops, whatever statements fail.
THEOREM CallsRefined == Spec => ImplementsCalls
<1>1. Init => Calls!Init
  <2> SUFFICES ASSUME Init PROVE Calls!Init
    OBVIOUS
  <2>1. \A u \in Users : Asked(u) = {}
    BY DEF Init, Asked
  <2> QED BY <2>1 DEF Init, Calls!Init
<1>2. IInv /\ [Next]_vars => [Calls!Next]_Calls!vars
  <2> SUFFICES ASSUME IInv, [Next]_vars PROVE Calls!Next \/ UNCHANGED Calls!vars
    OBVIOUS
  <2>1. CASE DbStep
    BY <2>1, EndStep, ServeStep DEF DbStep, Calls!Next
  <2>2. CASE TxStep
    BY <2>2, HiddenSteps, PostStep, ReturnStep DEF TxStep, Calls!Next
  <2>3. CASE SchedStep
    BY <2>3, HiddenSteps, PostStep, ReturnStep DEF SchedStep, Calls!Next
  <2>4. CASE \E u \in Users : ExecuteTimesOut(u)
    BY <2>4, GiveUpStep DEF Calls!Next
  <2>5. CASE StopStep \/ Interrupt \/ Terminate \/ BeatAges \/ UNCHANGED vars
    BY <2>5, HiddenSteps DEF Calls!Next
  <2> QED BY <2>1, <2>2, <2>3, <2>4, <2>5 DEF Next
<1> QED BY <1>1, <1>2, Invariance, PTL DEF Spec, ImplementsCalls, Calls!Spec
=============================================================================

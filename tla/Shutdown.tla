------------------------------ MODULE Shutdown ------------------------------
(***************************************************************************)
(* DbThread and the threads that live by it: the TX loop, which drains the *)
(* outbox under a lock, the scheduler, whose heartbeat the TUI takes for   *)
(* the daemon's, and the main thread, which stops them all.  Statements    *)
(* may fail (the database is locked by a vacuum or by a client), nothing   *)
(* in the two loops catches that, and a thread that ended is not started   *)
(* again.  The process is gone when main is "exited" or "killed"; the      *)
(* other threads are daemon threads and die with it.                       *)
(***************************************************************************)
EXTENDS Naturals, Sequences

CONSTANTS Msgs,      \* the rows that are QUEUED when the daemon starts
          NoMsg,
          MaxErrors  \* bound on the statements that fail

Users == {"tx", "sched"}   \* the threads that call DbThread.execute

ASSUME ShutdownAssumption == NoMsg \notin Msgs /\ MaxErrors \in Nat

VARIABLES
    shutdown,  \* Daemon._shutdown
    main,      \* where the main thread is
    running,   \* DbThread._running
    conn,      \* the daemon's SQLite connection
    connected, \* Radio.connected
    lock,      \* who holds Daemon._drain_lock
    tx,        \* where the TX loop is
    todo,      \* the rows the drain has still to send
    sched,     \* where the scheduler is
    queue,     \* DbThread._q
    reply,     \* what each caller of execute() has in its reply queue
    db,        \* where DbThread.run is
    rows,      \* the state of each row on disk
    beat,      \* daemon_heartbeat against the threshold of is_daemon_online
    errors,    \* environment: statements that failed
    air,       \* environment: the messages that were transmitted
    late,      \* history: TX began a drain after stop() had waited for it
    refused    \* history: the messages whose UPDATE failed

stopping == <<shutdown, main, running, conn, connected>>
drain == <<lock, tx, todo, air, late>>
answers == <<db, rows, beat, errors, refused>>
vars == <<stopping, drain, sched, queue, reply, answers>>

Init ==
    /\ shutdown = FALSE /\ main = "running" /\ running = TRUE
    /\ conn = "open" /\ connected = TRUE
    /\ lock = "free" /\ tx = "check" /\ todo = {} /\ sched = "idle"
    /\ queue = <<>> /\ reply = [u \in Users |-> "none"] /\ db = "check"
    /\ rows = [m \in Msgs |-> "QUEUED"]
    /\ beat = "stale"
    /\ errors = 0 /\ air = {} /\ late = FALSE /\ refused = {}

Alive == main \notin {"exited", "killed"}

-----------------------------------------------------------------------------
(* DbThread: execute() on the caller's side, run() on its own              *)

Post(u, write, m) == /\ queue' = Append(queue, [from |-> u, write |-> write, msg |-> m])
                     /\ reply' = [reply EXCEPT ![u] = "wait"]

\* reply_q.get(): the answer that lets the caller go on, or the exception.
Answered(u, answer) == /\ reply[u] = answer
                       /\ reply' = [reply EXCEPT ![u] = "none"]

\* while self._running or not self._q.empty(), then a get() that found nothing.
DbCheck ==
    /\ Alive
    /\ \/ db = "check" /\ db' = IF running \/ queue # <<>> THEN "get" ELSE "exited"
       \/ db = "get" /\ queue = <<>> /\ db' = "check"
    /\ UNCHANGED <<stopping, drain, sched, queue, reply, rows, beat, errors, refused>>

\* Mutant of Answer: an exception is logged and not answered.
AnswerOk(ok) == IF ok THEN "ok" ELSE "wait"

Answer(ok) == IF ok THEN "ok" ELSE "err"

\* Mutant of Beats: every statement counts as a sign of life.
BeatsAlways(r) == TRUE

Beats(r) == r.write = "beat"

\* One statement, its commit and its answer.  On a closed connection it raises,
\* on an open one it may.
DbServe ==
    /\ Alive
    /\ db = "get" /\ queue # <<>>
    /\ LET r == Head(queue)
       IN  \/ /\ conn = "open"
              /\ rows' = IF r.msg = NoMsg THEN rows ELSE [rows EXCEPT ![r.msg] = r.write]
              /\ beat' = IF Beats(r) THEN "fresh" ELSE beat
              /\ reply' = [reply EXCEPT ![r.from] = Answer(TRUE)]
              /\ UNCHANGED <<errors, refused>>
           \/ /\ conn = "closed" \/ errors < MaxErrors
              /\ errors' = IF conn = "open" THEN errors + 1 ELSE errors
              /\ refused' = IF conn = "open" THEN refused \cup ({r.msg} \ {NoMsg}) ELSE refused
              /\ reply' = [reply EXCEPT ![r.from] = Answer(FALSE)]
              /\ UNCHANGED <<rows, beat>>
    /\ queue' = Tail(queue)
    /\ db' = "check"
    /\ UNCHANGED <<stopping, drain, sched>>

\* reply_q.get(timeout=30) raised queue.Empty: nobody is left to answer.
ExecuteTimesOut(u) ==
    /\ Alive
    /\ db = "exited" /\ reply[u] = "wait"
    /\ reply' = [reply EXCEPT ![u] = "err"]
    /\ UNCHANGED <<stopping, drain, sched, queue, answers>>

-----------------------------------------------------------------------------
(* _tx_loop and _tx_drain_once                                             *)

TxCheck ==
    /\ Alive
    /\ tx = "check"
    /\ \/ shutdown /\ tx' = "done"
       \/ ~shutdown /\ connected /\ tx' = "lock"
    /\ UNCHANGED <<stopping, lock, todo, air, late, sched, queue, reply, answers>>

\* The lock may be taken long after the loop looked at _shutdown.
TxLock ==
    /\ Alive
    /\ tx = "lock" /\ lock = "free"
    /\ lock' = "tx"
    /\ tx' = "select"
    /\ late' = (late \/ main \notin {"running", "draining"})
    /\ Post("tx", "none", NoMsg)
    /\ UNCHANGED <<stopping, todo, air, sched, answers>>

\* Mutant of NextRow: the lock is released only when there was something to send.
NextRowKeepsLock(rest) ==
    /\ todo' = rest
    /\ IF rest = {} THEN tx' = "check" /\ lock' = IF tx = "select" THEN lock ELSE "free"
                    ELSE tx' = "loop" /\ UNCHANGED lock

\* Leave the drain when there is nothing (more) to send.
NextRow(rest) == /\ todo' = rest
                 /\ IF rest = {} THEN tx' = "check" /\ lock' = "free"
                                 ELSE tx' = "loop" /\ UNCHANGED lock

\* The SELECT or the UPDATE of a row was answered.
TxGoesOn ==
    /\ Alive
    /\ Answered("tx", "ok")
    /\ \/ tx = "select" /\ NextRow({m \in Msgs : rows[m] = "QUEUED"})
       \/ tx = "update" /\ NextRow(todo)
    /\ UNCHANGED <<stopping, air, late, sched, queue, answers>>

\* send_text fails when the radio is disconnected, and may fail otherwise; the
\* UPDATE says SENT, or QUEUED for another attempt.
TxSend(m) ==
    /\ Alive
    /\ tx = "loop" /\ m \in todo
    /\ todo' = todo \ {m}
    /\ tx' = "update"
    /\ \/ connected /\ air' = air \cup {m} /\ Post("tx", "SENT", m)
       \/ UNCHANGED air /\ Post("tx", "QUEUED", m)
    /\ UNCHANGED <<stopping, lock, late, sched, answers>>

\* execute() raised: the with block releases the lock and the thread ends.
TxDies ==
    /\ Alive
    /\ Answered("tx", "err")
    /\ tx' = "dead"
    /\ lock' = "free"
    /\ todo' = {}
    /\ UNCHANGED <<stopping, air, late, sched, queue, answers>>

-----------------------------------------------------------------------------
(* _sched_loop and _sched_tick, whose last statement is the heartbeat      *)

\* Mutant of SchedTick: execute() does not wait for the answer.
SchedTickAsync ==
    /\ Alive /\ ~shutdown
    /\ sched' = "tick" /\ Post("sched", "none", NoMsg)
    /\ UNCHANGED <<stopping, drain, answers>>

SchedTick ==
    /\ Alive
    /\ sched = "idle"
    /\ \/ shutdown /\ sched' = "done" /\ UNCHANGED <<queue, reply>>
       \/ ~shutdown /\ sched' = "tick" /\ Post("sched", "none", NoMsg)
    /\ UNCHANGED <<stopping, drain, answers>>

\* Mutant of SchedBeat: the heartbeat is written when the thread starts, and
\* a tick ends without one.
SchedBeatNot ==
    /\ Alive
    /\ sched = "tick" /\ Answered("sched", "ok")
    /\ sched' = "idle"
    /\ UNCHANGED <<stopping, drain, queue, answers>>

SchedBeat ==
    /\ Alive
    /\ sched = "tick" /\ reply["sched"] = "ok"
    /\ sched' = "beat"
    /\ Post("sched", "beat", NoMsg)
    /\ UNCHANGED <<stopping, drain, answers>>

\* The tick is over, or one of its statements raised and the thread ends.
SchedEnds ==
    /\ Alive
    /\ \/ sched = "beat" /\ Answered("sched", "ok") /\ sched' = "idle"
       \/ Answered("sched", "err") /\ sched' = "dead"
    /\ UNCHANGED <<stopping, drain, queue, answers>>

\* threshold_s seconds without a heartbeat.
BeatAges == /\ beat = "fresh"
            /\ beat' = "stale"
            /\ UNCHANGED <<stopping, drain, sched, queue, reply, db, rows, errors, refused>>

-----------------------------------------------------------------------------
(* The main thread: run() and stop()                                       *)

\* KeyboardInterrupt ends the loop of run(), whose finally calls stop().
Interrupt ==
    /\ main = "running"
    /\ shutdown' = TRUE
    /\ main' = "draining"
    /\ UNCHANGED <<running, conn, connected, drain, sched, queue, reply, answers>>

\* SIGTERM, with which systemd stops the daemon (meshtad.service).  No code handles
\* it, so the process ends where it is and stop() is not called.
Terminate ==
    /\ Alive
    /\ main' = "killed"
    /\ UNCHANGED <<shutdown, running, conn, connected, drain, sched, queue, reply, answers>>

\* A step of stop(): the main thread goes from one line to the next.
Stop(from, to) == /\ main = from
                  /\ main' = to
                  /\ UNCHANGED <<shutdown, drain, sched, queue, reply, answers>>

\* Mutant of Drained: it does not wait for the drain.
DrainedNot == TRUE

\* with self._drain_lock: pass
Drained == lock = "free"

StopDrain == Drained /\ Stop("draining", "disconnecting") /\ UNCHANGED <<running, conn, connected>>

StopDisconnect == /\ Stop("disconnecting", "stopping")
                  /\ connected' = FALSE
                  /\ UNCHANGED <<running, conn>>

\* DbThread.stop: self._running = False ...
StopDb == Stop("stopping", "joining") /\ running' = FALSE /\ UNCHANGED <<conn, connected>>

\* ... join(timeout=5.0), which a statement on a locked database can outlast ...
StopJoin == /\ db = "exited" \/ queue # <<>>
            /\ Stop("joining", "closing")
            /\ UNCHANGED <<running, conn, connected>>

\* ... and close the connection; then the process ends.
StopClose == Stop("closing", "leaving") /\ conn' = "closed" /\ UNCHANGED <<running, connected>>

Exit == Stop("leaving", "exited") /\ UNCHANGED <<running, conn, connected>>

DbStep == DbCheck \/ DbServe
TxStep == TxCheck \/ TxLock \/ TxGoesOn \/ TxDies \/ \E m \in todo : TxSend(m)
SchedStep == SchedTick \/ SchedBeat \/ SchedEnds
StopStep == StopDrain \/ StopDisconnect \/ StopDb \/ StopJoin \/ StopClose \/ Exit

Next == \/ DbStep \/ TxStep \/ SchedStep \/ StopStep
        \/ \E u \in Users : ExecuteTimesOut(u)
        \/ BeatAges \/ Interrupt \/ Terminate

Spec == Init /\ [][Next]_vars

\* Threads are scheduled, and time passes.  Nobody has to stop the daemon.
FairSpec == /\ Spec
            /\ WF_vars(DbStep) /\ WF_vars(TxStep) /\ WF_vars(SchedStep) /\ WF_vars(StopStep)
            /\ WF_vars(BeatAges)
            /\ \A u \in Users : WF_vars(ExecuteTimesOut(u))

-----------------------------------------------------------------------------
(* What DbThread and a shutdown promise.                                   *)

\* Every variable keeps its type; a thread has at most one request pending.
TypeOK ==
    /\ shutdown \in BOOLEAN /\ running \in BOOLEAN /\ connected \in BOOLEAN
    /\ late \in BOOLEAN
    /\ main \in {"running", "draining", "disconnecting", "stopping", "joining", "closing",
                 "leaving", "exited", "killed"}
    /\ lock \in {"free", "tx"}
    /\ tx \in {"check", "lock", "select", "loop", "update", "done", "dead"}
    /\ sched \in {"idle", "tick", "beat", "done", "dead"}
    /\ queue \in Seq([from: Users, write: {"none", "beat", "SENT", "QUEUED"},
                      msg: Msgs \cup {NoMsg}])
    /\ Len(queue) <= 2
    /\ reply \in [Users -> {"none", "wait", "ok", "err"}]
    /\ db \in {"check", "get", "exited"} /\ conn \in {"open", "closed"}
    /\ rows \in [Msgs -> {"QUEUED", "SENT"}]
    /\ beat \in {"fresh", "stale"}
    /\ errors \in 0..MaxErrors
    /\ refused \subseteq Msgs /\ todo \subseteq Msgs /\ air \subseteq Msgs

Recorded(messages) == \A m \in messages : rows[m] = "SENT"

\* A drain that was under way when stop() was called is finished: what it put
\* on the air is in the database before stop() has ended (Daemon.stop), but for
\* a message whose own UPDATE the database refused.  A process that SIGTERM ends
\* does not call stop(): see NothingUnrecorded.
InFlightRecorded == (main = "exited" /\ ~late) => Recorded(air \ refused)

\* Nothing that was transmitted is still QUEUED when the process is gone, to be
\* transmitted again by the next daemon, whether Ctrl-C or SIGTERM ended it
\* (ROADMAP.md, SIGTERM handling; test_sigterm_cleans_up in tests/test_shutdown.py).
\* The code does not do this on SIGTERM, which nothing handles, and not for a
\* drain that begins after stop() has passed through the drain lock.
NothingUnrecorded == (~Alive /\ errors = 0) => Recorded(air)

\* Nobody waits in a circle.  While stop() waits for the drain, TX has a row to
\* send, has its answer, or has a request in the queue of a DbThread that runs;
\* and nobody waits in execute() for a request that is not in the queue.
NoCircularWait ==
    /\ (main = "draining" /\ lock # "free") =>
         /\ db # "exited"
         /\ reply["tx"] # "none" \/ (tx = "loop" /\ todo # {})
    /\ \A u \in Users : reply[u] = "wait" => \E i \in 1..Len(queue) : queue[i].from = u

\* The request that caller u waits for, in a set.
Asked(u) == IF reply[u] = "wait"
            THEN {queue[i] : i \in {j \in 1..Len(queue) : queue[j].from = u}}
            ELSE {}

\* What the threads ask for: TX selects rows and updates one it tried to send,
\* the scheduler begins its tick and beats.
Statements == [u \in Users |->
    IF u = "tx" THEN [from: {u}, write: {"none"}, msg: {NoMsg}]
                     \cup [from: {u}, write: {"SENT", "QUEUED"}, msg: Msgs]
                ELSE [from: {u}, write: {"none", "beat"}, msg: {NoMsg}]]

Calls == INSTANCE StatementCalls WITH
    status <- reply, asked <- [u \in Users |-> Asked(u)], ended <- (db = "exited")

\* execute() is atomic: the two threads, the queue and DbThread together behave
\* as if each call were one statement, which took effect once if the caller
\* heard "ok" and never if it heard an exception, also while the daemon stops
\* and a caller is left without an answer (DbThread.run, execute, stop).
ImplementsCalls == Calls!Spec

\* stop() always comes to its end: main waits for TX, TX for DbThread, and
\* DbThread for main, but never all three for each other, and a thread that
\* ended with an exception does not keep the lock.
StopReturns == shutdown ~> ~Alive

\* No caller of execute() waits forever, be it for a statement that failed or
\* for a thread that has gone.
CallerIsAnswered ==
    \A u \in Users : (reply[u] = "wait") ~> (reply[u] # "wait" \/ ~Alive)

\* The TUI says [OFFLINE] in the end, and for good, once the scheduler is dead
\* or the process gone, even if other threads go on writing (is_daemon_online).
DeadShowsOffline ==
    <>[](sched = "dead" \/ ~Alive) => <>[](beat = "stale")

\* A daemon whose scheduler works is shown [online] again and again.
WorkingShowsOnline == []<>(beat = "fresh" \/ sched \in {"dead", "done"} \/ ~Alive)
=============================================================================

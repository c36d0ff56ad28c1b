--------------------------- MODULE StatementCalls ----------------------------
(***************************************************************************)
(* What DbThread.execute promises the threads of the daemon: a call is one *)
(* atomic statement.  A thread has one call at a time; it hears "ok" when  *)
(* the statement took effect, once, and "err" when it did not and will     *)
(* not; DbThread ends when nobody has a call, and who calls later gives    *)
(* up.  The queue, the loop of DbThread and the stop are hidden.           *)
(***************************************************************************)
CONSTANTS Users,      \* the threads that call execute()
          Statements, \* of each thread, the statements it makes
          Msgs,
          NoMsg

VARIABLES status,  \* of each caller: "none", "wait", or the answer it has
          asked,   \* the statement each caller waits for: a set of one, or of none
          ended,   \* DbThread.run has returned
          rows,    \* the state of each row on disk
          beat     \* daemon_heartbeat: "fresh" or "stale"

vars == <<status, asked, ended, rows, beat>>

Init == /\ status = [u \in Users |-> "none"]
        /\ asked = [u \in Users |-> {}]
        /\ ended = FALSE
        /\ rows = [m \in Msgs |-> "QUEUED"]
        /\ beat = "stale"

\* A thread with an answer may call again at once.
Call(u) == /\ status[u] \in {"none", "ok"}
           /\ status' = [status EXCEPT ![u] = "wait"]
           /\ \E r \in Statements[u] : asked' = [asked EXCEPT ![u] = {r}]
           /\ UNCHANGED <<ended, rows, beat>>

Answer(u, answer) == /\ status[u] = "wait"
                     /\ status' = [status EXCEPT ![u] = answer]
                     /\ asked' = [asked EXCEPT ![u] = {}]
                     /\ UNCHANGED ended

Execute(u) ==
    /\ ~ended
    /\ Answer(u, "ok")
    /\ \E r \in asked[u] :
         /\ rows' = IF r.msg = NoMsg THEN rows ELSE [rows EXCEPT ![r.msg] = r.write]
         /\ beat' = IF r.write = "beat" THEN "fresh" ELSE beat

Raise(u) == ~ended /\ Answer(u, "err") /\ UNCHANGED <<rows, beat>>

GiveUp(u) == ended /\ Answer(u, "err") /\ UNCHANGED <<rows, beat>>

Return(u) == /\ status[u] \in {"ok", "err"}
             /\ status' = [status EXCEPT ![u] = "none"]
             /\ UNCHANGED <<asked, ended, rows, beat>>

End == /\ \A u \in Users : asked[u] = {}
       /\ ended' = TRUE
       /\ UNCHANGED <<status, asked, rows, beat>>

Age == beat' = "stale" /\ UNCHANGED <<status, asked, ended, rows>>

Next == \/ \E u \in Users : Call(u) \/ Execute(u) \/ Raise(u) \/ GiveUp(u) \/ Return(u)
        \/ End \/ Age

Spec == Init /\ [][Next]_vars
=============================================================================

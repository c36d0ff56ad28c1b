-------------------------- MODULE MessageLifecycle --------------------------
(***************************************************************************)
(* What the daemon promises the people who queue messages: the life of an  *)
(* outbound row as README.md draws it (QUEUED, SENT, ACKED or FAILED,      *)
(* DELETED), seen from outside.  Threads, packet ids, timeouts, crashes    *)
(* and restarts are hidden: a message is ACKED only after the recipient    *)
(* confirmed it, settled messages stay settled until a user acts on them,  *)
(* and a message is tried at most MaxRetries + 1 times per user request.   *)
(***************************************************************************)
EXTENDS Integers

CONSTANTS Msgs, MaxRetries   \* MaxRetries is a natural number (Outbox assumes it)

VARIABLES state,    \* the column state of each message
          tries,    \* failed attempts since the user asked for the message
          reached   \* the messages whose recipient confirmed one

vars == <<state, tries, reached>>

Init == /\ state = [m \in Msgs |-> "NEW"]
        /\ tries = [m \in Msgs |-> 0]
        /\ reached = {}

Move(m, from, to) == state[m] \in from /\ state' = [state EXCEPT ![m] = to]

Submit(m) == Move(m, {"NEW"}, "QUEUED") /\ UNCHANGED <<tries, reached>>

Send(m) == Move(m, {"QUEUED"}, "SENT") /\ UNCHANGED <<tries, reached>>

\* The recipient's confirmation comes back; the row may not show it yet.
Reach(m) == /\ state[m] # "NEW"
            /\ reached' = reached \cup {m}
            /\ UNCHANGED <<state, tries>>

Settle(m) == /\ m \in reached
             /\ Move(m, {"SENT"}, "ACKED")
             /\ UNCHANGED <<tries, reached>>

TryAgain(m) == /\ tries[m] < MaxRetries
               /\ Move(m, {"QUEUED", "SENT"}, "QUEUED")
               /\ tries' = [tries EXCEPT ![m] = @ + 1]
               /\ UNCHANGED reached

GiveUp(m) == /\ tries[m] = MaxRetries
             /\ Move(m, {"QUEUED", "SENT"}, "FAILED")
             /\ UNCHANGED <<tries, reached>>

UserRetry(m) == /\ Move(m, {"FAILED"}, "QUEUED")
                /\ tries' = [tries EXCEPT ![m] = 0]
                /\ UNCHANGED reached

UserDelete(m) == /\ Move(m, {"ACKED", "FAILED"}, "DELETED")
                 /\ UNCHANGED <<tries, reached>>

Next == \E m \in Msgs :
    \/ Submit(m) \/ Send(m) \/ Reach(m) \/ Settle(m)
    \/ TryAgain(m) \/ GiveUp(m)
    \/ UserRetry(m) \/ UserDelete(m)

Spec == Init /\ [][Next]_vars
=============================================================================

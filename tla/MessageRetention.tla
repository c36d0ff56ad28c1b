-------------------------- MODULE MessageRetention ---------------------------
(***************************************************************************)
(* How long the messages people receive are kept: UNSEEN, SEEN, DELETED.   *)
(* Nobody deletes a message but its reader, any time, and the auto-delete, *)
(* once the message has been read and its time to live is over, counted    *)
(* from when the first reader to record its read looked at the clock.  A   *)
(* sweep takes every message whose time was over when it began and none    *)
(* whose time is not over.  Connections, clients, the callback that stores *)
(* a message and the table of senders are hidden: the time to live is one  *)
(* of those the configuration and the users gave the sender.               *)
(***************************************************************************)
EXTENDS Integers

CONSTANTS Msgs,
          Lives,   \* of each message, the values that may decide how long it lives
          None     \* no value; 0 and None both mean that it is kept

VARIABLES state,   \* of each message
          due,     \* when the auto-delete may take it, None before the first read
          reading, \* the ends of its life that readers have worked out and not recorded
          sweep,   \* when the sweep that is under way began, or None
          now

vars == <<state, due, reading, sweep, now>>

Init == /\ state = [m \in Msgs |-> "NONE"]
        /\ due = [m \in Msgs |-> None]
        /\ reading = [m \in Msgs |-> {}]
        /\ sweep = None
        /\ now = 0

Move(m, from, to) == state[m] \in from /\ state' = [state EXCEPT ![m] = to]

Arrive(m) == Move(m, {"NONE"}, "UNSEEN") /\ UNCHANGED <<due, reading, sweep, now>>

End(life) == IF life \in {None, 0} THEN None ELSE now + life

\* A reader works out when the message it read is to go.
Open(m) == /\ \E life \in Lives[m] : reading' = [reading EXCEPT ![m] = @ \cup {End(life)}]
           /\ UNCHANGED <<state, due, sweep, now>>

\* It has nothing left to record; another reader may hold the same end.
Done(m, end) == /\ end \in reading[m]
                /\ reading' \in {reading, [reading EXCEPT ![m] = @ \ {end}]}

\* The first one that records its read starts the timer, the others do nothing.
Read(m) == /\ Move(m, {"UNSEEN"}, "SEEN")
           /\ \E end \in reading[m] : Done(m, end) /\ due' = [due EXCEPT ![m] = end]
           /\ UNCHANGED <<sweep, now>>

Late(m) == /\ state[m] # "UNSEEN"
           /\ \E end \in reading[m] : Done(m, end)
           /\ UNCHANGED <<state, due, sweep, now>>

Remove(m) == Move(m, {"UNSEEN", "SEEN"}, "DELETED") /\ UNCHANGED <<due, reading, sweep, now>>

Due(t) == {m \in Msgs : state[m] = "SEEN" /\ due[m] # None /\ due[m] <= t}

Begin == sweep = None /\ sweep' = now /\ UNCHANGED <<state, due, reading, now>>

Expire == /\ sweep # None
          /\ \E gone \in SUBSET Due(now) :
               /\ Due(sweep) \subseteq gone
               /\ state' = [m \in Msgs |-> IF m \in gone THEN "DELETED" ELSE state[m]]
          /\ sweep' = None
          /\ UNCHANGED <<due, reading, now>>

Pass == now' = now + 1 /\ UNCHANGED <<state, due, reading, sweep>>

Next == \/ \E m \in Msgs : Arrive(m) \/ Open(m) \/ Read(m) \/ Late(m) \/ Remove(m)
        \/ Begin \/ Expire
        \/ Pass

Spec == Init /\ [][Next]_vars
=============================================================================

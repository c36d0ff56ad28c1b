----------------------------- MODULE RadioLink ------------------------------
(***************************************************************************)
(* The serial link to the dongle: Radio.connect, run by the daemon's RX    *)
(* loop, and Radio.disconnect, run by the scheduler when it serves a row   *)
(* of control_queue.  The two share Radio.client and Radio.connected       *)
(* without a lock, so each attribute access is a step of its own.          *)
(*                                                                         *)
(* Two history variables separate what goes wrong from what holds          *)
(* otherwise: overlapped remembers that disconnect() and connect() ran at  *)
(* one time (connect() takes seconds, and the code does not prevent it),   *)
(* orphaned that the dongle was pulled out from under the present client.  *)
(***************************************************************************)
EXTENDS Naturals, Sequences

CONSTANTS Handles,      \* SerialInterface objects (bounds the connections)
          NoHandle,     \* None
          QueueLimit,   \* bound on the rows waiting in control_queue
          MaxUnplugs    \* bound on how often the dongle is pulled out

ASSUME HandleAssumption == NoHandle \notin Handles
ASSUME LinkAssumption == QueueLimit \in Nat /\ MaxUnplugs \in Nat

Actions == {"eject", "reconnect"}

VARIABLES
    client,         \* Radio.client
    connected,      \* Radio.connected
    rx,             \* where the RX loop is
    opening,        \* the object SerialInterface() is building
    sched,          \* where the scheduler is in the control-queue step
    control_queue,  \* the rows of control_queue, oldest first
    open,           \* environment: the objects that hold the serial port
    plugged,        \* environment: the dongle is plugged in
    unplugs,
    overlapped,     \* history: connect() and disconnect() have met
    orphaned        \* history: the client's port vanished under it

radio == <<client, connected>>
device == <<plugged, unplugs>>
history == <<overlapped, orphaned>>
vars == <<radio, rx, opening, sched, control_queue, open, device, history>>

Init ==
    /\ client = NoHandle
    /\ connected = FALSE
    /\ rx = "loop"
    /\ opening = NoHandle
    /\ sched = "idle"
    /\ control_queue = <<>>
    /\ open = {}
    /\ plugged = TRUE
    /\ unplugs = 0
    /\ overlapped = FALSE
    /\ orphaned = FALSE

-----------------------------------------------------------------------------
(* _rx_loop and Radio.connect                                              *)

Disconnecting == sched \in {"close", "forget", "unmark"}

\* The loop calls connect() only when connected is False; SerialInterface()
\* takes the port, if nobody has it, and starts talking to the dongle.
ConnectOpen(h) ==
    /\ rx = "loop"
    /\ ~connected
    /\ plugged
    /\ h \in Handles \ ({client} \cup open)
    /\ rx' = "opening"
    /\ opening' = h
    /\ open' = IF open = {} THEN {h} ELSE open
    /\ overlapped' = (overlapped \/ Disconnecting)
    /\ UNCHANGED <<radio, sched, control_queue, device, orphaned>>

\* Mutant of AfterFailure: the exception is swallowed and connect() goes on.
AfterFailureGoesOn == "mark"

AfterFailure == "loop"

\* The constructor raises: connect() returns False and client keeps its value.
ConnectFails ==
    /\ rx = "opening"
    /\ open' = open \ {opening}
    /\ opening' = NoHandle
    /\ rx' = AfterFailure
    /\ UNCHANGED <<radio, sched, control_queue, device, history>>

ConnectAssign ==
    /\ rx = "opening"
    /\ opening \in open
    /\ client' = opening
    /\ orphaned' = FALSE
    /\ opening' = NoHandle
    /\ rx' = "identify"
    /\ UNCHANGED <<connected, sched, control_queue, open, device, overlapped>>

\* self.client.localNode raises if client is None by now, or for a reason of the
\* library's: connect() fails, and client keeps the object and with it the port.
ConnectIdentify ==
    /\ rx = "identify"
    /\ rx' \in IF client = NoHandle THEN {"loop"} ELSE {"loop", "mark"}
    /\ UNCHANGED <<radio, opening, sched, control_queue, open, device, history>>

ConnectMark ==
    /\ rx = "mark"
    /\ connected' = TRUE
    /\ rx' = "loop"
    /\ UNCHANGED <<client, opening, sched, control_queue, open, device, history>>

-----------------------------------------------------------------------------
(* The control-queue step of _sched_tick and Radio.disconnect              *)

\* Mutant of Disconnect: the old interface is dropped without close().
DisconnectNoClose == "forget"

\* Where disconnect() begins: if self.client.
Disconnect == IF client = NoHandle THEN "forget" ELSE "close"

\* SELECT ... ORDER BY id LIMIT 1: one row per tick, served by disconnect().
ServeControl ==
    /\ sched = "idle"
    /\ control_queue # <<>>
    /\ sched' = Disconnect
    /\ overlapped' = (overlapped \/ rx # "loop")
    /\ UNCHANGED <<radio, rx, opening, control_queue, open, device, orphaned>>

\* Mutant of Closed: close() does not let go of the port.
ClosedNot == open

Closed == open \ {client}

\* Mutant of AfterClose: it insists on a close() that a dead port refuses.
AfterCloseInsists == IF client \in open THEN "forget" ELSE "close"

\* What close() raises is passed over.
AfterClose == "forget"

\* self.client.close(); client may have become another object since the test.
DisconnectClose ==
    /\ sched = "close"
    /\ open' = Closed
    /\ sched' = AfterClose
    /\ UNCHANGED <<radio, rx, opening, control_queue, device, history>>

\* Mutant of NoClient: self.client = False.
NoClientFalse == FALSE

NoClient == NoHandle

DisconnectForget ==
    /\ sched = "forget"
    /\ client' = NoClient
    /\ orphaned' = FALSE
    /\ sched' = "unmark"
    /\ UNCHANGED <<connected, rx, opening, control_queue, open, device, overlapped>>

\* Mutant of Unmarked: connected is left as it is.
UnmarkedNot == connected

Unmarked == FALSE

DisconnectUnmark ==
    /\ sched = "unmark"
    /\ connected' = Unmarked
    /\ sched' = "delete"
    /\ UNCHANGED <<client, rx, opening, control_queue, open, device, history>>

\* DELETE FROM control_queue WHERE id=?
DeleteControl ==
    /\ sched = "delete"
    /\ control_queue' = Tail(control_queue)
    /\ sched' = "idle"
    /\ UNCHANGED <<radio, rx, opening, open, device, history>>

-----------------------------------------------------------------------------
(* Users and the dongle                                                    *)

\* DbClient.enqueue_control, from meshcli dongle-eject or by hand.
EnqueueControl(action) ==
    /\ Len(control_queue) < QueueLimit
    /\ control_queue' = Append(control_queue, action)
    /\ UNCHANGED <<radio, rx, opening, sched, open, device, history>>

\* The port is gone, and the objects that held it do not come back to life.
\* Nothing in the daemon hears of it: client and connected keep their values.
Unplug ==
    /\ plugged
    /\ unplugs < MaxUnplugs
    /\ plugged' = FALSE
    /\ unplugs' = unplugs + 1
    /\ open' = {}
    /\ orphaned' = (orphaned \/ client \in open)
    /\ UNCHANGED <<radio, rx, opening, sched, control_queue, overlapped>>

Replug ==
    /\ ~plugged
    /\ plugged' = TRUE
    /\ UNCHANGED <<radio, rx, opening, sched, control_queue, open, unplugs, history>>

RxLoop == \/ \E h \in Handles : ConnectOpen(h)
          \/ ConnectFails \/ ConnectAssign \/ ConnectIdentify \/ ConnectMark

Scheduler == \/ ServeControl \/ DisconnectClose \/ DisconnectForget
             \/ DisconnectUnmark \/ DeleteControl

Next == \/ RxLoop
        \/ Scheduler
        \/ \E action \in Actions : EnqueueControl(action)
        \/ Unplug \/ Replug

Spec == Init /\ [][Next]_vars

\* Both threads keep running and a present dongle answers in the end.  Strong
\* fairness on ConnectAssign says that the constructor does not fail forever.
\* Users need not stop: EnqueueControl has no fairness, and no limit in time.
Fairness == /\ WF_vars(RxLoop) /\ SF_vars(ConnectAssign)
            /\ SF_vars(ServeControl) /\ WF_vars(Scheduler)
            /\ WF_vars(Replug)

FairSpec == Spec /\ Fairness

-----------------------------------------------------------------------------
(* What the link promises.                                                 *)

\* Every variable keeps its type.
TypeOK ==
    /\ client \in Handles \cup {NoHandle}
    /\ connected \in BOOLEAN
    /\ rx \in {"loop", "opening", "identify", "mark"}
    /\ opening \in Handles \cup {NoHandle}
    /\ sched \in {"idle", "close", "forget", "unmark", "delete"}
    /\ control_queue \in Seq(Actions) /\ Len(control_queue) <= QueueLimit
    /\ open \subseteq Handles
    /\ plugged \in BOOLEAN
    /\ unplugs \in 0..MaxUnplugs
    /\ overlapped \in BOOLEAN /\ orphaned \in BOOLEAN

\* A message sent now would leave: what _tx_loop and Radio.send_text test,
\* and a port that is really there.
Working == connected /\ client \in open

\* Between two control rows, a link that says it is connected works (send_text
\* trusts connected; _rx_loop never looks at anything else), unless the two
\* threads have met in Radio or the dongle was pulled out from under the client.
ConnectedMeansWorking ==
    connected /\ sched = "idle" => Working \/ overlapped \/ orphaned

\* The port is held by the client, or by the object that is being opened, and
\* by nobody whom disconnect() could no longer close.
NoLeakedPort == open \subseteq {client, opening} \/ overlapped

\* A row of control_queue is always served (step 3 of _sched_tick).
ControlServed == (control_queue # <<>>) ~> (sched = "delete")

\* A request that the scheduler has not taken up yet makes the daemon let go of
\* the port (cli.py: "daemon should release radio shortly").
EjectReleases == (control_queue # <<>> /\ sched = "idle") ~> (open = {} \/ overlapped)

Undisturbed == plugged /\ control_queue = <<>>

\* Identification failed: the next connect() finds the port taken by the client.
Unidentified == ~connected /\ client \in open /\ rx \notin {"identify", "mark"}

\* Once the dongle stays plugged in and the users stop asking for it, the link
\* comes up and stays up, after any number of ejects and also after one that
\* followed an unplugging (_rx_loop; the other half of dongle-eject).  Excepted is
\* a client whose identification failed: only an eject makes it release the port.
EjectedReconnects ==
    <>[]Undisturbed =>
        <>[]((connected /\ (Working \/ orphaned)) \/ Unidentified \/ overlapped)

\* _rx_loop "watches connection and reconnects if needed": a link without an
\* interface object is noticed in the end.
LinkRecovers ==
    (connected /\ client = NoHandle) ~> (~connected \/ client # NoHandle)
=============================================================================

--------------------------- MODULE RadioLinkProofs ---------------------------
(***************************************************************************)
(* Proofs about module RadioLink, for any number of connections, of rows   *)
(* of control_queue and of unpluggings: as long as connect() and           *)
(* disconnect() have not met, the port is never leaked, and a link that    *)
(* says it is connected has the port unless the dongle was pulled out.     *)
(***************************************************************************)
EXTENDS RadioLink, SequenceTheorems, TLAPS

\* The row that is being served is in control_queue until it is deleted.
Serving == sched # "idle" => control_queue # <<>>

\* connect() is building an interface in one place only, which is not yet
\* connected, and nobody else has the port if that one has it.
Opening ==
    /\ (rx = "opening") <=> (opening # NoHandle)
    /\ rx # "loop" => ~connected
    /\ (rx = "opening" /\ opening \in open) => open = {opening}

\* What holds as long as connect() and disconnect() have not met.
Apart ==
    /\ rx = "loop" \/ ~Disconnecting
    /\ open \subseteq {client, opening}
    /\ sched = "forget" => open = {}
    /\ rx \in {"identify", "mark"} => client \in open \/ orphaned
    /\ (connected /\ ~Disconnecting) => client \in open \/ orphaned

IInv == TypeOK /\ Serving /\ Opening /\ (~overlapped => Apart)

-----------------------------------------------------------------------------
LEMMA InitIInv == Init => IInv
<1> SUFFICES ASSUME Init PROVE IInv
  OBVIOUS
<1>1. control_queue \in Seq(Actions) /\ Len(control_queue) <= QueueLimit
  BY LinkAssumption DEF Init
<1>2. unplugs \in 0..MaxUnplugs
  BY LinkAssumption DEF Init
<1> QED BY <1>1, <1>2 DEF Init, IInv, TypeOK, Serving, Opening, Apart, Disconnecting

\* The RX loop, with connect(), does not touch control_queue.
LEMMA RxLoopIInv == IInv /\ RxLoop => IInv'
<1> SUFFICES ASSUME IInv, RxLoop PROVE IInv'
  OBVIOUS
<1> USE HandleAssumption DEF IInv, TypeOK, Serving, Opening, Apart, Disconnecting, radio, device,
                             history
<1>1. ASSUME NEW h \in Handles, ConnectOpen(h) PROVE IInv'
  BY <1>1 DEF ConnectOpen
<1>2. CASE ConnectFails
  BY <1>2 DEF ConnectFails, AfterFailure
<1>3. CASE ConnectAssign
  BY <1>3 DEF ConnectAssign
<1>4. CASE ConnectIdentify
  BY <1>4 DEF ConnectIdentify
<1>5. CASE ConnectMark
  BY <1>5 DEF ConnectMark
<1> QED BY <1>1, <1>2, <1>3, <1>4, <1>5 DEF RxLoop

\* The scheduler serves a row, with disconnect(), and deletes it.
LEMMA SchedulerIInv == IInv /\ Scheduler => IInv'
<1> SUFFICES ASSUME IInv, Scheduler PROVE IInv'
  OBVIOUS
<1> USE HandleAssumption DEF IInv, TypeOK, Serving, Opening, Apart, Disconnecting, radio, device,
                             history
<1>1. CASE ServeControl
  BY <1>1 DEF ServeControl, Disconnect
<1>2. CASE DisconnectClose
  BY <1>2 DEF DisconnectClose, Closed, AfterClose
<1>3. CASE DisconnectForget
  BY <1>3 DEF DisconnectForget, NoClient
<1>4. CASE DisconnectUnmark
  BY <1>4 DEF DisconnectUnmark, Unmarked
<1>5. CASE DeleteControl
  <2>1. /\ control_queue # <<>>
        /\ control_queue' = Tail(control_queue)
    BY <1>5 DEF DeleteControl
  <2>2. control_queue' \in Seq(Actions) /\ Len(control_queue') <= QueueLimit
    BY <2>1, LinkAssumption, HeadTailProperties
  <2> QED BY <1>5, <2>2 DEF DeleteControl
<1> QED BY <1>1, <1>2, <1>3, <1>4, <1>5 DEF Scheduler

\* Users and the dongle.
LEMMA EnvironmentIInv ==
    IInv /\ ((\E action \in Actions : EnqueueControl(action)) \/ Unplug \/ Replug) => IInv'
<1> SUFFICES ASSUME IInv, (\E action \in Actions : EnqueueControl(action)) \/ Unplug \/ Replug
             PROVE  IInv'
  OBVIOUS
<1> USE HandleAssumption, LinkAssumption DEF IInv, TypeOK, Serving, Opening, Apart, Disconnecting,
                             radio, device, history
<1>1. ASSUME NEW action \in Actions, EnqueueControl(action) PROVE IInv'
  <2>1. control_queue' = Append(control_queue, action) /\ Len(control_queue) < QueueLimit
    BY <1>1 DEF EnqueueControl
  <2>2. /\ control_queue' \in Seq(Actions) /\ Len(control_queue') <= QueueLimit
        /\ control_queue' # <<>>
    BY <2>1, AppendProperties, LenProperties
  <2> QED BY <1>1, <2>2 DEF EnqueueControl
<1>2. CASE Unplug
  <2>1. unplugs' \in 0..MaxUnplugs
    BY <1>2 DEF Unplug
  <2>2. /\ open' = {} /\ plugged' = FALSE /\ orphaned' = (orphaned \/ client \in open)
        /\ UNCHANGED <<radio, rx, opening, sched, control_queue, overlapped>>
    BY <1>2 DEF Unplug
  <2> QED BY <2>1, <2>2
<1>3. CASE Replug
  BY <1>3 DEF Replug
<1> QED BY <1>1, <1>2, <1>3

-----------------------------------------------------------------------------
\* The invariant holds in every reachable state.
THEOREM Invariance == Spec => []IInv
<1>1. Init => IInv
  BY InitIInv
<1>2. IInv /\ [Next]_vars => IInv'
  <2>1. SUFFICES ASSUME IInv, [Next]_vars PROVE IInv'
    OBVIOUS
  <2>2. CASE UNCHANGED vars
    BY <2>1, <2>2 DEF IInv, TypeOK, Serving, Opening, Apart, Disconnecting, vars, radio, device,
                      history
  <2>3. CASE Next
    BY <2>1, <2>3, RxLoopIInv, SchedulerIInv, EnvironmentIInv DEF Next
  <2> QED BY <2>1, <2>2, <2>3
<1> QED BY <1>1, <1>2, PTL DEF Spec

\* Every variable keeps its type.
THEOREM TypeCorrect == Spec => []TypeOK
<1>1. IInv => TypeOK
  BY DEF IInv
<1> QED BY <1>1, Invariance, PTL

\* Between two control rows, a link that says it is connected has the port,
\* unless Radio.connect and Radio.disconnect have met or the dongle was pulled
\* out from under the client.
THEOREM ConnectedLinkWorks == Spec => []ConnectedMeansWorking
<1>1. IInv => ConnectedMeansWorking
  BY DEF IInv, Apart, Disconnecting, ConnectedMeansWorking, Working
<1> QED BY <1>1, Invariance, PTL

\* The port is never held by an object that Radio.disconnect could no longer
\* close, unless Radio.connect and Radio.disconnect have met.
THEOREM PortIsNotLeaked == Spec => []NoLeakedPort
<1>1. IInv => NoLeakedPort
  BY DEF IInv, Apart, NoLeakedPort
<1> QED BY <1>1, Invariance, PTL
=============================================================================

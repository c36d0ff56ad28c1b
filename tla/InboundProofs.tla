--------------------------- MODULE InboundProofs ----------------------------
(***************************************************************************)
(* Proofs about module Inbound, for any number of messages, nodes and      *)
(* clients, any configuration and any time: its invariant, the states a    *)
(* message goes through, its auto-delete timer, and that Inbound keeps     *)
(* messages as long as MessageRetention says.                              *)
(***************************************************************************)
EXTENDS Inbound, TLAPS

-----------------------------------------------------------------------------
(* What ImplementsRetention means for one message                          *)

Rank == [NONE |-> 0, UNSEEN |-> 1, SEEN |-> 2, DELETED |-> 3]

\* An inbound message only moves forward, UNSEEN to SEEN to DELETED (README.md):
\* a read that was under way when the message was deleted does not revive it.
OnlyForward ==
    [][\A m \in Msgs : Rank[messages[m].state] <= Rank[messages'[m].state]]_vars

\* The timer starts when a message is read: one that nobody read is not deleted
\* by the scheduler, however old it is (the auto-delete design, "Timer start").
UnreadIsKept ==
    [][\A m \in Msgs : tick # None /\ messages[m].state = "UNSEEN" /\ tick' = None
            => messages'[m].state = "UNSEEN"]_vars

\* "after_s = 0: explicit opt-out": a sender whose TOML entry is 0 keeps its
\* messages, whatever the senders table and the global default say and however
\* alias commands race with reads.
NeverMeansNever ==
    \A m \in Msgs : Toml[From[m]] = 0 => messages[m].auto_delete_at = None

\* The timer is started by the first read and never moved, by a second client
\* that reads the same message or by a later change of the TTL.
TimerIsSetOnce ==
    [][\A m \in Msgs : messages[m].state = "SEEN"
            => messages'[m].auto_delete_at = messages[m].auto_delete_at]_vars

-----------------------------------------------------------------------------
(* The invariant                                                           *)

Message == [state: {"NONE", "UNSEEN", "SEEN", "DELETED"}, auto_delete_at: TTL]

Sender == [known: BOOLEAN, auto_delete_after_s: TTL]

\* A DM is stored once, by the call of _on_text that heard it.
Stored ==
    /\ \A m \in Msgs \ heard : messages[m].state = "NONE"
    /\ rx # Idle => rx.msg \in heard /\ messages[rx.msg].state = "NONE"

\* No timer runs before the first read.
Untimed == \A m \in Msgs : messages[m].state \in {"NONE", "UNSEEN"}
                => messages[m].auto_delete_at = None

\* What a reader looked up, and worked out, for a sender that has opted out.
OptedOut ==
    \A c \in Clients :
        /\ client[c].at = "stamp" /\ Toml[From[client[c].msg]] = 0 => client[c].ttl = None
        /\ client[c].at = "mark" /\ Toml[From[client[c].msg]] = 0 => client[c].delete_at = None

\* The values that resolve_auto_delete may decide from, and what it makes of one.
Given(n) == IF Toml[n] # None THEN {Toml[n]} ELSE (TTLs \ {None}) \cup {GlobalTTL}
Effective(life) == IF life = 0 THEN None ELSE life

\* The table of senders holds what users gave; a reader holds what it made of
\* a value that was in force when it looked, and may hold it for long.
Looked ==
    /\ \A n \in Nodes : senders[n].auto_delete_after_s \in TTLs \cup {None}
    /\ \A c \in Clients : client[c].at = "stamp" =>
         \E life \in Given(From[client[c].msg]) : client[c].ttl = Effective(life)

\* The tick works with a time that has been.
Ticked == tick # None => tick <= now

IInv == TypeOK /\ Stored /\ Untimed /\ OptedOut /\ NeverMeansNever /\ Looked /\ Ticked

\* What a step may do to one message.
MessageStep(m) ==
    /\ Rank[messages[m].state] <= Rank[messages'[m].state]
    /\ messages[m].state = "SEEN" => messages'[m].auto_delete_at = messages[m].auto_delete_at
    /\ tick # None /\ messages[m].state = "UNSEEN" /\ tick' = None
         => messages'[m].state = "UNSEEN"

Steps == \A m \in Msgs : MessageStep(m)

-----------------------------------------------------------------------------
LEMMA ResolveValue ==
    ASSUME NEW n \in Nodes, NEW db \in TTL
    PROVE  /\ Resolve(n, db) \in TTL
           /\ Toml[n] = 0 => Resolve(n, db) = None
           /\ db \in TTLs \cup {None} =>
                \E life \in Given(n) : Resolve(n, db) = Effective(life)
<1> DEFINE life == IF Toml[n] # None THEN Toml[n] ELSE IF db # None THEN db ELSE GlobalTTL
<1>1. Resolve(n, db) = Effective(life)
  BY DEF Resolve, Effective
<1>2. life \in TTL /\ (db \in TTLs \cup {None} => life \in Given(n))
  BY InboundAssumption DEF Given
<1>3. Toml[n] = 0 => life = 0
  BY NoneAssumption
<1> HIDE DEF life
<1> QED BY <1>1, <1>2, <1>3 DEF Effective, TTL

LEMMA Ranks ==
    Rank["NONE"] = 0 /\ Rank["UNSEEN"] = 1 /\ Rank["SEEN"] = 2 /\ Rank["DELETED"] = 3
BY DEF Rank

\* A step that leaves the messages alone.
LEMMA Untouched ==
    ASSUME IInv, UNCHANGED messages
    PROVE  Steps /\ Untimed' /\ NeverMeansNever'
<1>1. \A m \in Msgs : messages[m].state \in {"NONE", "UNSEEN", "SEEN", "DELETED"}
  BY DEF IInv, TypeOK
<1> QED BY <1>1, Ranks DEF IInv, Steps, MessageStep, Untimed, NeverMeansNever

LEMMA InitIInv == Init => IInv
BY NoneAssumption, InboundAssumption
   DEF Init, IInv, TypeOK, Stored, Untimed, OptedOut, NeverMeansNever, Looked, Ticked, NoRow,
       Unknown, Idle, TTL

LEMMA RxTextStep ==
    ASSUME IInv, NEW m \in Msgs, RxText(m)
    PROVE  IInv' /\ Steps
<1>1. TypeOK'
  BY DEF IInv, TypeOK, RxText, Idle
<1>2. Stored'
  BY DEF IInv, Stored, RxText, Idle
<1>3. OptedOut' /\ Looked' /\ Ticked'
  BY DEF IInv, OptedOut, Looked, Ticked, RxText
<1> QED BY <1>1, <1>2, <1>3, Untouched DEF IInv, RxText

LEMMA RxSenderStep ==
    ASSUME IInv, RxSender
    PROVE  IInv' /\ Steps
<1>1. rx # Idle /\ rx.msg \in Msgs /\ From[rx.msg] \in Nodes
  BY InboundAssumption DEF IInv, TypeOK, RxSender, Idle
<1>2. TypeOK'
  <2>1. rx' \in {Idle} \cup [at: {"sender", "insert"}, msg: Msgs]
    BY <1>1 DEF IInv, TypeOK, RxSender, Idle
  <2>2. senders' \in [Nodes -> Sender]
    <3>1. senders \in [Nodes -> Sender]
      BY DEF IInv, TypeOK, Sender
    <3>2. [senders[From[rx.msg]] EXCEPT !.known = TRUE] \in Sender
      BY <1>1, <3>1 DEF Sender
    <3>3. UNCHANGED senders \/ senders' = [senders EXCEPT ![From[rx.msg]] =
              [senders[From[rx.msg]] EXCEPT !.known = TRUE]]
      BY DEF RxSender
    <3> QED BY <3>1, <3>2, <3>3
  <2> QED BY <2>1, <2>2 DEF IInv, TypeOK, RxSender, Sender
<1>3. Stored'
  <2>1. rx' = Idle \/ rx'.msg = rx.msg
    BY <1>1 DEF IInv, TypeOK, RxSender, Idle
  <2> QED BY <1>1, <2>1 DEF IInv, Stored, RxSender
<1>4. OptedOut' /\ Looked' /\ Ticked'
  BY <1>1 DEF IInv, TypeOK, OptedOut, Looked, Ticked, RxSender
<1> QED BY <1>2, <1>3, <1>4, Untouched DEF IInv, RxSender

LEMMA RxInsertStep ==
    ASSUME IInv, RxInsert
    PROVE  IInv' /\ Steps
<1>1. rx # Idle /\ rx.msg \in Msgs /\ rx.msg \in heard /\ messages[rx.msg].state = "NONE"
  BY DEF IInv, TypeOK, Stored, RxInsert, Idle
<1>2. /\ messages' = [messages EXCEPT ![rx.msg] = NewMessage]
      /\ NewMessage \in Message /\ NewMessage.state = "UNSEEN"
      /\ NewMessage.auto_delete_at = None
  BY DEF RxInsert, NewMessage, Message, TTL
<1>3. TypeOK'
  <2>1. messages \in [Msgs -> Message]
    BY DEF IInv, TypeOK, Message
  <2>2. messages' \in [Msgs -> Message]
    BY <1>2, <2>1
  <2> QED BY <2>2 DEF IInv, TypeOK, RxInsert, Message
<1>4. Stored' /\ Untimed' /\ OptedOut' /\ NeverMeansNever'
  BY <1>1, <1>2 DEF IInv, TypeOK, Stored, Untimed, OptedOut, NeverMeansNever, RxInsert
<1>5. Steps
  BY <1>1, <1>2, Ranks DEF IInv, TypeOK, Steps, MessageStep, RxInsert
<1>6. Looked' /\ Ticked'
  BY DEF IInv, Looked, Ticked, RxInsert
<1> QED BY <1>3, <1>4, <1>5, <1>6 DEF IInv

LEMMA ReadLookStep ==
    ASSUME IInv, NEW c \in Clients, NEW m \in Msgs, ReadLook(c, m)
    PROVE  IInv' /\ Steps
<1> DEFINE n == From[m]
           ttl == Resolve(n, senders[n].auto_delete_after_s)
           look == [at |-> "stamp", msg |-> m, ttl |-> ttl]
<1>1. /\ ttl \in TTL /\ (Toml[n] = 0 => ttl = None)
      /\ \E life \in Given(n) : ttl = Effective(life)
  BY ResolveValue, InboundAssumption DEF IInv, TypeOK, Looked
<1>2. client' = [client EXCEPT ![c] = look]
  BY DEF ReadLook
<1> HIDE DEF ttl
<1>3. TypeOK'
  BY <1>1, <1>2 DEF IInv, TypeOK, ReadLook
<1>4. OptedOut'
  BY <1>1, <1>2 DEF IInv, TypeOK, OptedOut
<1>5. Stored' /\ Ticked'
  BY DEF IInv, Stored, Ticked, ReadLook
<1>6. Looked'
  BY <1>1, <1>2 DEF IInv, TypeOK, Looked, ReadLook
<1> QED BY <1>3, <1>4, <1>5, <1>6, Untouched DEF IInv, ReadLook

LEMMA DeleteAtValue ==
    ASSUME now \in Nat, NEW ttl \in TTL
    PROVE  DeleteAt(ttl) \in TTL /\ (ttl = None => DeleteAt(ttl) = None)
BY DEF DeleteAt, TTL

LEMMA ReadStampStep ==
    ASSUME IInv, NEW c \in Clients, ReadStamp(c)
    PROVE  IInv' /\ Steps
<1> DEFINE m == client[c].msg
           end == DeleteAt(client[c].ttl)
           mark == [at |-> "mark", msg |-> m, delete_at |-> end]
<1>1. /\ m \in Msgs /\ client[c].ttl \in TTL /\ now \in Nat
      /\ Toml[From[m]] = 0 => client[c].ttl = None
  BY InboundAssumption DEF IInv, TypeOK, OptedOut, ReadStamp, Idle
<1>2. end \in TTL /\ (Toml[From[m]] = 0 => end = None)
  BY <1>1, DeleteAtValue
<1>3. client' = [client EXCEPT ![c] = mark] /\ UNCHANGED <<now, messages, senders, heard, rx, tick>>
  BY DEF ReadStamp
<1> HIDE DEF m, end
<1>4. TypeOK'
  BY <1>1, <1>2, <1>3 DEF IInv, TypeOK
<1>5. OptedOut'
  BY <1>1, <1>2, <1>3 DEF IInv, TypeOK, OptedOut
<1>6. Stored' /\ Ticked' /\ Looked'
  BY <1>3 DEF IInv, TypeOK, Stored, Ticked, Looked
<1> QED BY <1>3, <1>4, <1>5, <1>6, Untouched DEF IInv

LEMMA ReadMarkStep ==
    ASSUME IInv, NEW c \in Clients, ReadMark(c)
    PROVE  IInv' /\ Steps
<1> DEFINE m == client[c].msg
           end == client[c].delete_at
           row == MarkRead(messages[m], end)
<1>1. /\ m \in Msgs /\ end \in TTL /\ messages[m] \in Message
      /\ Toml[From[m]] = 0 => end = None
  BY DEF IInv, TypeOK, OptedOut, ReadMark, Idle, Message
<1>2. /\ Seen(end) \in Message /\ Seen(end).state = "SEEN"
      /\ Seen(end).auto_delete_at = end
  BY <1>1 DEF Seen, Message
<1>3. /\ row \in Message
      /\ \/ row = messages[m]
         \/ messages[m].state = "UNSEEN" /\ row = Seen(end)
  BY <1>1, <1>2 DEF MarkRead
<1>4. /\ messages' = [messages EXCEPT ![m] = row]
      /\ client' = [client EXCEPT ![c] = Idle]
      /\ UNCHANGED <<now, senders, heard, rx, tick>>
  BY DEF ReadMark
<1> HIDE DEF m, end, row
<1>5. TypeOK'
  BY <1>1, <1>3, <1>4 DEF IInv, TypeOK, Message, Idle
<1>6. Stored'
  <2>1. \A d \in Msgs : messages'[d].state = "NONE" <=> messages[d].state = "NONE"
    BY <1>1, <1>2, <1>3, <1>4 DEF IInv, TypeOK
  <2>2. rx # Idle => rx.msg \in Msgs
    BY DEF IInv, TypeOK
  <2> QED BY <1>4, <2>1, <2>2 DEF IInv, Stored
<1>7. Untimed' /\ NeverMeansNever'
  BY <1>1, <1>2, <1>3, <1>4 DEF IInv, TypeOK, Untimed, NeverMeansNever
<1>8. OptedOut'
  BY <1>4 DEF IInv, TypeOK, OptedOut, Idle
<1>9. Steps
  BY <1>1, <1>2, <1>3, <1>4, Ranks DEF IInv, TypeOK, Steps, MessageStep
<1>10. Looked' /\ Ticked'
  BY <1>4 DEF IInv, TypeOK, Looked, Ticked, Idle
<1> QED BY <1>5, <1>6, <1>7, <1>8, <1>9, <1>10 DEF IInv

\* mark_deleted and auto-delete: some messages are DELETED.
LEMMA Deleted ==
    ASSUME IInv, NEW gone \in SUBSET Msgs,
           messages' = [m \in Msgs |-> IF m \in gone
                                       THEN [messages[m] EXCEPT !.state = "DELETED"]
                                       ELSE messages[m]],
           \A m \in gone : messages[m].state # "NONE",
           \A m \in gone : tick # None /\ tick' = None => messages[m].state # "UNSEEN",
           UNCHANGED <<now, senders, heard, rx, client>>, tick' \in {tick, None}
    PROVE  IInv' /\ Steps
<1>1. \A m \in Msgs :
        /\ messages[m] \in Message /\ messages'[m] \in Message
        /\ messages'[m].auto_delete_at = messages[m].auto_delete_at
        /\ messages'[m].state = IF m \in gone THEN "DELETED" ELSE messages[m].state
  BY DEF IInv, TypeOK, Message
<1>2. TypeOK'
  BY <1>1 DEF IInv, TypeOK, Message, TTL
<1>3. Stored'
  BY <1>1 DEF IInv, TypeOK, Stored
<1>4. Untimed' /\ NeverMeansNever' /\ OptedOut'
  BY <1>1 DEF IInv, Untimed, NeverMeansNever, OptedOut
<1>5. Steps
  <2>1. \A m \in Msgs : messages[m].state \in {"NONE", "UNSEEN", "SEEN", "DELETED"}
    BY <1>1 DEF Message
  <2> QED BY <1>1, <2>1, Ranks DEF Steps, MessageStep
<1>6. Looked' /\ Ticked'
  BY DEF IInv, Looked, Ticked
<1> QED BY <1>2, <1>3, <1>4, <1>5, <1>6 DEF IInv

LEMMA DeleteStep ==
    ASSUME IInv, NEW m \in Msgs, Delete(m)
    PROVE  IInv' /\ Steps
<1>1. messages' = [d \in Msgs |-> IF d \in {m} THEN [messages[d] EXCEPT !.state = "DELETED"]
                                  ELSE messages[d]]
  BY DEF IInv, TypeOK, Delete
<1> QED BY <1>1, Deleted DEF Delete

LEMMA AutoDeleteStep ==
    ASSUME IInv, AutoDelete
    PROVE  IInv' /\ Steps
<1> DEFINE gone == {m \in Msgs : Expired(m, tick)}
<1>1. messages' = [m \in Msgs |-> IF m \in gone
                                  THEN [messages[m] EXCEPT !.state = "DELETED"]
                                  ELSE messages[m]]
  BY DEF AutoDelete
<1>2. \A m \in gone : messages[m].state \notin {"NONE", "UNSEEN"}
  BY DEF IInv, Untimed, Expired
<1> QED BY <1>1, <1>2, Deleted DEF AutoDelete

\* The steps that touch neither messages nor readers.
LEMMA OtherStep ==
    ASSUME IInv, SenderStep \/ TickStart \/ Clock
    PROVE  IInv' /\ Steps
<1>1. UNCHANGED <<messages, heard, rx, client>>
  BY DEF SenderStep, ClientInsert, ClientUpdate, TickStart, Clock
<1>2. TypeOK'
  <2>1. ASSUME NEW n \in Nodes, NEW ttl \in TTLs, ClientInsert(n, ttl) \/ ClientUpdate(n, ttl)
        PROVE  TypeOK'
    <3>1. senders \in [Nodes -> Sender] /\ ttl \in TTL
      BY InboundAssumption DEF IInv, TypeOK, Sender
    <3>2. /\ [known |-> TRUE, auto_delete_after_s |-> ttl] \in Sender
          /\ [senders[n] EXCEPT !.auto_delete_after_s = ttl] \in Sender
      BY <3>1 DEF Sender
    <3>3. \/ senders' = [senders EXCEPT ![n] = [known |-> TRUE, auto_delete_after_s |-> ttl]]
          \/ senders' = [senders EXCEPT ![n] = [senders[n] EXCEPT !.auto_delete_after_s = ttl]]
      BY <2>1 DEF ClientInsert, ClientUpdate
    <3>4. senders' \in [Nodes -> Sender]
      BY <3>1, <3>2, <3>3
    <3> QED BY <2>1, <3>4 DEF IInv, TypeOK, ClientInsert, ClientUpdate, Sender
  <2>2. CASE TickStart \/ Clock
    BY <2>2, InboundAssumption DEF IInv, TypeOK, TickStart, Clock, TTL
  <2> QED BY <2>1, <2>2 DEF SenderStep
<1>3. Stored' /\ OptedOut'
  BY <1>1 DEF IInv, Stored, OptedOut
<1>4. Looked'
  <2>1. ASSUME NEW n \in Nodes, NEW ttl \in TTLs, ClientInsert(n, ttl) \/ ClientUpdate(n, ttl)
        PROVE  \A k \in Nodes : senders'[k].auto_delete_after_s \in TTLs \cup {None}
    BY <2>1 DEF ClientInsert, ClientUpdate, IInv, TypeOK, Looked
  <2>2. CASE TickStart \/ Clock
    BY <2>2 DEF TickStart, Clock, IInv, Looked
  <2> QED BY <1>1, <2>1, <2>2 DEF IInv, Looked, SenderStep
<1>5. Ticked'
  BY NoneAssumption DEF IInv, TypeOK, Ticked, SenderStep, ClientInsert, ClientUpdate, TickStart,
                        Clock
<1> QED BY <1>1, <1>2, <1>3, <1>4, <1>5, Untouched DEF IInv

LEMMA NextIInv ==
    ASSUME IInv, [Next]_vars
    PROVE  IInv' /\ Steps
<1>1. CASE Next
  BY <1>1, RxTextStep, RxSenderStep, RxInsertStep, ReadLookStep, ReadStampStep, ReadMarkStep,
     DeleteStep, AutoDeleteStep, OtherStep DEF Next, RxStep, SchedStep, ClientStep
<1>2. CASE UNCHANGED vars
  BY <1>2, Untouched DEF vars, IInv, TypeOK, Stored, OptedOut, Looked, Ticked
<1> QED BY <1>1, <1>2

\* IInv is an invariant of Inbound.
THEOREM Invariance == Spec => []IInv
<1>1. IInv /\ [Next]_vars => IInv'
  BY NextIInv
<1> QED BY InitIInv, <1>1, PTL DEF Spec

\* Every variable of Inbound keeps its type.
THEOREM TypeCorrect == Spec => []TypeOK
<1>1. IInv => TypeOK
  BY DEF IInv
<1> QED BY Invariance, <1>1, PTL

\* A sender with a 0 in the configuration keeps its messages, however alias
\* commands and reads interleave.
THEOREM OptOutHolds == Spec => []NeverMeansNever
<1>1. IInv => NeverMeansNever
  BY DEF IInv
<1> QED BY Invariance, <1>1, PTL

\* No interleaving of reads, deletes and ticks takes a message back.
THEOREM MessagesMoveForward == Spec => OnlyForward
<1>1. IInv /\ [Next]_vars
        => [\A m \in Msgs : Rank[messages[m].state] <= Rank[messages'[m].state]]_vars
  BY NextIInv DEF Steps, MessageStep
<1> QED BY Invariance, <1>1, PTL DEF Spec, OnlyForward

\* The first read starts the timer, and nothing moves it.
THEOREM TimerStartsOnce == Spec => TimerIsSetOnce
<1>1. IInv /\ [Next]_vars
        => [\A m \in Msgs : messages[m].state = "SEEN"
               => messages'[m].auto_delete_at = messages[m].auto_delete_at]_vars
  BY NextIInv DEF Steps, MessageStep
<1> QED BY Invariance, <1>1, PTL DEF Spec, TimerIsSetOnce

\* The scheduler deletes nothing that nobody has read.
THEOREM UnreadStays == Spec => UnreadIsKept
<1>1. IInv /\ [Next]_vars
        => [\A m \in Msgs : tick # None /\ messages[m].state = "UNSEEN" /\ tick' = None
               => messages'[m].state = "UNSEEN"]_vars
  BY NextIInv DEF Steps, MessageStep
<1> QED BY Invariance, <1>1, PTL DEF Spec, UnreadIsKept
-----------------------------------------------------------------------------
(* The refinement                                                          *)

\* The end of a life is the same in both specifications.
LEMMA SameEnd ==
    ASSUME now \in Nat, NEW life \in TTL
    PROVE  Retention!End(life) = DeleteAt(Effective(life))
BY NoneAssumption DEF Retention!End, DeleteAt, Effective, TTL

\* The state of m is all that is written.
LEMMA OneState ==
    ASSUME IInv, NEW m \in Msgs,
           \A d \in Msgs \ {m} : messages'[d] = messages[d]
    PROVE  /\ [d \in Msgs |-> messages[d].state]'
                = [[d \in Msgs |-> messages[d].state] EXCEPT ![m] = messages'[m].state]
           /\ [d \in Msgs |-> messages[d].auto_delete_at]'
                = [[d \in Msgs |-> messages[d].auto_delete_at] EXCEPT ![m] = messages'[m].auto_delete_at]
OBVIOUS

\* The ends that the readers of m hold.
Ends(m) == {client[c].delete_at : c \in Marking(m)}

\* A step of no client.
LEMMA SameEnds ==
    ASSUME UNCHANGED client
    PROVE  UNCHANGED [m \in Msgs |-> {client[c].delete_at : c \in Marking(m)}]
BY DEF Marking

\* The callback stores a message.
LEMMA RxInsertArrives == IInv /\ RxInsert => \E m \in Msgs : Retention!Arrive(m)
<1> SUFFICES ASSUME IInv, RxInsert PROVE \E m \in Msgs : Retention!Arrive(m)
  OBVIOUS
<1> DEFINE x == rx.msg
<1>1. /\ x \in Msgs /\ messages[x].state = "NONE" /\ messages[x].auto_delete_at = None
      /\ UNCHANGED <<tick, now, client>>
  BY DEF IInv, TypeOK, Stored, Untimed, RxInsert, Idle
<1>2. /\ \A d \in Msgs \ {x} : messages'[d] = messages[d]
      /\ messages'[x].state = "UNSEEN" /\ messages'[x].auto_delete_at = None
  BY <1>1 DEF IInv, TypeOK, RxInsert, NewMessage
<1> HIDE DEF x
<1>3. UNCHANGED [d \in Msgs |-> messages[d].auto_delete_at]
  BY <1>1, <1>2
<1> QED BY <1>1, <1>2, <1>3, OneState, SameEnds DEF Retention!Arrive, Retention!Move

\* What the other readers of m hold, and a reader of m whose job is job.
Others(c, m) == {client[d].delete_at : d \in Marking(m) \ {c}}
Held(job, m) == IF job.at = "mark" /\ job.msg = m THEN {job.delete_at} ELSE {}

\* A step of c takes up or lays down no end but its own.
LEMMA OneReader ==
    ASSUME IInv, NEW c \in Clients, NEW job, client' = [client EXCEPT ![c] = job],
           NEW m \in Msgs
    PROVE  /\ Ends(m) = Others(c, m) \cup Held(client[c], m)
           /\ Ends(m)' = Others(c, m) \cup Held(job, m)
<1>1. client'[c] = job /\ \A d \in Clients \ {c} : client'[d] = client[d]
  BY DEF IInv, TypeOK
<1>2. Ends(m) = Others(c, m) \cup Held(client[c], m)
  BY DEF Ends, Others, Held, Marking
<1>3. Ends(m)' = {client'[d].delete_at : d \in
                    {d \in Clients : client'[d].at = "mark" /\ client'[d].msg = m}}
  BY DEF Ends, Marking
<1>4. {client'[d].delete_at : d \in {d \in Clients : client'[d].at = "mark" /\ client'[d].msg = m}}
        = Others(c, m) \cup Held(job, m)
  BY <1>1 DEF Others, Held, Marking
<1> QED BY <1>2, <1>3, <1>4

LEMMA ReadLookHidden ==
    ASSUME IInv, NEW c \in Clients, NEW m \in Msgs, ReadLook(c, m)
    PROVE  UNCHANGED Retention!vars
<1>1. PICK look : look = [at |-> "stamp", msg |-> m,
                           ttl |-> Resolve(From[m], senders[From[m]].auto_delete_after_s)]
  OBVIOUS
<1>2. /\ client' = [client EXCEPT ![c] = look]
      /\ look.at = "stamp" /\ client[c].at = "idle"
      /\ UNCHANGED <<now, messages, tick>>
  BY <1>1 DEF ReadLook, Idle
<1>3. ASSUME NEW d \in Msgs PROVE Ends(d)' = Ends(d)
  <2>1. Ends(d) = Others(c, d) \cup Held(client[c], d) /\ Ends(d)' = Others(c, d) \cup Held(look, d)
    BY <1>2, OneReader
  <2>2. Held(client[c], d) = {} /\ Held(look, d) = {}
    BY <1>2 DEF Held
  <2> QED BY <2>1, <2>2
<1> QED BY <1>2, <1>3 DEF Retention!vars, Ends

\* A reader works out an end, from a time to live that it looked up before.
LEMMA ReadStampOpens ==
    ASSUME IInv, NEW c \in Clients, ReadStamp(c)
    PROVE  \E m \in Msgs : Retention!Open(m)
<1>1. PICK x \in Msgs : x = client[c].msg
  BY DEF IInv, TypeOK, ReadStamp, Idle
<1>2. PICK life \in Given(From[x]) : client[c].ttl = Effective(life)
  BY <1>1 DEF IInv, Looked, ReadStamp
<1>3. now \in Nat /\ life \in TTL /\ life \in Lives[x]
  BY <1>1, <1>2, InboundAssumption DEF Given, Lives, IInv, TypeOK
<1>4. PICK end : end = Retention!End(life)
  OBVIOUS
<1>5. PICK mark : mark = [at |-> "mark", msg |-> x, delete_at |-> end]
  OBVIOUS
<1>6. /\ client' = [client EXCEPT ![c] = mark] /\ client[c].at = "stamp"
      /\ UNCHANGED <<messages, tick, now>>
  BY <1>1, <1>2, <1>3, <1>4, <1>5, SameEnd DEF ReadStamp
<1>7. ASSUME NEW d \in Msgs
      PROVE  Ends(d)' = IF d = x THEN Ends(d) \cup {end} ELSE Ends(d)
  <2>1. Ends(d) = Others(c, d) \cup Held(client[c], d) /\ Ends(d)' = Others(c, d) \cup Held(mark, d)
    BY <1>6, OneReader
  <2>2. Held(client[c], d) = {} /\ Held(mark, d) = IF d = x THEN {end} ELSE {}
    BY <1>5, <1>6 DEF Held
  <2> QED BY <2>1, <2>2
<1>8. [m \in Msgs |-> Ends(m)]' = [[m \in Msgs |-> Ends(m)] EXCEPT ![x] = @ \cup {end}]
  BY <1>1, <1>7
<1>9. Retention!Open(x)
  BY <1>3, <1>4, <1>6, <1>8 DEF Retention!Open, Ends
<1> QED BY <1>9

\* The first of the reads starts the timer, with the end its reader has worked
\* out; the others do nothing.
LEMMA ReadMarkReads ==
    ASSUME IInv, NEW c \in Clients, ReadMark(c)
    PROVE  \E m \in Msgs : Retention!Read(m) \/ Retention!Late(m)
<1> DEFINE reading == [m \in Msgs |-> Ends(m)]
<1>1. PICK x \in Msgs : x = client[c].msg
  BY DEF IInv, TypeOK, ReadMark, Idle
<1>2. PICK end : end = client[c].delete_at
  OBVIOUS
<1>3. /\ messages' = [messages EXCEPT ![x] = MarkRead(messages[x], end)]
      /\ client[c].at = "mark" /\ client' = [client EXCEPT ![c] = Idle]
      /\ UNCHANGED <<tick, now>>
  BY <1>1, <1>2 DEF ReadMark
<1>4. ASSUME NEW d \in Msgs
      PROVE  /\ d # x => Ends(d)' = Ends(d)
             /\ d = x => end \in Ends(d) /\ Ends(d)' \in {Ends(d), Ends(d) \ {end}}
  <2>1. /\ Ends(d) = Others(c, d) \cup Held(client[c], d)
        /\ Ends(d)' = Others(c, d) \cup Held(Idle, d)
    BY <1>3, OneReader
  <2>2. Held(Idle, d) = {} /\ Held(client[c], d) = IF d = x THEN {end} ELSE {}
    BY <1>1, <1>2, <1>3 DEF Held, Idle
  <2> QED BY <2>1, <2>2
<1>5. reading' \in {reading, [reading EXCEPT ![x] = @ \ {end}]} /\ end \in reading[x]
  <2>1. end \in reading[x]
    BY <1>1, <1>4
  <2>2. CASE Ends(x)' = Ends(x)
    <3>1. reading' = reading
      BY <1>4, <2>2
    <3> QED BY <2>1, <3>1
  <2>3. CASE Ends(x)' = Ends(x) \ {end}
    <3>1. reading' = [reading EXCEPT ![x] = @ \ {end}]
      BY <1>1, <1>4, <2>3
    <3> QED BY <2>1, <3>1
  <2> QED BY <1>1, <1>4, <2>2, <2>3
<1>6. Retention!Done(x, end) /\ end \in Ends(x)
  BY <1>1, <1>4, <1>5 DEF Retention!Done, Ends
<1> HIDE DEF reading
<1>7. CASE messages[x].state # "UNSEEN"
  <2>1. UNCHANGED messages
    BY <1>3, <1>7 DEF MarkRead, IInv, TypeOK
  <2>2. Retention!Late(x)
    BY <1>1, <1>3, <1>6, <1>7, <2>1 DEF Retention!Late, Ends
  <2> QED BY <2>2
<1>8. CASE messages[x].state = "UNSEEN"
  <2>1. /\ \A d \in Msgs \ {x} : messages'[d] = messages[d]
        /\ messages'[x] = Seen(end)
    BY <1>1, <1>3, <1>8 DEF MarkRead, IInv, TypeOK
  <2>2. messages'[x].state = "SEEN" /\ messages'[x].auto_delete_at = end
    BY <2>1 DEF Seen
  <2>3. Retention!Move(x, {"UNSEEN"}, "SEEN")
    BY <1>1, <1>8, <2>1, <2>2, OneState DEF Retention!Move
  <2>4. [m \in Msgs |-> messages[m].auto_delete_at]'
          = [[m \in Msgs |-> messages[m].auto_delete_at] EXCEPT ![x] = end]
    BY <1>1, <2>1, <2>2, OneState
  <2>5. Retention!Read(x)
    BY <1>1, <1>3, <1>6, <2>3, <2>4 DEF Retention!Read, Ends
  <2> QED BY <2>5
<1> QED BY <1>7, <1>8

LEMMA DeleteRemoves ==
    ASSUME IInv, NEW m \in Msgs, Delete(m)
    PROVE  UNCHANGED Retention!vars \/ Retention!Remove(m)
<1>1. /\ \A d \in Msgs \ {m} : messages'[d] = messages[d]
      /\ messages'[m].state = "DELETED" /\ messages'[m].auto_delete_at = messages[m].auto_delete_at
      /\ messages[m].state \in {"UNSEEN", "SEEN", "DELETED"}
      /\ UNCHANGED <<tick, now, client>>
  BY DEF IInv, TypeOK, Delete
<1>2. UNCHANGED [d \in Msgs |-> messages[d].auto_delete_at]
  BY <1>1
<1>3. CASE messages[m].state = "DELETED"
  BY <1>1, <1>2, <1>3, SameEnds DEF Retention!vars
<1>4. CASE messages[m].state # "DELETED"
  BY <1>1, <1>2, <1>4, OneState, SameEnds DEF Retention!Remove, Retention!Move
<1> QED BY <1>3, <1>4

\* Whatever the UPDATE of a tick matches and was not deleted before has been
\* read, and its time was over when the tick began.
LEMMA AutoDeleteExpires == IInv /\ AutoDelete => Retention!Expire
<1> SUFFICES ASSUME IInv, AutoDelete PROVE Retention!Expire
  OBVIOUS
<1> DEFINE gone == {m \in Msgs : Expired(m, tick) /\ messages[m].state = "SEEN"}
<1>1. /\ tick \in Nat /\ now \in Nat /\ tick <= now /\ UNCHANGED <<now, client>>
      /\ tick # None /\ tick' = None
  BY InboundAssumption DEF IInv, TypeOK, Ticked, AutoDelete
<1>2. \A m \in Msgs :
        /\ messages'[m].auto_delete_at = messages[m].auto_delete_at
        /\ messages'[m].state = IF m \in gone THEN "DELETED" ELSE messages[m].state
  <2> SUFFICES ASSUME NEW m \in Msgs
               PROVE  /\ messages'[m].auto_delete_at = messages[m].auto_delete_at
                      /\ messages'[m].state = IF m \in gone THEN "DELETED" ELSE messages[m].state
    OBVIOUS
  <2>1. messages[m] \in Message /\ messages'[m] = IF Expired(m, tick)
                                                   THEN [messages[m] EXCEPT !.state = "DELETED"]
                                                   ELSE messages[m]
    BY DEF AutoDelete, IInv, TypeOK, Message
  <2>2. Expired(m, tick) => messages[m].state \in {"SEEN", "DELETED"}
    BY <2>1 DEF IInv, Untimed, Expired, Message
  <2> QED BY <2>1, <2>2 DEF Message
<1>3. \A m \in gone : /\ messages[m].state = "SEEN" /\ messages[m].auto_delete_at # None
                      /\ messages[m].auto_delete_at <= now
  BY <1>1 DEF Expired, IInv, TypeOK, TTL
<1>4. gone \in SUBSET Retention!Due(now) /\ Retention!Due(tick) \subseteq gone
  BY <1>3 DEF Retention!Due, Expired
<1> HIDE DEF gone
<1> QED BY <1>1, <1>2, <1>4, SameEnds DEF Retention!Expire

LEMMA Simulation ==
    ASSUME IInv, [Next]_vars
    PROVE  Retention!Next \/ UNCHANGED Retention!vars
<1>1. CASE Clock
  BY <1>1, SameEnds DEF Clock, Retention!Next, Retention!Pass
<1>2. CASE SenderStep \/ RxSender
  BY <1>2, SameEnds DEF SenderStep, ClientInsert, ClientUpdate, RxSender, Retention!vars
<1>5. CASE TickStart
  BY <1>5, SameEnds DEF TickStart, Retention!Next, Retention!Begin
<1>3. ASSUME NEW m \in Msgs, RxText(m)
      PROVE  UNCHANGED Retention!vars
  BY <1>3, SameEnds DEF RxText, Retention!vars
<1>4. CASE UNCHANGED vars
  BY <1>4, SameEnds DEF vars, Retention!vars
<1> QED BY <1>1, <1>2, <1>3, <1>4, <1>5, RxInsertArrives, ReadLookHidden, ReadStampOpens,
           ReadMarkReads, DeleteRemoves, AutoDeleteExpires
        DEF Next, RxStep, SchedStep, ClientStep, Retention!Next

\* Inbound implements MessageRetention, for any configuration, any number of
\* messages and readers, and ticks of any age: nobody but a reader deletes a
\* message before the time that was in force for its sender has passed.
THEOREM RetentionRefined == Spec => ImplementsRetention
<1>1. Init => Retention!Init
  BY DEF Init, NoRow, Idle, Marking, Retention!Init
<1>2. IInv /\ [Next]_vars => [Retention!Next]_Retention!vars
  BY Simulation
<1> QED BY <1>1, <1>2, Invariance, PTL DEF Spec, ImplementsRetention, Retention!Spec
=============================================================================

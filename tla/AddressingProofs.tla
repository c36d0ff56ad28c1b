-------------------------- MODULE AddressingProofs --------------------------
(***************************************************************************)
(* Proofs about module Addressing, for any number of nodes, names, shells  *)
(* and screens: its invariant, the refinement of SenderTable, who may      *)
(* change a time to live, and where a reply goes.                          *)
(***************************************************************************)
EXTENDS Addressing, TLAPS

Jobs == [at: {"idle", "compose", "dialog", "by alias", "by node", "ensure", "insert",
              "update", "enqueue"},
         kind: {"none", "send", "alias", "compose", "rename"},
         text: Texts \cup {None}, row: Texts \cup {None},
         alias: Names \cup {None}, ttl: TTLs \cup {None}, answers: Nodes \cup {None}]

\* A program's local variables hold what its next step needs.
Ready(j, table) ==
    /\ j \in Jobs
    /\ j.at # "idle" => j.text \in Texts
    /\ j.at = "compose" => j.kind = "compose"
    /\ j.at = "dialog" => j.kind = "rename"
    /\ j.at \in {"by alias", "by node"} => j.kind \in {"alias", "send", "compose"}
    /\ j.at \in {"ensure", "insert"} => j.kind \in {"alias", "compose", "rename"}
    /\ j.at \in {"update", "enqueue"} => j.row \in Texts /\ table[j.row].known
    /\ j.at = "update" => j.alias \in Names
    /\ j.kind = "alias" => j.alias \in Names
    /\ j.kind = "rename" /\ j.at \in {"ensure", "insert"} => j.alias \in Names
    /\ j.kind # "alias" => j.ttl = None
    /\ j.answers # None => j.kind = "compose"

TableOK == senders \in [Texts -> Table!Sender \cup {Absent}]

ProgramsOK ==
    /\ job \in [Users -> Jobs]
    /\ \A u \in Users : Ready(job[u], senders)
    /\ \A u \in Users : job[u].kind = "alias" => u \in Shells

OthersOK == /\ queued \in Texts \cup {None}
            /\ rx \in Nodes \cup {None}
            /\ held \in BOOLEAN
            /\ steady \in [Screens -> BOOLEAN]

IInv == TableOK /\ ProgramsOK /\ OthersOK

\* A row that is there stays.
Kept == \A n \in Texts : senders[n].known => senders'[n].known

\* The abstract step that goes with a change of the table.
TableStep == UNCHANGED senders \/ Table!Next

\* Who may change a time to live.
TTLStep ==
    \A n \in Texts : senders'[n].auto_delete_after_s # senders[n].auto_delete_after_s
        => \E u \in Shells : job[u].kind = "alias" /\ job'[u] = Idle

\* Where the reply of screen u stands while its text names its sender.
OnCourse(u) ==
    LET j == job[u]
    IN  (j.answers # None /\ steady[u]) =>
            /\ Named(j.text, senders) = {j.answers}
            /\ j.at \in {"by node", "ensure", "insert"} => j.text = j.answers
            /\ j.at = "enqueue" => j.row = j.answers

RInv == \A u \in Screens : OnCourse(u)

Good == TableOK' /\ ProgramsOK' /\ TableStep /\ TTLStep

-----------------------------------------------------------------------------
LEMMA RowsOK ==
    ASSUME TableOK
    PROVE  \A n \in Texts : /\ senders[n] \in Table!Sender \cup {Absent}
                            /\ ~senders[n].known => senders[n] = Absent
                            /\ senders[n].alias # None => senders[n].known
                            /\ senders[n].alias \in Names \cup {None}
                            /\ senders[n].auto_delete_after_s \in TTLs \cup {None}
<1> SUFFICES ASSUME NEW n \in Texts
             PROVE  /\ senders[n] \in Table!Sender \cup {Absent}
                    /\ ~senders[n].known => senders[n] = Absent
                    /\ senders[n].alias # None => senders[n].known
                    /\ senders[n].alias \in Names \cup {None}
                    /\ senders[n].auto_delete_after_s \in TTLs \cup {None}
  OBVIOUS
<1>1. senders[n] \in Table!Sender \cup {Absent}
  BY DEF TableOK
<1>2. CASE senders[n] \in Table!Sender
  <2>1. /\ senders[n].known = TRUE
        /\ senders[n].alias \in Names \cup {None}
        /\ senders[n].auto_delete_after_s \in TTLs \cup {None}
    BY <1>2 DEF Table!Sender
  <2> QED BY <1>1, <2>1
<1>3. CASE senders[n] = Absent
  BY <1>3 DEF Absent, Table!Absent
<1> QED BY <1>1, <1>2, <1>3

\* One program moves on, and the rows that are there stay.
LEMMA JobStep ==
    ASSUME ProgramsOK, Kept, NEW u \in Users, NEW j,
           job' = [job EXCEPT ![u] = j],
           Ready(j, senders'),
           j.kind = "alias" => u \in Shells
    PROVE  ProgramsOK'
<1>1. j \in Jobs
  BY DEF Ready
<1>2. job' \in [Users -> Jobs]
  BY <1>1 DEF ProgramsOK
<1>3. ASSUME NEW v \in Users
      PROVE  Ready(job'[v], senders') /\ (job'[v].kind = "alias" => v \in Shells)
  <2>1. CASE v = u
    BY <2>1 DEF ProgramsOK
  <2>2. CASE v # u
    <3>1. job'[v] = job[v] /\ Ready(job[v], senders)
      BY <2>2 DEF ProgramsOK
    <3> QED BY <3>1 DEF Kept, Ready, ProgramsOK
  <2> QED BY <2>1, <2>2
<1> QED BY <1>2, <1>3 DEF ProgramsOK

\* The same, with the table left alone.
LEMMA QuietStep ==
    ASSUME TableOK, ProgramsOK, NEW u \in Users, NEW j,
           job' = [job EXCEPT ![u] = j], UNCHANGED senders,
           Ready(j, senders),
           j.kind = "alias" => u \in Shells
    PROVE  Good
<1>1. Kept /\ TableOK' /\ TableStep /\ TTLStep
  BY DEF Kept, TableOK, TableStep, TTLStep
<1>2. Ready(j, senders')
  BY DEF Ready
<1> QED BY <1>1, <1>2, JobStep DEF Good
-----------------------------------------------------------------------------
LEMMA IdleReady == Ready(Idle, senders) /\ Idle.kind # "alias" /\ Idle.answers = None
BY AddressingAssumption DEF Ready, Idle, Jobs

LEMMA ShellStep ==
    ASSUME TableOK, ProgramsOK, NEW u \in Shells, Shell(u)
    PROVE  Good
<1>1. ASSUME NEW t \in Typed, Send(u, t)
      PROVE  Good
  <2> DEFINE j == [Idle EXCEPT !.at = "by alias", !.kind = "send", !.text = t]
  <2>1. Ready(j, senders) /\ j.kind # "alias"
    BY AddressingAssumption DEF Ready, Idle, Jobs
  <2>2. job' = [job EXCEPT ![u] = j] /\ UNCHANGED senders
    BY <1>1 DEF Send, Start
  <2> QED BY <2>1, <2>2, QuietStep DEF Users
<1>2. ASSUME NEW t \in Typed, NEW a \in Names, NEW ttl \in TTLs \cup {None},
             Alias(u, t, a, ttl)
      PROVE  Good
  <2> DEFINE j == [Idle EXCEPT !.at = "by alias", !.kind = "alias", !.text = t,
                               !.alias = a, !.ttl = ttl]
  <2>1. Ready(j, senders)
    BY AddressingAssumption DEF Ready, Idle, Jobs
  <2>2. job' = [job EXCEPT ![u] = j] /\ UNCHANGED senders
    BY <1>2 DEF Alias, Start
  <2> QED BY <2>1, <2>2, QuietStep DEF Users
<1> QED BY <1>1, <1>2 DEF Shell

LEMMA ScreenStep ==
    ASSUME TableOK, ProgramsOK, NEW u \in Screens, Screen(u)
    PROVE  Good
<1> u \in Users /\ job[u] \in Jobs /\ Ready(job[u], senders) /\ job[u].kind # "alias"
  BY AddressingAssumption DEF Users, ProgramsOK
<1>1. ASSUME NEW t \in Typed, New(u, t)
      PROVE  Good
  <2> DEFINE j == [Idle EXCEPT !.at = "compose", !.kind = "compose", !.text = t]
  <2>1. Ready(j, senders) /\ j.kind # "alias"
    BY AddressingAssumption DEF Ready, Idle, Jobs
  <2> QED BY <1>1, <2>1, QuietStep DEF New, Start
<1>2. ASSUME NEW n \in Nodes, Reply(u, n)
      PROVE  Good
  <2> DEFINE j == [Idle EXCEPT !.at = "compose", !.kind = "compose", !.text = Prefill(n),
                               !.answers = n]
  <2>1. n \in Texts /\ Prefill(n) \in Texts
    BY RowsOK DEF Prefill, Texts
  <2>2. Ready(j, senders) /\ j.kind # "alias"
    BY <2>1, AddressingAssumption DEF Ready, Idle, Jobs
  <2> QED BY <1>2, <2>2, QuietStep DEF Reply, Start
<1>3. ASSUME NEW n \in Nodes, SetAlias(u, n)
      PROVE  Good
  <2> DEFINE j == [Idle EXCEPT !.at = "dialog", !.kind = "rename", !.text = n]
  <2>1. Ready(j, senders) /\ j.kind # "alias"
    BY AddressingAssumption DEF Ready, Idle, Jobs, Texts
  <2> QED BY <1>3, <2>1, QuietStep DEF SetAlias, Start
<1>4. ASSUME NEW a \in Names, Submit(u, a)
      PROVE  Good
  <2> DEFINE j == [job[u] EXCEPT !.at = "ensure", !.alias = a]
  <2>1. Ready(j, senders) /\ j.kind # "alias"
    BY <1>4 DEF Submit, Ready, Jobs
  <2> QED BY <1>4, <2>1, QuietStep DEF Submit, Step
<1>5. CASE Close(u)
  BY <1>5, IdleReady, QuietStep DEF Close, Step
<1>6. CASE PressSend(u)
  <2> DEFINE j == [job[u] EXCEPT !.at = "by alias"]
  <2>1. Ready(j, senders) /\ j.kind # "alias"
    BY <1>6 DEF PressSend, Ready, Jobs
  <2> QED BY <1>6, <2>1, QuietStep DEF PressSend, Step
<1> QED BY <1>1, <1>2, <1>3, <1>4, <1>5, <1>6 DEF Screen

\* A SELECT answers with a row that is there, or the caller goes on without.
LEMMA LookStep ==
    ASSUME TableOK, ProgramsOK, NEW u \in Users, LookAlias(u) \/ LookNode(u)
    PROVE  Good
<1> DEFINE j == job[u]
<1> j \in Jobs /\ Ready(j, senders) /\ (j.kind = "alias" => u \in Shells)
  BY DEF ProgramsOK
<1>0. j.at \in {"by alias", "by node"} /\ j.text \in Texts
  BY DEF LookAlias, LookNode, Ready
<1>1. ASSUME NEW rows, rows \subseteq {n \in Texts : senders[n].known}, Found(u, rows)
      PROVE  Good
  <2>1. PICK n \in rows :
          Step(u, [j EXCEPT !.row = n,
                            !.at = IF j.kind = "alias" THEN "update" ELSE "enqueue"])
    BY <1>1 DEF Found
  <2> DEFINE i == [j EXCEPT !.row = n,
                            !.at = IF j.kind = "alias" THEN "update" ELSE "enqueue"]
  <2>2. n \in Texts /\ senders[n].known
    BY <1>1
  <2>3. Ready(i, senders) /\ i.kind = j.kind
    BY <1>0, <2>2 DEF Ready, Jobs
  <2> QED BY <2>1, <2>3, QuietStep DEF Step
<1>2. CASE Step(u, [j EXCEPT !.at = "by node"])
  <2>1. Ready([j EXCEPT !.at = "by node"], senders)
    BY <1>0 DEF Ready, Jobs
  <2> QED BY <1>2, <2>1, QuietStep DEF Step, Jobs
<1>3. CASE NotFound(u)
  <2>1. Ready([j EXCEPT !.at = "ensure"], senders) \/ j.kind = "send"
    BY <1>0 DEF Ready, Jobs
  <2>2. Ready([j EXCEPT !.at = "compose"], senders) \/ j.kind # "compose"
    BY <1>0 DEF Ready, Jobs
  <2>3. j.kind \in {"alias", "send", "compose"}
    BY <1>0 DEF Ready
  <2>4. PICK i : /\ Step(u, i)
                 /\ \/ i = Idle
                    \/ i = [j EXCEPT !.at = "ensure"] /\ j.kind # "send"
                    \/ i = [j EXCEPT !.at = "compose"] /\ j.kind = "compose"
    BY <1>3, <2>3 DEF NotFound
  <2>5. Ready(i, senders) /\ (i.kind = "alias" => u \in Shells)
    BY <2>1, <2>2, <2>4, IdleReady DEF Jobs
  <2> QED BY <2>4, <2>5, QuietStep DEF Step
<1>4. /\ ByAlias(j.text, senders) \subseteq {n \in Texts : senders[n].known}
      /\ ByNode(j.text, senders) \subseteq {n \in Texts : senders[n].known}
  BY RowsOK DEF ByAlias, ByNode
<1> QED BY <1>1, <1>2, <1>3, <1>4 DEF LookAlias, LookNode
-----------------------------------------------------------------------------
LEMMA EnsuredReady ==
    ASSUME NEW j \in Jobs, NEW table, Ready(j, table), j.at \in {"ensure", "insert"},
           table[j.text].known
    PROVE  /\ Ready(Ensured(j), table)
           /\ Ensured(j).kind = "alias" => j.kind = "alias"
           /\ j.kind = "alias" => Ensured(j) = Idle
<1>1. j.kind \in {"alias", "compose", "rename"} /\ j.text \in Texts
  BY DEF Ready
<1>2. CASE j.kind = "alias"
  BY <1>2 DEF Ensured, Idle, Ready, Jobs
<1>3. CASE j.kind = "compose"
  <2>1. Ensured(j) = [j EXCEPT !.at = "enqueue", !.row = j.text]
    BY <1>3 DEF Ensured
  <2> QED BY <1>1, <1>3, <2>1 DEF Ready, Jobs
<1>4. CASE j.kind = "rename"
  <2>1. Ensured(j) = [j EXCEPT !.at = "update", !.row = j.text]
    BY <1>4 DEF Ensured
  <2> QED BY <1>1, <1>4, <2>1 DEF Ready, Jobs
<1> QED BY <1>1, <1>2, <1>3, <1>4

LEMMA EnsureStep ==
    ASSUME TableOK, ProgramsOK, NEW u \in Users, Ensure(u)
    PROVE  Good
<1> DEFINE j == job[u]
<1> j \in Jobs /\ Ready(j, senders) /\ (j.kind = "alias" => u \in Shells)
  BY DEF ProgramsOK
<1>1. CASE senders[j.text].known
  <2>1. Step(u, Ensured(j)) /\ j.at = "ensure"
    BY <1>1 DEF Ensure
  <2> QED BY <1>1, <2>1, EnsuredReady, QuietStep DEF Step
<1>2. CASE ~senders[j.text].known
  <2>1. Step(u, [j EXCEPT !.at = "insert"]) /\ j.at = "ensure"
    BY <1>2 DEF Ensure
  <2>2. Ready([j EXCEPT !.at = "insert"], senders)
    BY <2>1 DEF Ready, Jobs
  <2> QED BY <2>1, <2>2, QuietStep DEF Step, Jobs
<1> QED BY <1>1, <1>2

LEMMA RaisesStep ==
    ASSUME TableOK, ProgramsOK, NEW u \in Users, Raises(u)
    PROVE  Good
BY IdleReady, QuietStep DEF Raises, Step

\* A first row: nobody else has its alias, and it is not there yet.
LEMMA AppearStep ==
    ASSUME TableOK, NEW n \in Texts, NEW row \in Table!Sender,
           Table!Appear(n, row)
    PROVE  TableOK' /\ Kept /\ TableStep /\ senders'[n].known
<1>1. senders' = [senders EXCEPT ![n] = row] /\ row.known = TRUE
  BY DEF Table!Appear, Table!Sender
<1>2. TableOK' /\ senders'[n] = row
  BY <1>1 DEF TableOK
<1>3. Kept
  BY <1>1 DEF Kept, TableOK
<1>4. TableStep
  BY DEF TableStep, Table!Next
<1> QED BY <1>1, <1>2, <1>3, <1>4

LEMMA InsertStep ==
    ASSUME TableOK, ProgramsOK, NEW u \in Users, Insert(u)
    PROVE  Good
<1> DEFINE j == job[u]
           row == NewSender(j)
<1>1. j \in Jobs /\ Ready(j, senders) /\ (j.kind = "alias" => u \in Shells)
  BY DEF ProgramsOK
<1>2. j.at = "insert" /\ j.text \in Texts
  BY <1>1 DEF Insert, Writes, Ready
<1>3. CASE Raises(u)
  BY <1>3, RaisesStep
<1>4. CASE /\ ~Refused(j, row)
           /\ senders' = [senders EXCEPT ![j.text] = row]
           /\ job' = [job EXCEPT ![u] = Ensured(j)]
  <2>1. row \in Table!Sender /\ row.auto_delete_after_s = j.ttl
    BY <1>1 DEF NewSender, Ready, Jobs, Table!Sender
  <2>2. Table!Appear(j.text, row)
    BY <1>4 DEF Refused, Table!Appear
  <2>3. TableOK' /\ Kept /\ TableStep /\ senders'[j.text].known
    BY <1>2, <2>1, <2>2, AppearStep
  <2>4. Ready(j, senders')
    BY <1>1, <1>2 DEF Ready
  <2>5. /\ Ready(Ensured(j), senders')
        /\ Ensured(j).kind = "alias" => j.kind = "alias"
        /\ j.kind = "alias" => Ensured(j) = Idle
    BY <1>1, <1>2, <2>3, <2>4, EnsuredReady
  <2>6. ProgramsOK'
    BY <1>1, <1>4, <2>3, <2>5, JobStep
  <2>7. TTLStep
    <3> SUFFICES ASSUME NEW n \in Texts,
                        senders'[n].auto_delete_after_s # senders[n].auto_delete_after_s
                 PROVE  \E v \in Shells : job[v].kind = "alias" /\ job'[v] = Idle
      BY DEF TTLStep
    <3>1. n = j.text /\ senders'[n] = row
      BY <1>4 DEF TableOK
    <3>2. senders[n].auto_delete_after_s = None
      BY <1>2, <2>2, <3>1, RowsOK DEF Table!Appear, Absent, Table!Absent
    <3>3. j.kind = "alias"
      BY <1>1, <2>1, <3>1, <3>2 DEF Ready
    <3>4. job'[u] = Idle
      BY <1>4, <2>5, <3>3 DEF ProgramsOK
    <3> QED BY <1>1, <3>3, <3>4
  <2> QED BY <2>3, <2>6, <2>7 DEF Good
<1> QED BY <1>3, <1>4 DEF Insert

LEMMA UpdateStep ==
    ASSUME TableOK, ProgramsOK, NEW u \in Users, Update(u)
    PROVE  Good
<1> DEFINE j == job[u]
           row == Renamed(j)
<1>1. j \in Jobs /\ Ready(j, senders) /\ (j.kind = "alias" => u \in Shells)
  BY DEF ProgramsOK
<1>2. j.at = "update" /\ j.row \in Texts /\ senders[j.row].known /\ j.alias \in Names
  BY <1>1 DEF Update, Writes, Ready
<1>3. CASE Raises(u)
  BY <1>3, RaisesStep
<1>4. CASE /\ ~Table!Taken(j.alias, j.row)
           /\ senders' = [senders EXCEPT ![j.row] = row]
           /\ job' = [job EXCEPT ![u] = Idle]
  <2>1. /\ row \in Table!Sender /\ row.alias = j.alias
        /\ row.auto_delete_after_s =
             IF j.kind = "alias" THEN j.ttl ELSE senders[j.row].auto_delete_after_s
    <3>1. senders[j.row] \in Table!Sender
      BY <1>2, RowsOK DEF Absent, Table!Absent
    <3> QED BY <1>1, <1>2, <3>1 DEF Renamed, Jobs, Table!Sender
  <2>2. Table!Rename(j.row, row)
    BY <1>2, <1>4, <2>1, AddressingAssumption DEF Table!Rename, Texts
  <2>3. TableStep
    BY <1>2, <2>1, <2>2 DEF TableStep, Table!Next
  <2>4. TableOK' /\ Kept
    BY <1>4, <2>1 DEF TableOK, Kept, Table!Sender
  <2>5. ProgramsOK'
    <3>1. Ready(Idle, senders') /\ Idle.kind # "alias"
      BY DEF Ready, Idle, Jobs
    <3> QED BY <1>4, <2>4, <3>1, JobStep
  <2>6. TTLStep
    <3> SUFFICES ASSUME NEW n \in Texts,
                        senders'[n].auto_delete_after_s # senders[n].auto_delete_after_s
                 PROVE  \E v \in Shells : job[v].kind = "alias" /\ job'[v] = Idle
      BY DEF TTLStep
    <3>1. n = j.row /\ senders'[n] = row
      BY <1>4 DEF TableOK
    <3>2. j.kind = "alias"
      BY <2>1, <3>1
    <3>3. job'[u] = Idle
      BY <1>4 DEF ProgramsOK
    <3> QED BY <1>1, <3>2, <3>3
  <2> QED BY <2>3, <2>4, <2>5, <2>6 DEF Good
<1> QED BY <1>3, <1>4 DEF Update
LEMMA ProgramStep ==
    ASSUME TableOK, ProgramsOK, NEW u \in Users, Program(u)
    PROVE  Good
<1>1. CASE Enqueue(u)
  BY <1>1, IdleReady, QuietStep DEF Enqueue
<1>2. CASE LockedOut(u)
  BY <1>2, RaisesStep DEF LockedOut
<1> QED BY <1>1, <1>2, LookStep, EnsureStep, InsertStep, UpdateStep DEF Program

LEMMA DaemonStep ==
    ASSUME TableOK, ProgramsOK, OthersOK, Daemon
    PROVE  Good
<1>1. UNCHANGED job
  BY DEF Daemon, RxInsert, DaemonWrite, RxLook
<1>2. CASE UNCHANGED senders
  BY <1>1, <1>2 DEF Good, TableOK, ProgramsOK, Ready, TableStep, TTLStep
<1>3. CASE RxInsert /\ ~senders[rx].known
  <2> DEFINE row == [Absent EXCEPT !.known = TRUE]
  <2>1. /\ rx \in Texts
        /\ senders' = [senders EXCEPT ![rx] = row]
        /\ row \in Table!Sender /\ row.alias = None /\ row.auto_delete_after_s = None
    BY <1>3 DEF RxInsert, OthersOK, Texts, Absent, Table!Absent, Table!Sender
  <2>2. Table!Appear(rx, row)
    BY <1>3, <2>1 DEF Table!Appear, Table!Taken
  <2>3. TableOK' /\ Kept /\ TableStep
    BY <2>1, <2>2, AppearStep
  <2>4. ProgramsOK'
    BY <1>1, <2>3 DEF ProgramsOK, Ready, Kept
  <2>5. TTLStep
    <3>1. senders[rx].auto_delete_after_s = None
      BY <1>3, <2>1, RowsOK DEF Absent, Table!Absent
    <3>2. \A n \in Texts : senders'[n].auto_delete_after_s = senders[n].auto_delete_after_s
      BY <2>1, <3>1 DEF TableOK
    <3> QED BY <3>2 DEF TTLStep
  <2> QED BY <2>3, <2>4, <2>5 DEF Good
<1> QED BY <1>2, <1>3 DEF Daemon, RxInsert, DaemonWrite, RxLook

LEMMA NextGood ==
    ASSUME IInv, Next
    PROVE  Good
BY ShellStep, ScreenStep, ProgramStep, DaemonStep DEF IInv, Next

\* The table alone: the variables of OthersOK.
LEMMA NextOthers ==
    ASSUME IInv, Next
    PROVE  OthersOK'
<1>1. steady' \in [Screens -> BOOLEAN]
  BY DEF Next, History
<1>2. \A u \in Users : Ready(job[u], senders)
  BY DEF IInv, ProgramsOK
<1>3. OthersOK
  BY DEF IInv
<1>4. ASSUME NEW u \in Shells, Shell(u)
      PROVE  queued' = None /\ UNCHANGED <<rx, held>>
  BY <1>4 DEF Shell, Send, Alias, Start
<1>5. ASSUME NEW u \in Screens, Screen(u)
      PROVE  queued' = None /\ UNCHANGED <<rx, held>>
  BY <1>5 DEF Screen, New, Reply, SetAlias, Submit, Close, PressSend, Start, Step
<1>6. ASSUME NEW u \in Users, Program(u)
      PROVE  queued' \in Texts \cup {None} /\ UNCHANGED <<rx, held>>
  <2>1. CASE LookAlias(u) \/ LookNode(u)
    BY <2>1 DEF LookAlias, LookNode, Found, NotFound, Step
  <2>2. CASE Ensure(u) \/ LockedOut(u)
    BY <2>2 DEF Ensure, LockedOut, Raises, Step
  <2>3. CASE Insert(u) \/ Update(u)
    BY <2>3 DEF Insert, Update, Raises, Step
  <2>4. CASE Enqueue(u)
    BY <1>2, <2>4 DEF Enqueue, Writes, Ready
  <2> QED BY <1>6, <2>1, <2>2, <2>3, <2>4 DEF Program
<1>7. ASSUME Daemon
      PROVE  queued' = None /\ rx' \in Nodes \cup {None} /\ held' \in BOOLEAN
  <2>1. TableOK /\ OthersOK
    BY DEF IInv
  <2>2. ASSUME NEW n \in Texts
        PROVE  senders[n].known \in BOOLEAN
    <3>1. CASE senders[n] = Absent
      BY <3>1 DEF Absent, Table!Absent
    <3>2. CASE senders[n] \in Table!Sender
      BY <3>2 DEF Table!Sender
    <3> QED BY <2>1, <3>1, <3>2 DEF TableOK
  <2>3. CASE RxInsert
    <3>1. rx \in Texts
      BY <2>1, <2>3 DEF RxInsert, OthersOK, Texts
    <3> QED BY <2>2, <2>3, <3>1 DEF RxInsert
  <2>4. CASE DaemonWrite \/ \E n \in Nodes : RxLook(n)
    BY <2>1, <2>4 DEF RxLook, DaemonWrite, OthersOK
  <2> QED BY <1>7, <2>3, <2>4 DEF Daemon
<1>8. queued' \in Texts \cup {None} /\ rx' \in Nodes \cup {None} /\ held' \in BOOLEAN
  BY <1>3, <1>4, <1>5, <1>6, <1>7 DEF Next, OthersOK
<1> QED BY <1>1, <1>8 DEF OthersOK

LEMMA InitIInv == Init => IInv
<1> SUFFICES ASSUME Init PROVE IInv
  OBVIOUS
<1>1. TableOK /\ OthersOK
  BY DEF Init, TableOK, OthersOK, Absent, Table!Absent
<1>2. ProgramsOK
  BY DEF Init, ProgramsOK, Ready, Idle, Jobs
<1> QED BY <1>1, <1>2 DEF IInv

LEMMA NextIInv ==
    ASSUME IInv, [Next]_vars
    PROVE  IInv' /\ TableStep /\ TTLStep
<1>1. CASE Next
  BY <1>1, NextGood, NextOthers DEF IInv, Good
<1>2. CASE UNCHANGED vars
  BY <1>2 DEF vars, IInv, TableOK, ProgramsOK, OthersOK, Ready, TableStep, TTLStep
<1> QED BY <1>1, <1>2

\* IInv is an invariant of Addressing.
THEOREM Invariance == Spec => []IInv
<1>1. IInv /\ [Next]_vars => IInv'
  BY NextIInv
<1> QED BY InitIInv, <1>1, PTL DEF Spec

\* Every variable of Addressing keeps its type.
THEOREM TypeCorrect == Spec => []TypeOK
<1>1. IInv => TypeOK
  BY DEF IInv, TableOK, ProgramsOK, OthersOK, Ready, Jobs, TypeOK
<1> QED BY Invariance, <1>1, PTL

\* However the programs and the daemon interleave, the table senders keeps the
\* promises of SenderTable: one row per node, rows that stay, unique aliases.
THEOREM TableRefined == Spec => ImplementsTable
<1>1. Init => Table!Init
  BY DEF Init, Table!Init, Absent
<1>2. IInv /\ [Next]_vars => [Table!Next]_senders
  BY NextIInv DEF TableStep
<1> QED BY Invariance, <1>1, <1>2, PTL DEF Spec, ImplementsTable, Table!Spec

\* Only the alias command changes a time to live.
THEOREM TTLOnlyByCommand == Spec => TTLByCommandOnly
<1>1. IInv /\ [Next]_vars => [TTLStep]_vars
  BY NextIInv
<1> QED BY Invariance, <1>1, PTL DEF Spec, TTLByCommandOnly, TTLStep
-----------------------------------------------------------------------------
(* Where a reply goes                                                      *)

\* What is left to show for screen u when its program steps to i.
LEMMA Course ==
    ASSUME IInv, RInv, History, NEW u \in Screens, NEW i,
           job' = [job EXCEPT ![u] = i],
           i.at \in {"idle", "compose", "dialog", "by alias", "update"}
    PROVE  OnCourse(u)'
<1>1. job'[u] = i
  BY DEF IInv, ProgramsOK, Users
<1> QED BY <1>1 DEF OnCourse, History

\* The text of a reply on course, once resolve_alias has looked for an alias in
\* vain, is the node id of the sender, and no other text is equal to it.
LEMMA LookAliasCourse ==
    ASSUME IInv, RInv, History, NEW u \in Screens, LookAlias(u)
    PROVE  OnCourse(u)'
<1> DEFINE j == job[u]
           rows == ByAlias(j.text, senders)
<1>1. u \in Users /\ Ready(j, senders) /\ j \in Jobs
  BY DEF IInv, ProgramsOK, Users
<1>2. UNCHANGED senders /\ j.at = "by alias" /\ j.text \in Texts
  BY <1>1 DEF LookAlias, Found, Step, Ready
<1>3. SUFFICES ASSUME job'[u].answers # None, steady'[u]
               PROVE  /\ job'[u].at \in {"by node", "ensure", "insert"}
                           => job'[u].text = job'[u].answers
                      /\ job'[u].at = "enqueue" => job'[u].row = job'[u].answers
  BY DEF OnCourse, History
<1>4. Named(job'[u].text, senders) = {job'[u].answers}
  BY <1>2, <1>3 DEF History
<1>5. CASE rows # {}
  <2>1. PICK n \in rows :
          Step(u, [j EXCEPT !.row = n,
                            !.at = IF j.kind = "alias" THEN "update" ELSE "enqueue"])
    BY <1>5 DEF LookAlias, Found
  <2>2. job'[u] = [j EXCEPT !.row = n,
                            !.at = IF j.kind = "alias" THEN "update" ELSE "enqueue"]
    BY <1>1, <2>1 DEF Step, IInv, ProgramsOK
  <2>3. /\ job'[u].text = j.text /\ job'[u].row = n
        /\ job'[u].at \in {"update", "enqueue"}
    BY <1>1, <2>2 DEF Jobs
  <2>4. n = job'[u].answers
    BY <1>4, <1>5, <2>1, <2>3 DEF Named
  <2> QED BY <2>3, <2>4
<1>6. CASE rows = {}
  <2>1. job'[u] = [j EXCEPT !.at = "by node"]
    BY <1>1, <1>6 DEF LookAlias, Step, IInv, ProgramsOK
  <2>2. job'[u].text = j.text /\ job'[u].at = "by node" /\ job'[u].answers = j.answers
    BY <1>1, <2>1 DEF Jobs
  <2>3. j.answers \in ByNode(j.text, senders) /\ j.answers \in Nodes
    BY <1>1, <1>3, <1>4, <1>6, <2>2 DEF Named, Jobs
  <2>4. j.text = j.answers
    BY <1>2, <2>3, FoldAssumption DEF ByNode
  <2> QED BY <2>2, <2>4
<1> QED BY <1>5, <1>6

LEMMA LookNodeCourse ==
    ASSUME IInv, RInv, History, NEW u \in Screens, LookNode(u)
    PROVE  OnCourse(u)'
<1> DEFINE j == job[u]
           rows == ByNode(j.text, senders)
<1>1. u \in Users /\ Ready(j, senders) /\ j \in Jobs
  BY DEF IInv, ProgramsOK, Users
<1>2. j.at = "by node" /\ j.text \in Texts /\ j.kind \in {"alias", "send", "compose"}
  BY <1>1 DEF LookNode, Ready
<1>3. SUFFICES ASSUME job'[u].answers # None, steady'[u]
               PROVE  /\ job'[u].at \in {"by node", "ensure", "insert"}
                           => job'[u].text = job'[u].answers
                      /\ job'[u].at = "enqueue" => job'[u].row = job'[u].answers
  BY DEF OnCourse, History
<1>4. ASSUME j.answers # None
      PROVE  j.text = j.answers /\ j.text \in Nodes
  BY <1>1, <1>2, <1>3, <1>4 DEF RInv, OnCourse, History, Jobs
<1>5. CASE rows # {}
  <2>1. PICK n \in rows :
          Step(u, [j EXCEPT !.row = n,
                            !.at = IF j.kind = "alias" THEN "update" ELSE "enqueue"])
    BY <1>5 DEF LookNode, Found
  <2>2. job'[u] = [j EXCEPT !.row = n,
                            !.at = IF j.kind = "alias" THEN "update" ELSE "enqueue"]
    BY <1>1, <2>1 DEF Step, IInv, ProgramsOK
  <2>3. /\ job'[u].answers = j.answers /\ job'[u].row = n
        /\ job'[u].at \in {"update", "enqueue"}
    BY <1>1, <2>2 DEF Jobs
  <2>4. n \in Texts /\ Fold[j.text] = Fold[n]
    BY <2>1 DEF ByNode
  <2>5. n = j.answers
    BY <1>3, <1>4, <2>3, <2>4, FoldAssumption
  <2> QED BY <2>3, <2>5
<1>6. CASE rows = {}
  <2>1. PICK i : /\ Step(u, i)
                 /\ \/ i = Idle
                    \/ i = [j EXCEPT !.at = "ensure"]
                    \/ i = [j EXCEPT !.at = "compose"]
    BY <1>2, <1>6 DEF LookNode, NotFound
  <2>2. job'[u] = i
    BY <1>1, <2>1 DEF Step, IInv, ProgramsOK
  <2>3. CASE i = Idle
    BY <1>3, <2>2, <2>3 DEF Idle
  <2>4. CASE i = [j EXCEPT !.at = "ensure"] \/ i = [j EXCEPT !.at = "compose"]
    <3>1. i.text = j.text /\ i.answers = j.answers /\ i.at \in {"ensure", "compose"}
      BY <1>1, <2>4 DEF Jobs
    <3> QED BY <1>3, <1>4, <2>2, <3>1
  <2> QED BY <2>1, <2>3, <2>4
<1> QED BY <1>5, <1>6

\* ensure_sender for a reply returns the row of its text.
LEMMA EnsureCourse ==
    ASSUME IInv, RInv, History, NEW u \in Screens, Ensure(u) \/ Insert(u)
    PROVE  OnCourse(u)'
<1> DEFINE j == job[u]
<1>1. u \in Users /\ Ready(j, senders) /\ j \in Jobs
  BY DEF IInv, ProgramsOK, Users
<1>2. j.at \in {"ensure", "insert"}
  BY DEF Ensure, Insert, Writes
<1>3. SUFFICES ASSUME job'[u].answers # None, steady'[u]
               PROVE  /\ job'[u].at \in {"by node", "ensure", "insert"}
                           => job'[u].text = job'[u].answers
                      /\ job'[u].at = "enqueue" => job'[u].row = job'[u].answers
  BY DEF OnCourse, History
<1>4. j.answers # None => j.text = j.answers /\ j.kind = "compose"
  BY <1>1, <1>2, <1>3 DEF RInv, OnCourse, History, Ready
<1>5. \/ job'[u] = Idle
      \/ job'[u] = Ensured(j)
      \/ job'[u] = [j EXCEPT !.at = "insert"]
  BY <1>1 DEF Ensure, Insert, Raises, Step, IInv, ProgramsOK
<1>6. CASE job'[u] = Idle
  BY <1>3, <1>6 DEF Idle
<1>7. CASE job'[u] = [j EXCEPT !.at = "insert"]
  <2>1. /\ job'[u].text = j.text /\ job'[u].answers = j.answers
        /\ job'[u].at = "insert"
    BY <1>1, <1>7 DEF Jobs
  <2> QED BY <1>3, <1>4, <2>1
<1>8. CASE job'[u] = Ensured(j)
  <2>1. j.kind \in {"alias", "compose", "rename"}
    BY <1>1, <1>2 DEF Ready
  <2>2. CASE j.kind = "compose"
    <3>1. Ensured(j) = [j EXCEPT !.at = "enqueue", !.row = j.text]
      BY <2>2 DEF Ensured
    <3>2. /\ job'[u].row = j.text /\ job'[u].answers = j.answers
          /\ job'[u].at = "enqueue"
      BY <1>1, <1>8, <3>1 DEF Jobs
    <3> QED BY <1>3, <1>4, <3>2
  <2>3. CASE j.kind # "compose"
    <3>1. Ensured(j) = Idle \/ Ensured(j) = [j EXCEPT !.at = "update", !.row = j.text]
      BY <2>1, <2>3 DEF Ensured
    <3>2. Idle.answers = None /\ [j EXCEPT !.at = "update", !.row = j.text].answers = j.answers
      BY <1>1 DEF Idle, Jobs
    <3> QED BY <1>3, <1>4, <1>8, <2>3, <3>1, <3>2
  <2> QED BY <2>2, <2>3
<1> QED BY <1>5, <1>6, <1>7, <1>8

\* A program that did not move stays on course, or is no longer steady.
LEMMA RestCourse ==
    ASSUME RInv, History, NEW u \in Screens, job'[u] = job[u]
    PROVE  OnCourse(u)'
BY DEF RInv, OnCourse, History

LEMMA NextRInv ==
    ASSUME IInv, RInv, Next
    PROVE  RInv'
<1>1. History
  BY DEF Next
<1>2. SUFFICES ASSUME NEW u \in Screens
               PROVE  OnCourse(u)'
  BY DEF RInv
<1>3. u \in Users /\ u \notin Shells /\ job \in [Users -> Jobs]
  BY AddressingAssumption DEF IInv, ProgramsOK, Users
<1>4. CASE Screen(u)
  <2> DEFINE Screened(i) == /\ job' = [job EXCEPT ![u] = i]
                            /\ i.at \in {"idle", "compose", "dialog", "by alias"}
  <2>1. CASE \E t \in Typed : New(u, t)
    <3>1. PICK t \in Typed : New(u, t)
      BY <2>1
    <3>2. Screened([Idle EXCEPT !.at = "compose", !.kind = "compose", !.text = t])
      BY <3>1 DEF New, Start, Idle
    <3> QED BY <1>1, <3>2, Course
  <2>2. CASE \E n \in Nodes : Reply(u, n)
    <3>1. PICK n \in Nodes : Reply(u, n)
      BY <2>2
    <3>2. Screened([Idle EXCEPT !.at = "compose", !.kind = "compose",
                                !.text = Prefill(n), !.answers = n])
      BY <3>1 DEF Reply, Start, Idle
    <3> QED BY <1>1, <3>2, Course
  <2>3. CASE \E n \in Nodes : SetAlias(u, n)
    <3>1. PICK n \in Nodes : SetAlias(u, n)
      BY <2>3
    <3>2. Screened([Idle EXCEPT !.at = "dialog", !.kind = "rename", !.text = n])
      BY <3>1 DEF SetAlias, Start, Idle
    <3> QED BY <1>1, <3>2, Course
  <2>4. CASE Close(u)
    <3>1. Screened(Idle)
      BY <2>4 DEF Close, Step, Idle
    <3> QED BY <1>1, <3>1, Course
  <2>5. CASE PressSend(u)
    <3>1. Screened([job[u] EXCEPT !.at = "by alias"])
      BY <1>3, <2>5 DEF PressSend, Step, Jobs
    <3> QED BY <1>1, <3>1, Course
  <2>6. ASSUME NEW a \in Names, Submit(u, a)
        PROVE  OnCourse(u)'
    <3>1. job[u].answers = None
      BY <1>3, <2>6 DEF Submit, IInv, ProgramsOK, Ready
    <3>2. job'[u].answers = None
      BY <1>3, <2>6, <3>1 DEF Submit, Step, Jobs
    <3> QED BY <3>2 DEF OnCourse
  <2> QED BY <1>4, <2>1, <2>2, <2>3, <2>4, <2>5, <2>6 DEF Screen
<1>5. CASE Program(u)
  <2>1. CASE LookAlias(u)
    BY <1>1, <2>1, LookAliasCourse
  <2>2. CASE LookNode(u)
    BY <1>1, <2>2, LookNodeCourse
  <2>3. CASE Ensure(u) \/ Insert(u)
    BY <1>1, <2>3, EnsureCourse
  <2>4. CASE Update(u) \/ Enqueue(u) \/ LockedOut(u)
    <3>1. job' = [job EXCEPT ![u] = Idle] /\ Idle.at = "idle"
      BY <2>4 DEF Update, Enqueue, LockedOut, Raises, Step, Idle
    <3> QED BY <1>1, <3>1, Course
  <2> QED BY <1>5, <2>1, <2>2, <2>3, <2>4 DEF Program
<1>6. ASSUME NEW v \in Users, v # u, Shell(v) \/ Screen(v) \/ Program(v)
      PROVE  job'[u] = job[u]
  <2>1. \E i : job' = [job EXCEPT ![v] = i]
    <3>1. CASE Shell(v)
      BY <3>1 DEF Shell, Send, Alias, Start
    <3>2. CASE Screen(v)
      BY <3>2 DEF Screen, New, Reply, SetAlias, Submit, Close, PressSend, Start, Step
    <3>3. CASE LookAlias(v) \/ LookNode(v)
      BY <3>3 DEF LookAlias, LookNode, Found, NotFound, Step
    <3>4. CASE Ensure(v) \/ Insert(v) \/ Update(v)
      BY <3>4 DEF Ensure, Insert, Update, Raises, Step
    <3>5. CASE Enqueue(v) \/ LockedOut(v)
      BY <3>5 DEF Enqueue, LockedOut, Raises, Step
    <3> QED BY <1>6, <3>1, <3>2, <3>3, <3>4, <3>5 DEF Program
  <2> QED BY <1>3, <1>6, <2>1
<1>7. CASE Daemon
  BY <1>1, <1>7, RestCourse DEF Daemon, RxInsert, DaemonWrite, RxLook
<1> QED BY <1>1, <1>3, <1>4, <1>5, <1>6, <1>7, RestCourse DEF Next, Users

\* A reply goes to the sender of the message it answers, as long as the text in
\* its To field has named that sender and nobody else.
THEOREM ReplyIsDelivered == Spec => []ReplyReachesSender
<1>1. Init => RInv
  <2> SUFFICES ASSUME Init PROVE RInv
    OBVIOUS
  <2>1. \A u \in Screens : job[u].answers = None
    BY DEF Init, Idle, Users
  <2> QED BY <2>1 DEF RInv, OnCourse
<1>2. IInv /\ RInv /\ [Next]_vars => RInv'
  <2>1. ASSUME IInv, RInv, UNCHANGED vars
        PROVE  RInv'
    BY <2>1 DEF vars, RInv, OnCourse, Named, ByAlias, ByNode
  <2> QED BY <2>1, NextRInv
<1>3. RInv => ReplyReachesSender
  BY DEF RInv, OnCourse, ReplyReachesSender
<1> QED BY Invariance, <1>1, <1>2, <1>3, PTL DEF Spec
=============================================================================

-------------------------- MODULE InboxScreenProofs --------------------------
(***************************************************************************)
(* Proofs about module InboxScreen, for any number of messages, any limits *)
(* of the lists and any number of failing SELECTs.                         *)
(***************************************************************************)
EXTENDS InboxScreen, FiniteSetTheorems, SequenceTheorems, TLAPS

-----------------------------------------------------------------------------
(* The lists                                                               *)

\* The messages that precede i in S.
Before(S, i) == {j \in S : j < i}

\* Every place of the list is taken by one message: their ranks are different,
\* and there are as many of them as there are places.
LEMMA OldestFirstIsList ==
    ASSUME NEW S \in SUBSET Ids
    PROVE  OldestFirst(S) \in Seq(S) /\ Len(OldestFirst(S)) = Cardinality(S)
           /\ Cardinality(S) \in Nat /\ Cardinality(S) <= Cardinality(Ids)
<1> DEFINE m == Cardinality(S)
           rank == [i \in S |-> Cardinality(Before(S, i))]
<1>1. IsFiniteSet(S) /\ m \in Nat /\ m <= Cardinality(Ids)
  BY FS_Subset, FS_CardinalityType, InboxAssumption
<1>2. Cardinality(Ids) \in Nat /\ S \subseteq Nat
  BY FS_CardinalityType, InboxAssumption
<1>3. ASSUME NEW i \in S
      PROVE  /\ Before(S, i) \in SUBSET S /\ IsFiniteSet(Before(S, i))
             /\ rank[i] \in Nat /\ rank[i] < m
  <2>1. Before(S, i) \in SUBSET S /\ i \notin Before(S, i)
    BY <1>2 DEF Before
  <2>2. /\ IsFiniteSet(Before(S, i)) /\ Cardinality(Before(S, i)) <= m
        /\ Cardinality(Before(S, i)) # m
    BY <1>1, <2>1, FS_Subset
  <2>3. Cardinality(Before(S, i)) \in Nat
    BY <2>2, FS_CardinalityType
  <2> QED BY <1>1, <2>1, <2>2, <2>3
<1>4. ASSUME NEW i \in S, NEW k \in S, i < k
      PROVE  rank[i] < rank[k]
  <2>1. Before(S, i) \in SUBSET Before(S, k) /\ i \in Before(S, k) /\ i \notin Before(S, i)
    <3>1. \A j \in S : j < i => j < k
      BY <1>2, <1>4
    <3>2. ~(i < i)
      BY <1>2
    <3> QED BY <1>4, <3>1, <3>2 DEF Before
  <2>2. /\ Cardinality(Before(S, i)) <= Cardinality(Before(S, k))
        /\ Cardinality(Before(S, i)) # Cardinality(Before(S, k))
    BY <1>3, <2>1, FS_Subset
  <2> QED BY <1>3, <2>2
<1>5. rank \in Injection(S, 0..(m - 1))
  <2>1. \A i \in S : rank[i] \in 0..(m - 1)
    BY <1>1, <1>3
  <2>2. rank \in [S -> 0..(m - 1)]
    BY <2>1
  <2>3. \A i, k \in S : i # k => rank[i] # rank[k]
    <3>1. SUFFICES ASSUME NEW i \in S, NEW k \in S, i # k PROVE rank[i] # rank[k]
      OBVIOUS
    <3>2. i < k \/ k < i
      BY <1>2, <3>1
    <3> HIDE DEF rank
    <3> QED BY <1>3, <1>4, <3>2
  <2> HIDE DEF rank
  <2> QED BY <2>2, <2>3 DEF Injection, IsInjective
<1>6. IsFiniteSet(0..(m - 1)) /\ Cardinality(0..(m - 1)) = m
  BY <1>1, FS_Interval
<1>7. rank \in Surjection(S, 0..(m - 1))
  <2> HIDE DEF rank
  <2> QED BY <1>5, <1>6, FS_Injection
<1>8. ASSUME NEW n \in 1..m
      PROVE  \E i \in S : Cardinality({j \in S : j < i}) = n - 1
  <2>1. n - 1 \in 0..(m - 1)
    BY <1>1
  <2>2. \E i \in S : rank[i] = n - 1
    BY <1>7, <2>1 DEF Surjection
  <2> QED BY <2>2 DEF Before
<1>9. OldestFirst(S) \in [1..m -> S]
  BY <1>8 DEF OldestFirst
<1>10. OldestFirst(S) \in Seq(S)
  BY <1>1, <1>9, IsASeq
<1> QED BY <1>1, <1>9, <1>10, LenProperties

LEMMA NewestFirstIsList ==
    ASSUME NEW S \in SUBSET Ids
    PROVE  NewestFirst(S) \in Seq(S) /\ Len(NewestFirst(S)) = Cardinality(S)
           /\ Cardinality(S) \in Nat /\ Cardinality(S) <= Cardinality(Ids)
<1> DEFINE s == OldestFirst(S)
           m == Cardinality(S)
<1>1. s \in Seq(S) /\ Len(s) = m /\ m \in Nat /\ m <= Cardinality(Ids)
  BY OldestFirstIsList
<1>2. s \in [1..m -> S]
  BY <1>1, LenProperties
<1> HIDE DEF s, m
<1>3. \A i \in 1..m : (m - i) + 1 \in 1..m
  BY <1>1
<1>4. [i \in 1..m |-> s[(m - i) + 1]] \in [1..m -> S]
  BY <1>2, <1>3
<1>5. NewestFirst(S) = [i \in 1..m |-> s[(m - i) + 1]]
  BY <1>1 DEF NewestFirst, Reverse, s
<1>6. NewestFirst(S) \in Seq(S)
  BY <1>1, <1>4, <1>5, IsASeq
<1>7. Len(NewestFirst(S)) = m
  BY <1>1, <1>4, <1>5, <1>6, LenProperties
<1> QED BY <1>1, <1>6, <1>7 DEF m

\* The newest message of S, and it alone, is preceded by all the others: it is
\* the first row of the list.
LEMMA NewestIsFirst ==
    ASSUME NEW S \in SUBSET Ids, NEW n \in S, \A j \in S : j <= n
    PROVE  Len(NewestFirst(S)) >= 1 /\ NewestFirst(S)[1] = n
<1> DEFINE m == Cardinality(S)
<1>1. IsFiniteSet(S) /\ S \subseteq Nat /\ m \in Nat
  BY FS_Subset, FS_CardinalityType, InboxAssumption
<1>2. IsFiniteSet(S \ {n}) /\ Cardinality(S \ {n}) = m - 1
  BY <1>1, FS_RemoveElement
<1>3. m \in Nat \ {0}
  <2>1. Cardinality(S \ {n}) \in Nat
    BY <1>2, FS_CardinalityType
  <2> QED BY <1>1, <1>2, <2>1
<1>4. {j \in S : j < n} = S \ {n}
  <2>1. \A j \in S : j < n <=> j # n
    BY <1>1
  <2> QED BY <2>1
<1>5. ASSUME NEW i \in S, i # n
      PROVE  Cardinality({j \in S : j < i}) # m - 1
  <2>1. {j \in S : j < i} \in SUBSET (S \ {n}) /\ i \notin {j \in S : j < i}
    BY <1>1
  <2>2. i \in S \ {n}
    BY <1>5
  <2>3. /\ Cardinality({j \in S : j < i}) = Cardinality(S \ {n})
             => S \ {n} = {j \in S : j < i}
    BY <1>2, <2>1, FS_Subset
  <2> QED BY <1>2, <2>1, <2>2, <2>3
<1>6. OldestFirst(S)[m] = n
  <2>1. OldestFirst(S)[m] = CHOOSE i \in S : Cardinality({j \in S : j < i}) = m - 1
    <3>1. m \in 1..m
      BY <1>3
    <3> QED BY <3>1 DEF OldestFirst
  <2>2. \A i \in S : Cardinality({j \in S : j < i}) = m - 1 <=> i = n
    BY <1>2, <1>4, <1>5
  <2> QED BY <2>1, <2>2
<1>7. Len(OldestFirst(S)) = m
  BY OldestFirstIsList
<1>8. NewestFirst(S) = [i \in 1..m |-> OldestFirst(S)[(m - i) + 1]]
  BY <1>7 DEF NewestFirst, Reverse
<1>9. Len(NewestFirst(S)) = m
  BY NewestFirstIsList
<1> HIDE DEF m
<1> QED BY <1>3, <1>6, <1>8, <1>9

\* What _fetch_rows returns: rows of the database, no more than there are.
IsList(rows) == rows \in Seq(Ids) /\ Len(rows) \in 0..Cardinality(Ids)

LEMMA FirstIsList ==
    ASSUME NEW rows, IsList(rows), NEW k \in Nat
    PROVE  IsList(First(rows, k))
<1> DEFINE n == IF Len(rows) < k THEN Len(rows) ELSE k
<1>1. Cardinality(Ids) \in Nat
  BY FS_CardinalityType, InboxAssumption
<1>2. n \in 0..Len(rows) /\ Len(rows) \in 0..Cardinality(Ids)
  BY <1>1 DEF IsList
<1>3. First(rows, k) = SubSeq(rows, 1, n)
  BY DEF First
<1> HIDE DEF n
<1>4. \A i \in 1..n : rows[i] \in Ids
  BY <1>1, <1>2, ElementOfSeq DEF IsList
<1>5. /\ SubSeq(rows, 1, n) \in Seq(Ids)
      /\ Len(SubSeq(rows, 1, n)) = IF 1 <= n THEN n - 1 + 1 ELSE 0
  BY <1>1, <1>2, <1>4, SubSeqProperties
<1> QED BY <1>1, <1>2, <1>3, <1>5 DEF IsList

LEMMA Lists == \A t \in Tabs : IsList(Listing(t))
<1>1. Cardinality(Ids) \in Nat /\ Inserted \subseteq Ids
  BY FS_CardinalityType, InboxAssumption DEF Inserted
<1>2. ASSUME NEW S \in SUBSET Ids
      PROVE  IsList(OldestFirst(S)) /\ IsList(NewestFirst(S))
  <2>1. Seq(S) \subseteq Seq(Ids)
    OBVIOUS
  <2> QED BY <1>1, <2>1, OldestFirstIsList, NewestFirstIsList DEF IsList
<1>3. IsList(InboxRows)
  BY <1>2, FirstIsList, InboxAssumption DEF InboxRows
<1>4. IsList(OutboxRows)
  BY <1>2 DEF OutboxRows
<1>5. IsList(HistoryRows)
  BY <1>1, <1>2, FirstIsList, InboxAssumption DEF HistoryRows
<1> QED BY <1>3, <1>4, <1>5 DEF Listing, Tabs

-----------------------------------------------------------------------------
(* The screen                                                              *)

\* A table that is due for no refresh, and that no other program has written
\* under, shows the list that a key selects again: the screen itself refreshes
\* after each of its own writes and after each change of tab.
TableIsListing == (fresh /\ pc # "refresh") => table = Listing(tab)

\* The dialog asks about the message that such a table showed at the cursor.
AsksAboutShown == shown # Nothing => (modal # NoModal /\ modal.msg = shown)

\* Every variable keeps its type, the table is a list, the cursor is on a row
\* of it, and the thread marks a message only once it has found one.
IInv == /\ TypeOK /\ IsList(table) /\ CursorInTable /\ (pc = "mark" => msg_id \in Ids)
        /\ TableIsListing /\ AsksAboutShown

LEMMA Numbers ==
    /\ Ids \subseteq Nat \ {0} /\ Nothing \notin Ids
    /\ Ids = 1..Cardinality(Ids) /\ Cardinality(Ids) \in Nat
    /\ \A S \in SUBSET Ids : Cardinality(S) \in Ids \cup {Nothing}
    /\ Cardinality(Inbound) \in Nat
    /\ \A S \in SUBSET Inbound : Cardinality(S) \in 0..Cardinality(Inbound)
<1>1. Ids = 1..Cardinality(Ids) /\ Cardinality(Ids) \in Nat
  BY FS_CardinalityType, InboxAssumption
<1>2. \A S \in SUBSET Ids : Cardinality(S) \in 0..Cardinality(Ids)
  BY <1>1, FS_CardinalityType, FS_Subset, InboxAssumption
<1>3. IsFiniteSet(Inbound) /\ Cardinality(Inbound) \in Nat
  BY FS_CardinalityType, FS_Subset, InboxAssumption
<1>4. \A S \in SUBSET Inbound : Cardinality(S) \in 0..Cardinality(Inbound)
  BY <1>3, FS_CardinalityType, FS_Subset
<1> QED BY <1>1, <1>2, <1>3, <1>4 DEF Nothing

\* The cursor is the number of a row, if there is any message at all.
LEMMA CursorIsRow ==
    ASSUME IInv
    PROVE  cursor \in Nat \ {0} /\ (Ids # {} => cursor \in Ids)
BY Numbers DEF IInv, IsList, CursorInTable

LEMMA InitIInv == Init => IInv
<1> SUFFICES ASSUME Init PROVE IInv
  OBVIOUS
<1>1. Cardinality(Ids) \in Nat /\ Cardinality(Inbound) \in Nat
  BY Numbers
<1>2. table = <<>> /\ table \in Seq(Ids) /\ Len(table) = 0
  BY DEF Init
<1>3. IsList(table)
  BY <1>1, <1>2 DEF IsList
<1>4. state \in [Ids -> States \cup {"NONE"}]
  BY DEF Init
<1>5. failures \in 0..MaxFailures /\ unread \in 0..Cardinality(Inbound) /\ cursor \in Nat
  BY <1>1, InboxAssumption DEF Init
<1>6. CursorInTable
  BY <1>2 DEF CursorInTable, Init
<1> QED BY <1>2, <1>3, <1>4, <1>5, <1>6 DEF Init, IInv, TypeOK, Tabs, Nothing, NoModal,
                                               TableIsListing, AsksAboutShown

LEMMA SameListing ==
    ASSUME UNCHANGED <<state, tab>>
    PROVE  Listing(tab)' = Listing(tab)
BY DEF Listing, InboxRows, OutboxRows, HistoryRows, Inserted

\* A refresh with the rows of the SELECT, or with none: the row it was asked
\* for, or the last one, is a row of the new table.
LEMMA ShowIInv ==
    ASSUME IInv, NEW rows, IsList(rows), Show(rows), failures' \in 0..MaxFailures,
           fresh' \in BOOLEAN, fresh' => rows = Listing(tab)
    PROVE  IInv'
<1> USE DEF IInv
<1>1. /\ UNCHANGED <<state, tab, unread, max_id_seen, msg_id, cursor_row, modal, shown>>
      /\ table' = rows /\ preview' \in {preview, Nothing}
      /\ pc' \in {"status", "idle", "preview"}
      /\ rows = <<>> => cursor' = 1
      /\ rows # <<>> => cursor' = Clamp(cursor_row, Len(rows))
  BY DEF Show, Return
<1>2. Len(rows) \in Nat /\ rows \in Seq(Ids) /\ (rows # <<>> => Len(rows) >= 1)
  BY Numbers DEF IsList
<1>3. cursor_row \in Nat
  BY Numbers DEF TypeOK, Nothing
<1>4. cursor' \in 1..(IF rows = <<>> THEN 1 ELSE Len(rows)) /\ cursor' \in Nat
  BY <1>1, <1>2, <1>3 DEF Clamp, Nothing
<1>5. CursorInTable'
  BY <1>1, <1>4 DEF CursorInTable
<1>6. TypeOK'
  BY <1>1, <1>2, <1>4 DEF TypeOK
<1>7. TableIsListing'
  BY <1>1, SameListing DEF TableIsListing
<1> QED BY <1>1, <1>5, <1>6, <1>7 DEF IsList, AsksAboutShown

\* Handlers, the poll and keys that leave the table and the cursor alone.
LEMMA StillIInv ==
    ASSUME IInv, UNCHANGED <<table, cursor>>, TypeOK', pc' = "mark" => msg_id' \in Ids,
           TableIsListing', AsksAboutShown'
    PROVE  IInv'
BY DEF IInv, IsList, CursorInTable

\* Steps of the screen that write nothing and stay on the tab.
LEMMA SameTable ==
    ASSUME IInv, UNCHANGED <<state, tab, table, fresh>>, pc # "refresh" \/ pc' = "refresh"
    PROVE  TableIsListing'
BY SameListing DEF IInv, TableIsListing

LEMMA SameModal ==
    ASSUME IInv, UNCHANGED <<modal, shown>>
    PROVE  AsksAboutShown'
BY DEF IInv, AsksAboutShown

LEMMA ScreenIInv == IInv /\ Screen => IInv'
<1> SUFFICES ASSUME IInv, Screen PROVE IInv'
  OBVIOUS
<1>1. CASE Refresh
  <2>1. IsList(Listing(tab))
    BY Lists DEF IInv, TypeOK
  <2> QED BY <1>1, <2>1, ShowIInv DEF Refresh, IInv, TypeOK
<1>2. CASE RefreshFails
  <2>1. IsList(<<>>)
    BY Numbers DEF IsList
  <2>2. failures' \in 0..MaxFailures
    BY <1>2, InboxAssumption DEF RefreshFails, Fails, IInv, TypeOK
  <2> QED BY <1>2, <2>1, <2>2, ShowIInv DEF RefreshFails
<1>3. CASE Preview
  <2> DEFINE rows == Listing(tab)
  <2>1. IsList(rows)
    BY Lists DEF IInv, TypeOK
  <2>2. /\ preview' = IF cursor <= Len(rows) THEN rows[cursor] ELSE preview
        /\ pc' \in {"status", "idle"}
        /\ UNCHANGED <<state, tab, table, cursor, unread, max_id_seen, msg_id, cursor_row, modal,
                       failures, fresh, shown>>
        /\ pc = "preview"
    BY <1>3 DEF Preview, Return, history
  <2> HIDE DEF rows
  <2>3. preview' \in Ids \cup {Nothing}
    <3>1. cursor \in Nat \ {0} /\ Len(rows) \in Nat
      BY <2>1, CursorIsRow, Numbers DEF IsList
    <3>2. cursor <= Len(rows) => rows[cursor] \in Ids
      BY <2>1, <3>1, ElementOfSeq DEF IsList
    <3> QED BY <2>2, <3>2 DEF IInv, TypeOK
  <2>4. TypeOK'
    BY <2>2, <2>3 DEF IInv, TypeOK
  <2> QED BY <2>2, <2>4, StillIInv, SameTable, SameModal
<1>4. CASE Status
  <2>1. Unseen \in 0..Cardinality(Inbound) /\ 0 \in 0..Cardinality(Inbound)
    BY Numbers DEF Unseen
  <2>2. unread' \in 0..Cardinality(Inbound)
    BY <1>4, <2>1 DEF Status
  <2>3. failures' \in 0..MaxFailures
    BY <1>4, InboxAssumption DEF Status, Fails, IInv, TypeOK
  <2>4. /\ UNCHANGED <<state, tab, table, cursor, preview, max_id_seen, msg_id, cursor_row, modal,
                       fresh, shown>>
        /\ pc = "status" /\ pc' = "idle"
    BY <1>4 DEF Status, history
  <2>5. TypeOK'
    BY <2>2, <2>3, <2>4 DEF IInv, TypeOK
  <2> QED BY <2>4, <2>5, StillIInv, SameTable, SameModal
<1>5. CASE Mark
  <2>1. /\ UNCHANGED <<tab, table, cursor, preview, unread, max_id_seen, modal, failures, fresh,
                       shown>>
        /\ pc' = "refresh" /\ cursor_row' = cursor /\ msg_id' = Nothing
        /\ state' = [state EXCEPT ![msg_id] = MarkedRead(@)]
        /\ pc = "mark"
    BY <1>5 DEF Mark, CallRefresh, widgets, history
  <2>2. msg_id \in Ids /\ cursor \in Ids
    BY <2>1, CursorIsRow DEF IInv
  <2>3. state' \in [Ids -> States \cup {"NONE"}]
    BY <2>1, <2>2 DEF IInv, TypeOK, MarkedRead, States
  <2>4. TypeOK'
    BY <2>1, <2>2, <2>3 DEF IInv, TypeOK
  <2> QED BY <2>1, <2>4, StillIInv, SameModal DEF TableIsListing
<1>6. CASE Poll
  <2>1. Newest \in Ids \cup {Nothing}
    <3>1. Inserted \in SUBSET Ids
      BY DEF Inserted
    <3> QED BY <3>1, Numbers DEF Newest, Nothing
  <2>2. /\ UNCHANGED <<state, tab, table, cursor, preview, unread, modal, failures, fresh, shown>>
        /\ max_id_seen' = Newest /\ pc = "idle"
        /\ \/ pc' = "refresh" /\ cursor_row' = Nothing /\ msg_id' = Nothing
           \/ pc' = "status" /\ UNCHANGED <<msg_id, cursor_row>>
    BY <1>6 DEF Poll, CallRefresh, PollStatus, widgets, history
  <2>3. TypeOK'
    BY <2>1, <2>2 DEF IInv, TypeOK
  <2> QED BY <2>2, <2>3, StillIInv, SameTable, SameModal
<1>7. CASE PollFails
  <2>1. /\ UNCHANGED <<state, tab, table, cursor, preview, unread, max_id_seen, pc, msg_id,
                       cursor_row, modal, fresh, shown>>
        /\ pc = "idle" /\ failures' \in 0..MaxFailures
    BY <1>7, InboxAssumption DEF PollFails, Fails, IInv, TypeOK, widgets, work, history
  <2>2. TypeOK'
    BY <2>1 DEF IInv, TypeOK
  <2> QED BY <2>1, <2>2, StillIInv, SameTable, SameModal DEF IInv
<1> QED BY <1>1, <1>2, <1>3, <1>4, <1>5, <1>6, <1>7 DEF Screen, Handler

LEMMA UserIInv == IInv /\ User => IInv'
<1> SUFFICES ASSUME IInv, User PROVE IInv'
  OBVIOUS
<1>1. ASSUME NEW row \in Ids, Move(row) PROVE IInv'
  <2>1. /\ row \in 1..Len(table) /\ cursor' = row /\ cursor_row' = row /\ pc' = "preview"
        /\ UNCHANGED <<state, tab, table, preview, unread, max_id_seen, msg_id, modal, failures,
                       fresh, shown>>
        /\ pc = "idle"
    BY <1>1 DEF Move, Key, history
  <2>2. table # <<>> /\ row \in Nat
    BY <2>1, Numbers
  <2>3. CursorInTable'
    BY <2>1, <2>2 DEF CursorInTable
  <2> QED BY <2>1, <2>2, <2>3, SameTable, SameModal DEF IInv, TypeOK, IsList
<1>2. ASSUME NEW t \in Tabs, SwitchTab(t) PROVE IInv'
  <2>1. TypeOK'
    BY <1>2 DEF SwitchTab, CallRefresh, IInv, TypeOK, widgets, history
  <2> QED BY <1>2, <2>1, StillIInv, SameModal
          DEF SwitchTab, CallRefresh, widgets, history, TableIsListing
<1>3. ASSUME NEW rows, rows = Listing(tab), cursor <= Len(rows)
      PROVE  rows[cursor] \in Ids /\ cursor \in Ids
  <2>1. IsList(rows)
    BY <1>3, Lists DEF IInv, TypeOK
  <2>2. cursor \in Nat \ {0} /\ Len(rows) \in Nat
    BY <2>1, CursorIsRow, Numbers DEF IsList
  <2>3. rows[cursor] \in Ids
    BY <1>3, <2>1, <2>2, ElementOfSeq DEF IsList
  <2> QED BY <2>3, CursorIsRow
<1>4. CASE MarkRead
  <2>1. /\ pc' = "mark" /\ msg_id' \in Ids
        /\ UNCHANGED <<state, tab, table, cursor, preview, unread, max_id_seen, cursor_row, modal,
                       failures, fresh, shown>>
        /\ pc = "idle"
    BY <1>3, <1>4 DEF MarkRead, Key, widgets, history
  <2>2. TypeOK'
    BY <2>1 DEF IInv, TypeOK
  <2> QED BY <2>1, <2>2, StillIInv, SameTable, SameModal
<1>5. CASE AskDelete
  <2>1. /\ modal' \in [msg: Ids, row: Ids] /\ modal'.msg = Listing(tab)[cursor]
        /\ shown' = IF fresh THEN table[cursor] ELSE Nothing
        /\ UNCHANGED <<state, tab, table, cursor, preview, unread, max_id_seen, pc, msg_id,
                       cursor_row, failures, fresh>>
        /\ pc = "idle"
    BY <1>3, <1>5 DEF AskDelete, Key, widgets, work
  <2>2. shown' \in {modal'.msg, Nothing}
    BY <2>1 DEF IInv, TableIsListing
  <2>3. modal' # NoModal
    BY <2>1, Numbers DEF NoModal
  <2>4. TypeOK'
    BY <2>1, <2>2 DEF IInv, TypeOK
  <2>5. AsksAboutShown'
    BY <2>2, <2>3 DEF AsksAboutShown
  <2> QED BY <2>1, <2>4, <2>5, StillIInv, SameTable DEF IInv
<1>6. CASE Confirm
  <2>1. modal.msg \in Ids /\ modal.row \in Ids
    BY <1>6 DEF Confirm, IInv, TypeOK
  <2>2. /\ UNCHANGED <<tab, table, cursor, preview, unread, max_id_seen, failures, fresh>>
        /\ shown' = Nothing
        /\ pc' = "refresh" /\ cursor_row' = modal.row /\ msg_id' = Nothing /\ modal' = NoModal
        /\ state' = [state EXCEPT ![modal.msg] = "DELETED"]
    BY <1>6 DEF Confirm, Asked, CallRefresh, widgets
  <2>3. state' \in [Ids -> States \cup {"NONE"}]
    BY <2>1, <2>2 DEF IInv, TypeOK, States
  <2>4. TypeOK'
    BY <2>1, <2>2, <2>3 DEF IInv, TypeOK
  <2> QED BY <2>2, <2>4, StillIInv DEF TableIsListing, AsksAboutShown
<1>7. CASE Dismiss
  <2>1. TypeOK'
    BY <1>7 DEF Dismiss, IInv, TypeOK, widgets, work
  <2> QED BY <1>7, <2>1, StillIInv, SameTable
          DEF Dismiss, IInv, widgets, work, AsksAboutShown
<1> QED BY <1>1, <1>2, <1>4, <1>5, <1>6, <1>7 DEF User

LEMMA OthersIInv == IInv /\ (Arrive \/ \E i \in Ids, to \in States : Change(i, to)) => IInv'
<1> SUFFICES ASSUME IInv, Arrive \/ \E i \in Ids, to \in States : Change(i, to) PROVE IInv'
  OBVIOUS
<1>1. /\ UNCHANGED <<tab, table, cursor, preview, unread, max_id_seen, pc, msg_id, cursor_row,
                     modal, failures, shown>>
      /\ fresh' = FALSE
      /\ \E i \in Ids, to \in States : state' = [state EXCEPT ![i] = to]
  BY DEF Arrive, Change, States, widgets, work
<1>2. TypeOK'
  BY <1>1 DEF IInv, TypeOK
<1> QED BY <1>1, <1>2, StillIInv, SameModal DEF IInv, TableIsListing

-----------------------------------------------------------------------------
\* The invariant holds in every reachable state.
THEOREM Invariance == Spec => []IInv
<1>1. Init => IInv
  BY InitIInv
<1>2. IInv /\ [Next]_vars => IInv'
  <2>1. SUFFICES ASSUME IInv, [Next]_vars PROVE IInv'
    OBVIOUS
  <2>2. CASE UNCHANGED vars
    <3>1. UNCHANGED <<state, tab, table, fresh, pc, modal, shown>>
      BY <2>2 DEF vars, widgets, work, history
    <3>2. TableIsListing' /\ AsksAboutShown'
      BY <2>1, <3>1, SameListing DEF IInv, TableIsListing, AsksAboutShown
    <3> QED BY <2>1, <2>2, <3>2
            DEF IInv, TypeOK, IsList, CursorInTable, vars, widgets, work, history
  <2>3. CASE Next
    BY <2>1, <2>3, ScreenIInv, UserIInv, OthersIInv DEF Next
  <2> QED BY <2>1, <2>2, <2>3
<1> QED BY <1>1, <1>2, PTL DEF Spec

\* Every variable keeps its type; in particular the three lists are lists of
\* messages, which rests on their order being total.
THEOREM TypeCorrect == Spec => []TypeOK
<1>1. IInv => TypeOK
  BY DEF IInv
<1> QED BY <1>1, Invariance, PTL

\* However the list shrinks under it, the cursor stays on a row of the table
\* (the clamp in InboxScreen._refresh_table).
THEOREM CursorStays == Spec => []CursorInTable
<1>1. IInv => CursorInTable
  BY DEF IInv
<1> QED BY <1>1, Invariance, PTL

\* A "yes" deletes the message that the table showed at the cursor when the
\* question was put, unless others had written since, and a "no" deletes none
\* (InboxScreen.action_delete and its ConfirmDeleteModal): the screen refreshes
\* after its own writes, so that the list a key selects again is the one shown.
THEOREM ShownIsDeleted == Spec => DeletesWhatWasShown
<1>1. IInv /\ [Next]_vars =>
        [/\ Confirm => shown = Nothing \/ state' = [state EXCEPT ![shown] = "DELETED"]
         /\ Dismiss => state' = state]_vars
  <2>1. SUFFICES ASSUME IInv
                 PROVE  /\ Confirm => shown = Nothing \/ state' = [state EXCEPT ![shown] = "DELETED"]
                        /\ Dismiss => state' = state
    OBVIOUS
  <2>2. ASSUME Confirm, shown # Nothing
        PROVE  state' = [state EXCEPT ![shown] = "DELETED"]
    <3>1. modal.msg = shown
      BY <2>1, <2>2 DEF IInv, AsksAboutShown
    <3> QED BY <2>2, <3>1 DEF Confirm, Asked
  <2> QED BY <2>2 DEF Dismiss
<1> QED BY <1>1, Invariance, PTL DEF Spec, DeletesWhatWasShown
-----------------------------------------------------------------------------
(* What was noted is shown                                                 *)

\* Ids are handed out one after the other; the poll notes none and the modal
\* asks about none before it is.
Numbered == /\ Inserted = 1..Newest /\ Newest \in Nat
            /\ max_id_seen <= Newest
            /\ modal # NoModal => modal.msg \in Inserted

Listed(i) == i \in Inbound /\ state[i] \in {"UNSEEN", "SEEN"}

LEMMA InsertedType == Inserted \in SUBSET Ids /\ Newest \in Ids \cup {Nothing} /\ Newest \in Nat
<1>1. Inserted \in SUBSET Ids
  BY DEF Inserted
<1> QED BY <1>1, Numbers DEF Newest, Nothing

\* What the inbox and the outbox list are rows that exist.
LEMMA ListedInserted == \A t \in {"inbox", "outbox"} : Listing(t) \in Seq(Inserted)
<1> DEFINE in == {j \in Inbound : state[j] \in {"UNSEEN", "SEEN"}}
           out == {j \in Ids : state[j] \in {"QUEUED", "SENT", "FAILED"}}
           rows == NewestFirst(in)
           n == IF Len(rows) < Limit THEN Len(rows) ELSE Limit
<1>1. in \in SUBSET Ids /\ out \in SUBSET Ids /\ in \subseteq Inserted /\ out \subseteq Inserted
  BY InboxAssumption DEF Inserted
<1>2. OutboxRows \in Seq(Inserted)
  <2>1. OldestFirst(out) \in Seq(out) /\ Seq(out) \subseteq Seq(Inserted)
    BY <1>1, OldestFirstIsList
  <2> QED BY <2>1 DEF OutboxRows
<1>3. InboxRows \in Seq(Inserted)
  <2>1. rows \in Seq(Inserted) /\ Len(rows) \in Nat
    <3>1. rows \in Seq(in) /\ Seq(in) \subseteq Seq(Inserted)
      BY <1>1, NewestFirstIsList
    <3> QED BY <3>1, LenProperties
  <2>2. n \in 0..Len(rows) /\ InboxRows = SubSeq(rows, 1, n)
    BY <2>1, InboxAssumption DEF InboxRows, First
  <2> HIDE DEF rows, n
  <2>3. \A k \in 1..n : rows[k] \in Inserted
    BY <2>1, <2>2, ElementOfSeq
  <2> QED BY <2>2, <2>3, SubSeqProperties
<1> QED BY <1>2, <1>3 DEF Listing

\* The newest message, if it is one for the inbox, is its first row.
LEMMA InboxHasNewest ==
    ASSUME IInv, Numbered, NEW i \in Inbound, Listed(i), i = Newest
    PROVE  \E row \in 1..Len(InboxRows) : InboxRows[row] = i
<1> DEFINE S == {j \in Inbound : state[j] \in {"UNSEEN", "SEEN"}}
           rows == NewestFirst(S)
<1>1. S \in SUBSET Ids /\ i \in S /\ S \subseteq Inserted
  BY InboxAssumption DEF Listed, Inserted
<1>2. \A j \in S : j <= i
  BY <1>1 DEF Numbered
<1>3. Len(rows) >= 1 /\ rows[1] = i
  BY <1>1, <1>2, NewestIsFirst
<1>4. rows \in Seq(S) /\ Len(rows) \in Nat
  BY <1>1, NewestFirstIsList
<1> DEFINE n == IF Len(rows) < Limit THEN Len(rows) ELSE Limit
<1>5. n \in 1..Len(rows)
  BY <1>3, <1>4, InboxAssumption
<1>6. InboxRows = SubSeq(rows, 1, n)
  BY DEF InboxRows, First
<1> HIDE DEF S, rows, n
<1>7. \A k \in 1..n : rows[k] \in S
  BY <1>4, <1>5, ElementOfSeq
<1>8. Len(InboxRows) = n /\ InboxRows[1] = rows[1]
  BY <1>4, <1>5, <1>6, <1>7, SubSeqProperties
<1> QED BY <1>3, <1>4, <1>5, <1>8

SInv == Numbered /\ SeenIsShown

LEMMA InitSInv == Init => SInv
<1> SUFFICES ASSUME Init PROVE SInv
  OBVIOUS
<1>1. Inserted = {}
  BY DEF Init, Inserted
<1>2. Newest = 0 /\ 1..0 = {}
  BY <1>1 DEF Newest
<1> QED BY <1>1, <1>2 DEF Init, SInv, Numbered, SeenIsShown

\* A step of the screen or its user inserts nothing, and undoes nothing.
LEMMA SameNumbers ==
    ASSUME IInv, Numbered, NEW i \in Ids, NEW to \in States, state' = [state EXCEPT ![i] = to],
           state[i] # "NONE", max_id_seen' = max_id_seen, modal' \in {modal, NoModal}
    PROVE  Numbered' /\ Newest' = Newest
<1>1. Inserted' = Inserted
  BY DEF Inserted, States, IInv, TypeOK
<1> QED BY <1>1 DEF Numbered, Newest

LEMMA ScreenSInv == IInv /\ SInv /\ Screen => SInv'
<1> SUFFICES ASSUME IInv, SInv, Screen PROVE SInv'
  OBVIOUS
<1> USE DEF SInv
<1>1. CASE Refresh
  <2>1. table' = Listing(tab) /\ UNCHANGED <<state, tab, max_id_seen, modal, failures>>
    BY <1>1 DEF Refresh, Show
  <2>2. Numbered' /\ Newest' = Newest
    BY <2>1 DEF Numbered, Newest, Inserted
  <2>3. tab = "inbox" => table' = InboxRows
    BY <2>1 DEF Listing
  <2> QED BY <2>1, <2>2, <2>3, InboxHasNewest DEF SeenIsShown, Listed
<1>2. CASE RefreshFails \/ (Status /\ failures' # failures)
  <2>1. UNCHANGED <<state, max_id_seen, modal>> /\ failures' # 0
    BY <1>2 DEF RefreshFails, Show, Fails, Status, IInv, TypeOK
  <2> QED BY <2>1 DEF SeenIsShown, Numbered, Newest, Inserted
<1>3. CASE Preview \/ (Status /\ failures' = failures)
  <2>1. UNCHANGED <<state, tab, table, max_id_seen, modal, failures>> /\ pc # "refresh"
    BY <1>3 DEF Preview, Status
  <2> QED BY <2>1 DEF SeenIsShown, Numbered, Newest, Inserted
<1>4. CASE Mark
  <2>1. /\ pc' = "refresh" /\ UNCHANGED <<max_id_seen, modal>> /\ msg_id \in Ids
        /\ state' = [state EXCEPT ![msg_id] = MarkedRead(@)]
    BY <1>4 DEF Mark, CallRefresh, IInv
  <2>2. Inserted' = Inserted
    BY <2>1 DEF Inserted, MarkedRead, IInv, TypeOK
  <2> QED BY <2>1, <2>2 DEF SeenIsShown, Numbered, Newest
<1>5. CASE Poll
  <2>1. /\ UNCHANGED <<state, tab, table, modal, failures>> /\ max_id_seen' = Newest
        /\ pc = "idle"
        /\ Newest # max_id_seen => pc' = "refresh"
    BY <1>5 DEF Poll, Outdated, CallRefresh, widgets
  <2>2. Newest' = Newest /\ Inserted' = Inserted
    BY <2>1 DEF Newest, Inserted
  <2> QED BY <2>1, <2>2 DEF SeenIsShown, Numbered
<1>6. CASE PollFails
  <2>1. UNCHANGED <<state, max_id_seen, modal>> /\ failures' # 0
    BY <1>6 DEF PollFails, Fails, IInv, TypeOK
  <2> QED BY <2>1 DEF SeenIsShown, Numbered, Newest, Inserted
<1> QED BY <1>1, <1>2, <1>3, <1>4, <1>5, <1>6 DEF Screen, Handler

LEMMA UserSInv == IInv /\ SInv /\ User => SInv'
<1> SUFFICES ASSUME IInv, SInv, User PROVE SInv'
  OBVIOUS
<1> USE DEF SInv
<1>1. CASE Confirm
  <2>1. /\ pc' = "refresh" /\ max_id_seen' = max_id_seen /\ modal.msg \in Ids
        /\ state' = [state EXCEPT ![modal.msg] = "DELETED"] /\ modal' = NoModal
    BY <1>1 DEF Confirm, Asked, CallRefresh, IInv, TypeOK
  <2>2. state[modal.msg] # "NONE"
    BY <1>1 DEF Confirm, Numbered, Inserted
  <2> QED BY <2>1, <2>2, SameNumbers DEF SeenIsShown, States
<1>2. CASE \E t \in Tabs : SwitchTab(t)
  <2>1. UNCHANGED <<state, max_id_seen, modal>> /\ pc' = "refresh"
    BY <1>2 DEF SwitchTab, CallRefresh
  <2> QED BY <2>1 DEF SeenIsShown, Numbered, Newest, Inserted
<1>3. CASE (\E row \in Ids : Move(row)) \/ MarkRead \/ Dismiss
  <2>1. /\ UNCHANGED <<state, tab, table, max_id_seen, failures>> /\ pc = "idle"
        /\ modal' \in {modal, NoModal}
    BY <1>3 DEF Move, MarkRead, Dismiss, Key, widgets
  <2> QED BY <2>1 DEF SeenIsShown, Numbered, Newest, Inserted
<1>4. CASE AskDelete
  <2>1. /\ UNCHANGED <<state, tab, table, max_id_seen, failures>> /\ pc = "idle"
        /\ tab \in {"inbox", "outbox"} /\ cursor <= Len(Listing(tab))
        /\ modal'.msg = Listing(tab)[cursor]
    BY <1>4 DEF AskDelete, Key, widgets, IInv, TypeOK, Tabs
  <2>2. Listing(tab) \in Seq(Inserted) /\ cursor \in Nat \ {0}
    BY <2>1, ListedInserted, CursorIsRow
  <2>3. Listing(tab)[cursor] \in Inserted
    BY <2>1, <2>2, ElementOfSeq, LenProperties
  <2> QED BY <2>1, <2>3 DEF SeenIsShown, Numbered, Newest, Inserted
<1> QED BY <1>1, <1>2, <1>3, <1>4 DEF User

\* A new message is newer than what the poll noted; the others only go.
LEMMA OthersSInv == IInv /\ SInv /\ (Arrive \/ \E i \in Ids, to \in States : Change(i, to)) => SInv'
<1> SUFFICES ASSUME IInv, SInv, Arrive \/ \E i \in Ids, to \in States : Change(i, to) PROVE SInv'
  OBVIOUS
<1> USE DEF SInv
<1>1. CASE Arrive
  <2> DEFINE n == Newest + 1
  <2>1. /\ n \in Ids /\ UNCHANGED <<max_id_seen, modal>>
        /\ state'[n] # "NONE" /\ \A j \in Ids \ {n} : state'[j] = state[j]
    BY <1>1 DEF Arrive, IInv, TypeOK
  <2>2. Inserted = 1..Newest /\ Newest \in Nat
    BY DEF Numbered
  <2>3. Inserted' = 1..n
    <3>1. Inserted' = Inserted \cup {n}
      BY <2>1 DEF Inserted
    <3>2. 1..n = 1..Newest \cup {n}
      BY <2>2
    <3> QED BY <2>2, <3>1, <3>2
  <2>4. Newest' = n
    <3>1. n \in Nat \ {0} /\ 1..n # {}
      BY <2>2
    <3> HIDE DEF n
    <3>2. Cardinality(1..n) = n - 1 + 1
      BY <3>1, FS_Interval
    <3> QED BY <2>3, <3>1, <3>2 DEF Newest
  <2>5. max_id_seen \in Nat
    BY Numbers DEF IInv, TypeOK, Nothing
  <2> QED BY <2>1, <2>2, <2>3, <2>4, <2>5 DEF Numbered, SeenIsShown
<1>2. ASSUME NEW i \in Ids, NEW to \in States, Change(i, to) PROVE SInv'
  <2>1. /\ state' = [state EXCEPT ![i] = to] /\ state[i] # "NONE"
        /\ to \in {"UNSEEN", "SEEN"} => state[i] = "UNSEEN"
        /\ UNCHANGED <<tab, table, max_id_seen, pc, modal, failures>>
    BY <1>2 DEF Change, widgets, work
  <2>2. Numbered' /\ Newest' = Newest
    BY <2>1, SameNumbers
  <2>3. \A j \in Ids : state'[j] \in {"UNSEEN", "SEEN"} => state[j] \in {"UNSEEN", "SEEN"}
    BY <2>1 DEF IInv, TypeOK
  <2> QED BY <2>1, <2>2, <2>3, InboxAssumption DEF SeenIsShown
<1> QED BY <1>1, <1>2

\* The id that _poll_db notes before it selects is the id of a message that the
\* inbox shows, unless a SELECT failed (InboxScreen._poll_db, _refresh_table).
THEOREM NotedIsShown == Spec => []SeenIsShown
<1>1. Init => SInv
  BY InitSInv
<1>2. IInv /\ SInv /\ [Next]_vars => SInv'
  <2>1. SUFFICES ASSUME IInv, SInv, [Next]_vars PROVE SInv'
    OBVIOUS
  <2>2. CASE UNCHANGED vars
    BY <2>1, <2>2 DEF vars, widgets, work, SInv, SeenIsShown, Numbered, Newest, Inserted
  <2>3. CASE Next
    BY <2>1, <2>3, ScreenSInv, UserSInv, OthersSInv DEF Next
  <2> QED BY <2>1, <2>2, <2>3
<1>3. SInv => SeenIsShown
  BY DEF SInv
<1> QED BY <1>1, <1>2, <1>3, Invariance, PTL DEF Spec
=============================================================================

---------------------------- MODULE InboxScreen -----------------------------
(***************************************************************************)
(* The TUI's main screen (tui/screens/inbox.py) over a database that the   *)
(* daemon and other clients change under it.  The screen is one thread,    *)
(* but every SELECT and UPDATE it makes is a step of its own, and what it  *)
(* shows was selected earlier than what it acts on: an action finds its    *)
(* message by selecting again and taking the row number of the cursor.     *)
(***************************************************************************)
EXTENDS Integers, Sequences, FiniteSets, SequencesExt

CONSTANTS Ids,        \* message ids, in the order the rows are inserted
          Inbound,    \* those of direction 'in'
          Limit,      \* inbox(limit=100)
          HistoryLimit,  \* history(limit=200)
          MaxFailures \* bound on the SELECTs that raise

ASSUME InboxAssumption ==
    /\ IsFiniteSet(Ids) /\ Ids = 1..Cardinality(Ids) /\ Inbound \subseteq Ids
    /\ Limit \in Nat \ {0} /\ HistoryLimit \in Nat \ {0} /\ MaxFailures \in Nat

Tabs == {"inbox", "outbox", "history"}
Nothing == 0           \* no message, no row
NoModal == [msg |-> Nothing, row |-> Nothing]

VARIABLES
    state,        \* the column state of each message, "NONE" before its INSERT
    tab,          \* tab_idx
    table,        \* the messages the DataTable shows, as of its last refresh
    cursor,       \* its cursor row, from 1
    preview,      \* the message in the detail pane
    max_id_seen,  \* _max_id_seen
    pc,           \* where the screen's thread is
    msg_id,       \* the message an action found
    cursor_row,   \* the argument of _refresh_table
    unread,       \* the number of unread messages the status bar shows
    modal,        \* what the open ConfirmDeleteModal asks about: message and row
    failures,
    fresh,        \* history: nobody else wrote since the rows of the table were selected
    shown         \* history: what such a table showed at the cursor when 'd' was pressed

widgets == <<table, cursor, preview, unread>>
work == <<pc, msg_id, cursor_row>>
history == <<fresh, shown>>
vars == <<state, tab, widgets, max_id_seen, work, modal, failures, history>>

Inserted == {i \in Ids : state[i] # "NONE"}
Newest == IF Inserted = {} THEN 0 ELSE Cardinality(Inserted)

\* The n-th row of a list is the one that n - 1 others precede.
OldestFirst(S) ==
    [n \in 1..Cardinality(S) |-> CHOOSE i \in S : Cardinality({j \in S : j < i}) = n - 1]

NewestFirst(S) == Reverse(OldestFirst(S))

\* LIMIT.
First(rows, n) == SubSeq(rows, 1, IF Len(rows) < n THEN Len(rows) ELSE n)

\* Ids stand for queued_at in the ORDER BY of the three lists: messages that are
\* stamped with the same second are taken to be listed in the order of their ids.
InboxRows ==
    First(NewestFirst({i \in Inbound : state[i] \in {"UNSEEN", "SEEN"}}), Limit)

OutboxRows == OldestFirst({i \in Ids : state[i] \in {"QUEUED", "SENT", "FAILED"}})

HistoryRows ==
    First(NewestFirst({i \in Inserted : state[i] # "DELETED"}), HistoryLimit)

\* _fetch_rows.
Listing(t) == CASE t = "inbox"   -> InboxRows
                [] t = "outbox"  -> OutboxRows
                [] t = "history" -> HistoryRows

Init ==
    /\ state = [i \in Ids |-> "NONE"]
    /\ tab = "inbox"
    /\ table = <<>>
    /\ cursor = 1
    /\ preview = Nothing
    /\ max_id_seen = 0
    /\ unread = 0
    /\ pc = "refresh"
    /\ msg_id = Nothing
    /\ cursor_row = Nothing
    /\ modal = NoModal
    /\ failures = 0
    /\ fresh = FALSE /\ shown = Nothing

\* The screen calls _refresh_table(row).
CallRefresh(row) == /\ pc' = "refresh"
                    /\ cursor_row' = row
                    /\ msg_id' = Nothing

-----------------------------------------------------------------------------
(* _refresh_table and the preview                                          *)

\* Mutant of Clamp: the row is taken as it is.
ClampNot(row, len) == IF row = Nothing THEN 1 ELSE row

Clamp(row, len) == IF row = Nothing THEN 1 ELSE IF row > len THEN len ELSE row

\* The callers that give no row, the poll, a change of tab and on_mount, update
\* the status bar afterwards.
Return == pc' = IF cursor_row = Nothing THEN "status" ELSE "idle"

Show(rows) ==
    /\ pc = "refresh"
    /\ table' = rows
    /\ IF rows = <<>>
       THEN cursor' = 1 /\ preview' = Nothing /\ Return
       ELSE cursor' = Clamp(cursor_row, Len(rows)) /\ pc' = "preview" /\ UNCHANGED preview
    /\ UNCHANGED <<state, tab, unread, max_id_seen, msg_id, cursor_row, modal, shown>>

Refresh == Show(Listing(tab)) /\ fresh' = TRUE /\ UNCHANGED failures

\* _fetch_rows swallows what the SELECT raised: "(no messages)".
Fails == failures < MaxFailures /\ failures' = failures + 1

RefreshFails == Fails /\ Show(<<>>) /\ fresh' = FALSE

\* _update_preview_from_index selects once more.
Preview ==
    /\ pc = "preview"
    /\ LET rows == Listing(tab)
       IN  preview' = IF cursor <= Len(rows) THEN rows[cursor] ELSE preview
    /\ Return
    /\ UNCHANGED <<state, tab, table, cursor, unread, max_id_seen, msg_id, cursor_row, modal,
                   failures, history>>

Unseen == Cardinality({i \in Inbound : state[i] = "UNSEEN"})

\* _update_status_bar counts the unread messages, or takes none for an answer.
Status ==
    /\ pc = "status"
    /\ pc' = "idle"
    /\ \/ unread' = Unseen /\ UNCHANGED failures
       \/ unread' = 0 /\ Fails
    /\ UNCHANGED <<state, tab, table, cursor, preview, max_id_seen, msg_id, cursor_row, modal,
                   history>>

-----------------------------------------------------------------------------
(* The poll timer and the keys                                             *)

\* Mutant of Outdated: the table under a modal is left alone.
OutdatedAbove == Newest # max_id_seen /\ modal = NoModal

Outdated == Newest # max_id_seen

\* Mutant of PollStatus: the status bar goes with the table.
PollStatusNot == UNCHANGED work

\* Without anything new the poll still updates the status bar.
PollStatus == pc' = "status" /\ UNCHANGED <<msg_id, cursor_row>>

\* _poll_db runs below an open modal too.
Poll ==
    /\ pc = "idle"
    /\ max_id_seen' = Newest
    /\ IF Outdated THEN CallRefresh(Nothing) ELSE PollStatus
    /\ UNCHANGED <<state, tab, widgets, modal, failures, history>>

\* max_message_id raises: this poll does nothing.
PollFails ==
    /\ pc = "idle"
    /\ Fails
    /\ UNCHANGED <<state, tab, widgets, max_id_seen, work, modal, history>>

\* A key on the screen itself: no modal is above it.
Key == pc = "idle" /\ modal = NoModal

\* The cursor moves, or is told again where it is: on_data_table_row_highlighted.
Move(row) ==
    /\ Key
    /\ row \in 1..Len(table)
    /\ cursor' = row
    /\ cursor_row' = row
    /\ pc' = "preview"
    /\ UNCHANGED <<state, tab, table, preview, unread, max_id_seen, msg_id, modal, failures, history>>

SwitchTab(t) ==
    /\ Key
    /\ t # tab
    /\ tab' = t
    /\ CallRefresh(Nothing)
    /\ UNCHANGED <<state, widgets, max_id_seen, modal, failures, history>>

\* action_mark_read selects the list again and takes the cursor's row of it.
MarkRead ==
    /\ Key
    /\ tab = "inbox"
    /\ LET rows == Listing(tab)
       IN  /\ cursor <= Len(rows)
           /\ msg_id' = rows[cursor]
    /\ pc' = "mark"
    /\ UNCHANGED <<state, tab, widgets, max_id_seen, cursor_row, modal, failures, history>>

\* Mutant of MarkedRead: a state the schema does not know.
MarkedReadMisspelt(s) == IF s = "UNSEEN" THEN "READ" ELSE s

MarkedRead(s) == IF s = "UNSEEN" THEN "SEEN" ELSE s

\* DbClient.mark_read, then the refresh with the row of the key press.
Mark ==
    /\ pc = "mark"
    /\ state' = [state EXCEPT ![msg_id] = MarkedRead(@)]
    /\ CallRefresh(cursor)
    /\ UNCHANGED <<tab, widgets, max_id_seen, modal, failures, history>>

\* action_delete does the same and asks; history is read-only.
AskDelete ==
    /\ Key
    /\ tab # "history"
    /\ LET rows == Listing(tab)
       IN  /\ cursor <= Len(rows)
           /\ modal' = [msg |-> rows[cursor], row |-> cursor]
    /\ shown' = IF fresh THEN table[cursor] ELSE Nothing
    /\ UNCHANGED <<state, tab, widgets, max_id_seen, work, failures, fresh>>

\* Mutant of Asked: the message that is at the row when the answer comes.
AskedByRow == IF modal.row <= Len(table) THEN table[modal.row] ELSE modal.msg

Asked == modal.msg

\* The answer, however long after the question.
Confirm ==
    /\ pc = "idle"
    /\ modal # NoModal
    /\ state' = [state EXCEPT ![Asked] = "DELETED"]
    /\ CallRefresh(modal.row)
    /\ modal' = NoModal
    /\ shown' = Nothing
    /\ UNCHANGED <<tab, widgets, max_id_seen, failures, fresh>>

Dismiss ==
    /\ pc = "idle"
    /\ modal # NoModal
    /\ modal' = NoModal
    /\ shown' = Nothing
    /\ UNCHANGED <<state, tab, widgets, max_id_seen, work, failures, fresh>>

-----------------------------------------------------------------------------
(* The daemon and the other clients                                        *)

Arrive ==
    /\ Newest + 1 \in Ids
    /\ state' = [state EXCEPT ![Newest + 1] = IF Newest + 1 \in Inbound THEN "UNSEEN" ELSE "QUEUED"]
    /\ fresh' = FALSE
    /\ UNCHANGED <<tab, widgets, max_id_seen, work, modal, failures, shown>>

\* What others do to a row that is there (modules Outbox and Inbound).
Change(i, to) ==
    /\ to \in CASE state[i] = "UNSEEN" -> {"SEEN", "DELETED"}
                [] state[i] = "QUEUED" -> {"SENT", "FAILED", "DELETED"}
                [] state[i] = "SENT"   -> {"QUEUED", "ACKED", "FAILED", "DELETED"}
                [] state[i] = "FAILED" -> {"QUEUED", "DELETED"}
                [] state[i] \in {"SEEN", "ACKED"} -> {"DELETED"}
                [] OTHER -> {}
    /\ state' = [state EXCEPT ![i] = to]
    /\ fresh' = FALSE
    /\ UNCHANGED <<tab, widgets, max_id_seen, work, modal, failures, shown>>

States == {"UNSEEN", "SEEN", "QUEUED", "SENT", "ACKED", "FAILED", "DELETED"}

Handler == Refresh \/ RefreshFails \/ Preview \/ Status \/ Mark

Screen == Handler \/ Poll \/ PollFails

User == \/ \E row \in Ids : Move(row)
        \/ \E t \in Tabs : SwitchTab(t)
        \/ MarkRead \/ AskDelete \/ Confirm \/ Dismiss

Next == \/ Screen
        \/ User
        \/ Arrive
        \/ \E i \in Ids, to \in States : Change(i, to)

Spec == Init /\ [][Next]_vars

\* A handler that has begun runs to its end, and the timer fires: strongly, as
\* the user's keys cannot starve it.
FairSpec == Spec /\ WF_vars(Handler) /\ SF_vars(Poll)

-----------------------------------------------------------------------------
(* What the screen promises.                                               *)

\* Every variable keeps its type.
TypeOK ==
    /\ state \in [Ids -> States \cup {"NONE"}]
    /\ tab \in Tabs
    /\ table \in Seq(Ids)
    /\ cursor \in Nat
    /\ {preview, msg_id, cursor_row, max_id_seen} \subseteq Ids \cup {Nothing}
    /\ pc \in {"idle", "refresh", "preview", "status", "mark"}
    /\ unread \in 0..Cardinality(Inbound)
    /\ modal = NoModal \/ modal \in [msg: Ids, row: Ids]
    /\ failures \in 0..MaxFailures
    /\ fresh \in BOOLEAN
    /\ shown \in Ids \cup {Nothing}

\* The cursor stays on a row of the table when the list shrinks under it, also
\* when the row it was on was the last one (the clamp in _refresh_table).
CursorInTable == cursor \in 1..(IF table = <<>> THEN 1 ELSE Len(table))

\* _poll_db notes the newest id before it selects the rows, and does not look at
\* that id again.  What it noted is nevertheless in the inbox that is shown, as
\* long as no SELECT failed: no key, modal or change of tab gets between the two.
SeenIsShown ==
    (tab = "inbox" /\ pc # "refresh" /\ failures = 0) =>
        \A i \in Inbound :
            (i = Newest /\ max_id_seen = i /\ state[i] \in {"UNSEEN", "SEEN"}) =>
                \E row \in 1..Len(table) : table[row] = i

\* A "yes" deletes the message that the table showed at the cursor when 'd' was
\* pressed, and no other, and a "no" deletes none: whatever keys were pressed
\* before, and whatever arrives, goes or is polled until the answer.  Excepted are
\* tables that were out of date when 'd' was pressed, as another program had
\* written or the last SELECT had failed: the dialog ("Delete this message?") then
\* asks about the message at that row of the new list, which may be another one.
DeletesWhatWasShown ==
    [][/\ Confirm => shown = Nothing \/ state' = [state EXCEPT ![shown] = "DELETED"]
       /\ Dismiss => state' = state]_vars

\* The newest inbound message comes up in the inbox (_poll_db), unless it is
\* overtaken, gone, the user looks elsewhere, or a SELECT fails on the way.
NewArrivalShown ==
    \A i \in Inbound, f \in 0..MaxFailures :
        LET current == i = Newest /\ state[i] = "UNSEEN" /\ tab = "inbox" /\ failures = f
        IN  (current /\ max_id_seen # i)
              ~> (~current \/ \E row \in 1..Len(table) : table[row] = i)

\* The number of unread messages follows the database within a poll, also when
\* other programs read or delete messages and no id is new (_update_status_bar).
UnreadFollows ==
    \A n \in 0..Cardinality(Inbound) : <>[](Unseen = n) => <>[](unread = n)
=============================================================================

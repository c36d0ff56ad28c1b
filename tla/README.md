# A verification of meshtad

meshtad keeps text messages in a SQLite database and exchanges them with a
Meshtastic radio: a daemon with several threads sends, receives, times out and
cleans up; `meshcli` and a TUI read and write the same database from other
processes. This directory models the daemon's threads, the commands and dialogs by which
clients change the database, and the TUI's main screen. TLC checks the
models on small instances; TLAPS proves their invariants, their action properties and
all four refinements for every instance.

Paths below are relative to the repository. `PROJECT.json` lists every run, the lines
each definition models, the mutants, the hazards and the findings.

## The system

| part | state | operations | hard because |
|---|---|---|---|
| TX thread (`daemon.py` `_tx_loop`, `_tx_drain_once`) | a snapshot of QUEUED rows, `_inflight`, `_deferred_acks` | select, send, record, register, replay an early reply, requeue or fail | works for seconds on a snapshot; replies may overtake its bookkeeping |
| radio callbacks (`_on_routing`, `_handle_ack_nak`, `_on_text`) | the popped packet, the row's state as it was verified | settle a row, stash an early reply, store a DM | run on the radio library's thread against all others |
| scheduler (`_sched_loop`, `_sched_tick`) | rows in SENT, the cutoff, `cfg` | ACK timeouts, auto-delete, control queue, heartbeat, config reload | decides from values read earlier; any exception ends it |
| RX loop and `Radio` (`radio.py`) | `client`, `connected` | connect, disconnect, send | two threads, no lock; the device may vanish |
| `DbThread`, `Daemon.stop` (`db.py`) | request queue, reply queues, `_running` | execute, serve, stop | shutdown races with requests and drains |
| configuration (`config.py`, `main.py`) | `_mtime`, `Config` | load, stat, swap | file edited between two system calls |
| senders and addressing (`DbClient.resolve_alias`, `ensure_sender`, `update_sender`) | rows of `senders` under two unique indexes | look up by alias or node id, insert, rename | every caller looks up in one statement and acts in another; daemon and clients insert the same node |
| other commands (`cli.py`, `DbClient`) | rows of `messages`, `control_queue` | send, read, delete, retry, eject | own connections; SELECT and UPDATE are separate |
| heartbeat (`tui/heartbeat.py`) | `daemon_heartbeat` | write at the end of a tick, compare with the clock | one thread's sign of life stands for all |
| TUI inbox (`tui/screens/inbox.py`) | table, cursor, `_max_id_seen`, status bar, modal | poll, refresh, mark read, delete | acts on row numbers of a list selected again |
| TUI compose and dialogs (`compose.py`, `modals.py`) | the To field, the node a dialog was opened on | send, discard, set alias, confirm | what they show was read when they were opened |

They interact through the database (one writer thread in the daemon, one connection
per call in the clients), through the two dictionaries behind `_inflight_lock`, through
`_drain_lock` and `_shutdown` at shutdown, and through the callbacks of the radio
library. What makes each of them correct is stated in its module under "What ...
promises".

## Modules

| module | models | composed with |
|---|---|---|
| `Outbox` | the outbound path: TX, callback, scheduler, users, crashes, statements that fail | instantiates `MessageLifecycle` |
| `MessageLifecycle` | the abstract life of a message that `README.md` draws | |
| `OutboxProofs` | safety of `Outbox`, the retry budget | |
| `OutboxLifecycleProofs` | that `Outbox` implements `MessageLifecycle`, and what `_inflight`, `acked_at` and FAILED mean under `Patient` | extends `OutboxProofs` |
| `Inbound` | DMs, reads, TTLs, auto-delete | instantiates `MessageRetention` |
| `MessageRetention` | how long a received message is kept, and who may delete it | |
| `Addressing` | send, alias, compose, reply and the alias dialog on the table `senders`; the daemon's INSERTs | instantiates `SenderTable` |
| `SenderTable` | what that table promises to its readers | |
| `RadioLink` | `Radio.connect/disconnect`, RX loop, control queue, dongle | |
| `Shutdown` | `Daemon.stop`, `DbThread`, drain lock, scheduler and heartbeat, signals | instantiates `StatementCalls` |
| `StatementCalls` | what `DbThread.execute` promises its callers: one atomic statement per call | |
| `ConfigReload` | `ConfigWatcher`, start-up pinning, live reload | |
| `InboxScreen` | the TUI's main screen over a changing database | |
| `InboundProofs`, `AddressingProofs`, `RadioLinkProofs`, `ShutdownProofs`, `ConfigReloadProofs`, `InboxScreenProofs` | proofs about the modules they are named after | |
| `MCOutbox`, `MCInbound`, `MCAddressing`, `MCConfigReload`, `MCInboxScreen` | constants and symmetry for TLC | |

**Grain of atomicity.** One action is one SQL statement (the DB thread serves one
request at a time and commits each), one section under `_inflight_lock`, or one access
to an attribute that threads share without a lock. What a thread keeps in local
variables from one step to the next is in the state (`job`, `todo`, `rx`, `client`,
`opening`, `new_cfg`, `modal`), and can be stale when it is used.

**Outbox.** A row keeps `state`, `retry_count`, `meshtastic_packet_id`, `sent_at` (as
the transmission it stamps), whether `acked_at` is set, and whether `next_attempt_at`
lies ahead. `TxDrain`, `TxSend`/`TxSendFails`, `TxRecord`, `TxRegister`, `TxReplay`
are the steps of `_tx_drain_once`; `RxRouting` (its lock section is `PopOrStash`),
`Verify`, `WriteAck`, `SendFailure` those of `_handle_ack_nak` and
`_handle_send_failure`, which the callback thread and the TX thread both run;
`SchedScan`, `SchedCheck`, `SchedDrop`, `SendFailure` step 1 of `_sched_tick`. A reply
to any packet on the air may come at any time and any number of times, before
`send_text` returns or long after the timeout. `Age` lets `ack_timeout_s` pass for a
packet; the monotonic clock of `_inflight` and the wall clock of `sent_at` are taken to
agree. `connected` is what TX looks at before it drains and `send_text` before it sends; the
link comes and goes at any time (`LinkChanges`, which stands for module `RadioLink`), and
without one TX only sleeps. `Links` is the values it takes. `Crash` keeps the rows and loses the rest. `DbFails` is a statement that raises in
its caller, because the database is locked, full, or slower than the 30 s `execute()`
waits: the callback logs it, the wall-clock branch of the scan (label `try`) swallows it
and goes on with the next row, and everywhere else the thread ends (`dead`) until the
daemon is restarted. In every case what the thread held is gone, also a reply that it had popped.
Two constants choose the environment:
`Deletable`, the states in which users delete, and `Timely`, which says that no thread
holds a copy of a message, and no reply to it arrives, after its ACK timeout.
`overruled` is the history of an exception: `_deferred_acks` keeps one reply of a packet, the
last, so an ACK that a NAK for the same packet follows before TX has registered the packet is
lost. `AckNotLost` says of every other ACK heard that early that, once the packet is tracked,
TX is about to replay it, and as an ACK.

**Inbound.** `_on_text` is `RxText`, `RxSender`, `RxInsert`; the read commands are
`ReadLook` (the SELECT and the time to live), `ReadStamp` (the end, by the clock of that
moment) and `ReadMark` (the UPDATE that is made with it); the scheduler takes its `now` in `TickStart` and deletes in
`AutoDelete`. `Resolve` is `Config.resolve_auto_delete`. What `meshcli alias` and the
others do to `senders` is the environment here (`ClientInsert`, `ClientUpdate`, any time);
the programs behind it are in `Addressing`. Nothing in the code refuses a negative TTL, so
times to live are integers: such a message is due when it is read. The clock does not step
back. `MessageRetention` is the same without threads and without the table of senders: a
reader works out an end (`Open`) from one of the times to live that the sender may have
(`Lives`), the first to record it starts the timer (`Read`), the others do nothing (`Late`),
and a message goes when its user deletes it or in the first tick that begins when that time is over.

**Addressing.** `Send`, `Alias` (shell), `New`, `Reply`, `SetAlias` (TUI) start a program
that goes through the steps its code goes through: `LookAlias` and `LookNode` are the two
SELECTs of `resolve_alias`, both `COLLATE NOCASE` (`Fold` maps a text to its class), `Ensure`
and `Insert` are `ensure_sender`, `Update` is `update_sender`, whose statements have one
commit, `Enqueue` is `enqueue_outbound`. `meshcli alias` takes any text for a node id, so
a row of `senders` may be named by any text. A statement that a unique index refuses raises,
which ends the command or the TUI. On the daemon's side `RxLook` and `RxInsert` are
`_ensure_sender_db`. If the INSERT is refused, Python's `sqlite3` has begun a transaction
for it that `DbThread.run` neither commits nor rolls back: `held` says that the daemon
holds the write lock, until its next write commits (`DaemonWrite`), and clients get
"database is locked" (`LockedOut`). `steady` is the history of a reply: the text in its
To field has named its sender, and no one else, since the key was pressed. `SenderTable`
is the abstract table, over the same variable: rows are inserted or renamed under a unique
alias, and nothing else.

**RadioLink.** `connect()` is four steps, `disconnect()` three, and they may overlap as
in the code. `ConnectIdentify` fails if `client` is gone by then, and may fail with a client
that is there: the object then keeps the port, and `connect()` finds it taken until a user
ejects the dongle (`Unidentified`). Two history variables say what has happened: `overlapped` that the two
threads have met in `Radio`, `orphaned` that the dongle vanished under the present
client. The properties except `ControlServed` and `LinkRecovers` name them as
exceptions, so that they show what holds as long as neither happened; `orphaned` ends
with the next `disconnect()`, `overlapped` does not end. The port is taken by one object
at a time (that is what an eject is for). The first `connect()` of `run()` happens before
the threads start and is the same as one by the RX loop.

**Shutdown.** `late` remembers that a drain began after `stop()` had passed through
the lock; it separates what `stop()` waits for from what it misses. Ctrl-C starts
`stop()`; SIGTERM, which nothing handles, ends the process at any step (`Terminate`),
and what `stop()` promises is about its own end, `main = "exited"` (`InFlightRecorded`).
`NothingUnrecorded` is what `ROADMAP.md` and `tests/test_shutdown.py` say of SIGTERM too, and
the run `shutdown_sigterm` shows it violated. A request is a
record in `DbThread._q`; serving it may fail (`errors` counts, `refused` remembers the
messages it was about), and the caller's thread ends (`TxDies`, `SchedEnds`), releasing
the drain lock on its way. The scheduler's tick is its first statement and its last, the
heartbeat; `beat` is its age against the threshold of `is_daemon_online`, and `BeatAges`
lets that pass. Two things are taken for granted. A statement that raises has had no
effect: `DbThread.run` does not roll back, but in WAL mode it is the UPDATE that takes the
write lock, and a COMMIT that fails after it is not modelled. And the 30 s of `execute()`
run out only when `DbThread` is gone, as SQLite's own wait is 5 s and at most two requests
are queued. `StatementCalls` is what the callers see: a call is one statement, without a
queue and without a thread (`Asked` is the request a caller waits for, `Statements` what each
thread may ask for: only the scheduler beats).

**ConfigReload.** A text stands for the settings it loads to; `"broken"` does not
parse (defaults) and `"ill_typed"` makes `int()` or `float()` raise.

**InboxScreen.** Every SELECT of the screen is a step; the table is what the last
refresh selected, the actions use a list selected again. `unread` is what the status bar
last counted; a SELECT that fails leaves the table empty or the count at 0, or ends the poll
(`PollFails`). Two history variables tie what is deleted to what the user saw: `fresh`, that
nobody else has written since the rows of the table were selected, and `shown`, what such a
table had at the cursor when `d` was pressed. `DeletesWhatWasShown` says that a yes deletes
that message and no other, and a no none; of a table that was out of date it says nothing,
as the dialog then asks about another message and does not say which.

## Runs

Passing runs:

| run | bounds | shows |
|---|---|---|
| `outbox_races` | 1 message, 2 packets, 1 retry, 1 crash or failed statement, the link up, deletes in any state, no timing assumption, fair | `AckNotLost`, `SettledOnce`, `AckedImpliesConfirmed`, `RetryBudget`, `TypeOK`; `SentIsSettled`: every SENT row without `acked_at` leaves SENT while the scheduler lives |
| `outbox_lifecycle` | 1 message, 2 packets, 1 retry, 2 crashes or failed statements, the link up and down, `Timely`, settled messages deleted, fair | `Outbox` implements `MessageLifecycle`; `BooksAgree`: `_inflight` has present packets of SENT rows only, `acked_at` is set in settled rows only, FAILED means that the attempts are used up; every queued message is settled while both threads live and the link is up again and again |
| `radio_link` | 3 interface objects, 2 control rows, 1 unplugging | queue served in any overlap; otherwise link truthful, no leak, eject works, link comes back |
| `inbound` | 2 DMs of 2 senders, 2 clients, clock to 2 | `Inbound` implements `MessageRetention` (forward only, 0 means never, unread kept, timer set once, nothing deleted early); expired messages are deleted |
| `addressing` | 1 node, the names emma, Emma, bob, one TTL, a shell and a TUI, the daemon | a reply reaches the sender it answers, `Addressing` implements `SenderTable`, only the alias command changes a TTL |
| `shutdown` | 2 queued rows, 2 failing statements, Ctrl-C and SIGTERM at any point | drain recorded, nobody waits in a circle, `stop()` returns, callers answered; `Shutdown` implements `StatementCalls`; the heartbeat is the scheduler's own and tells a dead one from a working one |
| `config_reload` | 2 texts, clock to 2, damaged files | newer files applied, start-up values kept |
| `inbox_screen` | 2 inbound and 1 outbound message, one failing SELECT | cursor in the table, the message that was shown deleted, the newest message comes up and what the poll has noted is shown, the unread count follows |

Violation runs, each a disagreement with a comment, a document or a test (quoted in
`PROJECT.json`):

| run | what happens |
|---|---|
| `outbox_stuck` | a timeout's UPDATE takes an ACKED row back to QUEUED, the message is resent with `acked_at` set, and the scan never looks at it again |
| `radio_link_wedged` | `disconnect()` between `connect()`'s last two assignments: connected without a client, for good |
| `inbound_lost` | a DM is dropped when a client inserts its sender between the daemon's SELECT and INSERT |
| `shutdown_sigterm` | SIGTERM ends the process between a transmission and its UPDATE, and the next daemon sends the message again |

Further disagreements met while modelling are reachable in the models but have no run:
a drain that starts after `stop()` has passed the drain lock transmits and meets a closed
connection, against the comment at `daemon.py:71` (`late`; it violates `NothingUnrecorded`
also without SIGTERM); an ACK stashed before its packet is registered is overwritten by a NAK
(`daemon.py:217`, `overruled`); a client whose identification failed holds the port against
every later `connect()`; a failed INSERT of the daemon locks all clients out until it writes
again, which nothing bounds (`held`); a message deleted while the drain holds its row comes back as SENT (`TxRecord` after
`Delete`); an ACK popped before the timeout settles the resend (`WriteAck` does not
look at the packet id, against the comment at `daemon.py:201`); an unplugged dongle is
not noticed (`orphaned` is what `ConnectedMeansWorking` has to except); an eject served
while `SerialInterface()` is opening closes nothing; a restored configuration with an
older mtime is ignored, and one removed between `stat()` and `open()` loads the
defaults; a SELECT that fails in the refresh of a poll leaves the table empty until the
next refresh; deletions by others do not leave the table, against the docstring of `_poll_db`; `m` and `d` act on the row of the new
list, not of the one on the screen; `meshcli alias` on a node that is heard between its lookup
and its `ensure_sender` prints "created" and drops the alias and the TTL (`Ensure` finds
the row, `Ensured` ends the command); a reply to `emma` may go to `Emma`, as the indexes
tell them apart and the lookup does not; a TX thread that ended shows [online] as long as
the scheduler beats, and a failed UPDATE after a transmission sends the message twice.
Most have one cause: a value is read in one
statement and a write that depends on it is made in another, without testing it again.

*Why the bounds are enough.* The races of the outbound path are between one row's
three threads: a row's statements name its id, and what two rows share is the packet
tables, whose entries name packets, and the loops, where one row only delays another (an
instance of `outbox_lifecycle` with two messages and no fault was checked once, 1.3 million
states, and is left out for its time). Two transmissions are what a late reply needs to be confused with a
resend, one crash is what loses the dictionaries, one failed statement what loses a reply or a
thread, and two are a thread that ended and the restart that revives it. `RetryBudget` is tight at these
bounds (`max_retries + 1` is exceeded), and the proofs cover all others, also the
messages that share a packet table. In `outbox_races` and
`outbox_stuck` the link stays up: without it TX can take neither a drain nor a send, and failing
sends are possible anyway, so a link that goes takes steps away and adds none; `outbox_lifecycle`, which asks what
comes of waiting, has it come and go. In `Inbound` a clock of two lets a TTL run out
before and after a tick. In `Addressing` two names
that differ in case, a third, and one node are what a reply, a rename and a registration
under a name need to collide; two programs are what the indexes and the lookups race
between, and the daemon is the third. In `Shutdown` two failing statements end one thread
and then the other. In `InboxScreen` two inbound messages are what a table needs
to shrink under its cursor; the limit of the history cuts its list off, that of the inbox is just met. Three interface objects are
one that the client holds, one that is being opened and one that leaked. The number of packets
bounds the transmissions, `MaxFaults`, `MaxErrors`, `MaxUnplugs`, `QueueLimit`, `MaxTime` and
`MaxFailures` bound what their names say; nothing else is bounded. With the packets
used up, `TxSend` is disabled and only `TxSendFails` is left, so the liveness runs end
in FAILED rather than in a run that goes on for ever.

`CHECK_DEADLOCK FALSE` is set where the system may stop: when all messages are settled
and the bounds are used up, when the process has exited, when the clock of the model has
ended.

*Fairness.* The daemon's threads are endless loops scheduled by the operating system:
weak fairness on each thread's steps. `Age` is strongly fair in `Outbox`, since time
passes also if threads pick the message up again and again under `Timely`, and so is `TxDrain`:
TX looks at the link every two seconds, and a link that is up again and again is not always
down when it looks. That the link comes up is not assumed but the premise of
`QueuedIsSettled`. In
`RadioLink`, `SerialInterface()` does not fail for ever on a plugged dongle
(`SF(ConnectAssign)`), and the scheduler is not starved by the RX loop
(`SF(ServeControl)`). In `Shutdown` a free lock is given to a thread that keeps asking, and time passes
(`WF(BeatAges)`). `Addressing` has no fairness: its scheduler may be dead, and
then nothing makes the daemon write again (`DaemonWrite`). In `InboxScreen` a handler
that has begun ends (`WF(Handler)`) and the 2 s timer fires between any number of keys
(`SF(Poll)`). Replies, users, editors, crashes, failing statements and signals have no fairness: nobody owes them.

## Proofs

**`OutboxProofs`** proves for all constants that satisfy the assumptions of `Outbox` (nulls
are not ids; `MaxRetries` and `MaxFaults` are naturals) that `IInv` is inductive.
The checked invariants alone are not: that a verified ACK settles a confirmed message
needs to know what a popped packet carried. `IInv` therefore adds

- `Labels`: which thread can be where;
- `Bookkeeping`: what is tracked, stashed or confirmed was transmitted, for the message named;
- `Copies`: snapshots name rows;
- `Unregistered`: between `send_text` and the registration, the packet is untracked, a
  confirmation that was quicker, and that no NAK overruled, is in the stash, and the callback
  thread does not hold it;
- `Replies`: a reply in a thread's hands answers a transmission of the message it names,
  and an ACK in hand was heard.

There is one lemma per action, `DbFails` included (a thread that loses its job, and perhaps
its life, keeps nothing the invariant speaks of), with a step per conjunct where the action disturbs more
than one; `NextIInv` puts them together, `Invariance` is `Spec => []IInv`, and
`TypeCorrect`, `NoAckIsLost`, `SettlesOnce` and `AckedIsConfirmed` follow from it.

`RetryBounded` is `Spec => []RetryBudget`: a thread may add
one to `retry_count` only while it holds a copy of the row read below the limit, a
*permit*. A permit is obtained only while the count is below `MaxRetries`, each of the
three threads holds at most one per row (`OneCopy`), so count plus permits never exceeds
`MaxRetries + 2`: when a thread obtains one, the count is at most `MaxRetries - 1` and
all three may hold one. User retries only lower the count, crashes and failed statements
drop permits.

**`OutboxLifecycleProofs`**: `LifecycleRefined`, `Spec => ImplementsLifecycle`, under the
assumption `Patient` that the run `outbox_lifecycle` makes too: `Timely`, and users who
delete ACKED and FAILED messages only. Without it the statement is false (see the
disagreements above). `IInv` is not enough, as it lets a stale thread write; the
simulation rests on `LInv`, which says who may write a row:

- `Exclusive`: no two threads are about to write one row;
- `TxKnows`, `RepliesKnow`, `SchedKnows`: the one that is finds in the row the state and
  the count it read, and for the scheduler also the packet;
- `Quiet`: when the present packet of a SENT row has timed out, neither TX nor the callback
  has anything to do with the row, so it belongs to the scheduler;
- `Present`: what is tracked is the present packet of a SENT row, and a thread at work on
  that row is the scheduler about to pop it;
- `Rows`, `Ages`, `Jobless`: the count is within `max_retries`, what a SENT row says of its
  transmission is true, a NEW message was never transmitted.

There is one lemma per action that `LInv` is kept (`LetGo`, `WriteRow` and `UserWrite` do
the work for all threads that drop a row, settle one, or leave it to its user), and one
lemma per abstract action: `TxRecord` is `Send`, `WriteAck` is `Settle`, `SendFailure` is
`TryAgain` or `GiveUp` (`FailureWrites`), `RxRouting` is `Reach` or hidden, the users'
statements are the users' actions, everything else is hidden.

`BooksAlwaysAgree` adds what the threads and the scan rely on: that `_inflight` tracks present
packets only is in `Present`, that `acked_at` and FAILED mean what they say is an induction on
the rows whose step is `RowMoves`, what a step may do to one row. None of the three is true
without `Patient`.

**`AddressingProofs`**, for any nodes, names and numbers of shells and screens and any
folding of case that `FoldAssumption` allows. `IInv` has the types, and per program
`Ready`, what its local variables must hold for its next step. From it every step is a step of `SenderTable` or
none (`TableRefined`), since a statement that passes its unique index is exactly `Appear`
or `Rename`; `TTLOnlyByCommand` falls out of the same case analysis. `ReplyIsDelivered`
needs `OnCourse`: while the text of the To field has named the sender and no one else,
what the program has found so far is that sender.

**`InboundProofs`**: `Stored` (a DM is stored once, by the call that heard it), `Untimed`
(no timer before the first read) and `OptedOut` (a reader that looked up the TTL of a sender
who opted out holds none) make the invariant inductive; the action properties are read off
`Steps`, what one step may do to one message. `RetentionRefined` needs two facts more: a
reader holds what `resolve_auto_delete` made of a value that was in force when it looked
(`Looked`), however the table changed since, and a tick works with a time that has been
(`Ticked`). With them the INSERT is `Arrive`, `ReadStamp` is `Open`, the UPDATE of `mark_read` is `Read`
or `Late` (`OneReader`: the end leaves `reading` unless another reader holds the same), a delete is
`Remove`, the tick's UPDATE is `Expire`, and all else is hidden. `MessagesMoveForward`,
`UnreadStays`, `TimerStartsOnce` and `OptOutHolds` say of one message what the refinement
contains.

**`RadioLinkProofs`**: `Opening` ties the object that `connect()` is building to where the
RX loop stands; `Apart` is what holds as long as the two threads have not met in `Radio`: the
port is with the client or with the object that is being opened.

**`ShutdownProofs`**, for `InFlightIsRecorded`: the queue of `DbThread` holds at most one request of a thread, and
that thread waits for the answer (`Queued`, `Callers`); a drain holds the lock
(`Locking`), so that `stop()` has passed only when no drain is under way (`Stopped`); TX asks
for nothing that would take back what it sent (`Writes`); and a message on the air is SENT,
or TX waits for the UPDATE that says so (`InFlight`). `NoCircle` and `OnlineByScheduler` add
`WInv`: who waits in `execute()` has a request in the queue and a drain that goes on has a
row (`Waiting`), and a heartbeat in the queue is one that the scheduler waits for, or died waiting
for (`Beating`). That `DbThread` has not left while `stop()` waits for a drain follows from the order in
which `stop()` writes `_running`. `CallsRefined` is the atomicity of `execute()`: the request a
caller waits for, `Asked`, changes when the caller posts one, when `DbThread` answers it, and when
the caller gives up, and in no other step (`AskedPosted`, `AskedServed`, `AskedAnswered`), so a
pass of `DbThread` is `Execute` or `Raise` of the caller at the head of the queue, and a request
left behind by a caller that gave up is never served, because `DbThread` is gone then.

**`ConfigReloadProofs`**: `StartupBound` with the types is inductive, for any texts and any
number of edits.

**`InboxScreenProofs`**: the types rest on the lists being lists: the n-th row of a list is
the message that n - 1 others precede, and `OldestFirstIsList` shows by counting ranks that
there is exactly one. `CursorStays` needs only that the cursor is on a row of the table.
`ShownIsDeleted` needs `TableIsListing`, that a fresh table is what selecting its tab again
returns whenever a key can be pressed, so that the row number finds the message that was
shown, and `AsksAboutShown`, that the dialog keeps asking about it. `NotedIsShown`
needs more: ids are handed out in order (`Numbered`), so the newest message is the
first row of the inbox (`NewestIsFirst`, `InboxHasNewest`), which the limit never cuts off; and
between the poll's note and the end of the refresh the screen handles no key, so only other
programs move.

Only model-checked: the liveness properties (`SentIsSettled`, `QueuedIsSettled`,
`ControlServed`, `EjectReleases`, `EjectedReconnects`, `ExpiredIsDeleted`, `StopReturns`,
`CallerIsAnswered`, `DeadShowsOffline`, `WorkingShowsOnline`, `NewerIsApplied`,
`NewArrivalShown`, `UnreadFollows`), which are outside the prover's reach, as is
ENABLED. `NoCircle` is the part of `StopReturns` that can be said of a state. Nothing here needs
induction over data, and no module uses a RECURSIVE operator.

## Not modelled

- The Textual application object and its bindings (`tui/app.py`), the help dialog, wording,
  styles and layout of the CLI and the TUI: they keep no state that anything reads.
- The listings of `meshcli` and the helpers that feed them: they only print. The size
  warning of `db-status` is one of them; a body over the limit is refused before a row
  exists. `dongle-detect` looks at the ports and keeps nothing.
- `vacuum` itself, which is SQLite's; the statements that fail while it runs are in
  `Outbox` and `Shutdown`.
- Mock data, packaging and entry points.

Abstracted in what is modelled: message bodies, node ids and aliases are values of small
sets; an address typed in another letter case than a node id's is left out, aliases in
another case are not. Retry delays are "ahead" or "past". The two clocks of the timeout do
not drift apart. Packet ids are not reused. Outside `Outbox`, `Shutdown`, `Addressing` and
`InboxScreen` statements do not fail, as no property there is about it.

## Plan

Every component with state is modelled and checked; every invariant, action property and
refinement that a passing run checks is a theorem. What would extend it:

1. State-level parts of the other liveness properties, as `NoCircle` is of `StopReturns`: that
   a row a restart left in SENT stays within reach of the scan (`SentIsSettled`), that a control
   row never waits on the RX loop (`ControlServed`).
2. The daemon's threads in one module (`Outbox` with the drain lock of `Shutdown` and the
   link of `RadioLink`), to state what a reconnect in the middle of a drain costs a row.
3. `Outbox` with packet ids that are used again, which `_deferred_acks` would answer.

---------------------------- MODULE ConfigReload ----------------------------
(***************************************************************************)
(* The configuration file and the daemon that follows it: ConfigWatcher,   *)
(* the start-up in main() that pins the settings which cannot change while *)
(* the daemon runs, and the reload at the top of _sched_loop.  Looking at  *)
(* the mtime and reading the file are separate system calls, and editors   *)
(* write, restore and remove the file at any time in between.              *)
(***************************************************************************)
EXTENDS Naturals

CONSTANTS Texts,     \* well-formed contents of the file
          Port,      \* the serial_port each of them sets
          None,      \* no file; no port
          PortFlag,  \* --port, or None
          MaxTime    \* bound on the clock that stamps the file

\* TOML that does not parse, and TOML with a value that int() or float() refuses.
Damaged == {"broken", "ill_typed"}

ASSUME ConfigAssumption == /\ Texts \cap Damaged = {}
                           /\ None \notin Texts \cup Damaged
                           /\ MaxTime \in Nat \ {0}

VARIABLES
    now,      \* the clock of the file system
    file,     \* the file at cfg_path: its text and mtime, or None
    mtime,    \* ConfigWatcher._mtime
    main,     \* where the main thread is in main()
    sched,    \* where the scheduler thread is in _sched_loop
    new_cfg,  \* the Config a load returned and nobody pinned yet
    cfg,      \* Daemon.cfg
    bound     \* the port and database that Radio and DbThread were built from

vars == <<now, file, mtime, main, sched, new_cfg, cfg, bound>>
disk == <<now, file>>

Defaults == [text |-> "defaults", serial_port |-> None, db_path |-> "sibling"]

Text(f) == IF f = None THEN None ELSE f.text

\* Mutant of FromToml: a value of the wrong type is kept as it is.
FromTomlUnchecked(text) ==
    [text |-> IF text = None THEN "defaults" ELSE text,
     serial_port |-> IF text \in Texts THEN Port[text] ELSE None, db_path |-> "sibling"]

\* Config.from_toml, which logs a parse error and returns the defaults; it looks
\* for the database next to the file.
FromToml(text) ==
    IF text \in Texts
    THEN [text |-> text, serial_port |-> Port[text], db_path |-> "sibling"]
    ELSE Defaults

Stamp(f) == IF f = None THEN None ELSE f.mtime

Init ==
    /\ now = 1
    /\ file \in {None} \cup [text: Texts, mtime: {0, 1}]
    /\ mtime = None
    /\ main = "load"
    /\ sched = "stat"
    /\ new_cfg = Defaults
    /\ cfg = Defaults
    /\ bound = None

-----------------------------------------------------------------------------
(* main() and ConfigWatcher.__init__                                       *)

\* A value of the wrong type raises and the daemon does not start.
StartLoad ==
    /\ main = "load"
    /\ IF Text(file) = "ill_typed"
       THEN main' = "failed" /\ UNCHANGED new_cfg
       ELSE main' = "stat" /\ new_cfg' = FromToml(Text(file))
    /\ UNCHANGED <<disk, mtime, sched, cfg, bound>>

StartStat ==
    /\ main = "stat"
    /\ mtime' = Stamp(file)
    /\ main' = "pin"
    /\ UNCHANGED <<disk, sched, new_cfg, cfg, bound>>

\* --db or the canonical path, --port if it was given; then Daemon(cfg).
StartPin ==
    /\ main = "pin"
    /\ LET port == IF PortFlag # None THEN PortFlag ELSE new_cfg.serial_port
       IN  /\ cfg' = [new_cfg EXCEPT !.db_path = "pinned", !.serial_port = port]
           /\ bound' = [db_path |-> "pinned", serial_port |-> port]
    /\ main' = "running"
    /\ UNCHANGED <<disk, mtime, sched, new_cfg>>

-----------------------------------------------------------------------------
(* ConfigWatcher.reload_if_changed and _sched_loop                         *)

\* Mutant of Newer: without an earlier look there is nothing to be newer than.
NewerThanSome(current, last) == current # None /\ last # None /\ current > last

Newer(current, last) == current # None /\ (last = None \/ current > last)

\* A missing file, and one that is not newer than the last look, change nothing.
ReloadStat ==
    /\ main = "running"
    /\ sched = "stat"
    /\ IF Newer(Stamp(file), mtime) THEN mtime' = Stamp(file) /\ sched' = "load"
                                   ELSE UNCHANGED <<mtime, sched>>
    /\ UNCHANGED <<disk, main, new_cfg, cfg, bound>>

\* Nothing in _sched_loop catches what from_toml raises: the thread ends.
ReloadLoad ==
    /\ sched = "load"
    /\ IF Text(file) = "ill_typed"
       THEN sched' = "dead" /\ UNCHANGED new_cfg
       ELSE sched' = "swap" /\ new_cfg' = FromToml(Text(file))
    /\ UNCHANGED <<disk, mtime, main, cfg, bound>>

\* Mutant of Carried: the port is not carried over.
CarriedDb == [new_cfg EXCEPT !.db_path = cfg.db_path]

\* The start-up values are carried over.
Carried == [new_cfg EXCEPT !.db_path = cfg.db_path, !.serial_port = cfg.serial_port]

ReloadSwap ==
    /\ sched = "swap"
    /\ cfg' = Carried
    /\ sched' = "stat"
    /\ UNCHANGED <<disk, mtime, main, new_cfg, bound>>

-----------------------------------------------------------------------------
(* Editors and the clock                                                   *)

\* Save, or put an older file in place with its own mtime (cp -p, mv, tar).
Write(text, stamp) ==
    /\ stamp <= now
    /\ file' = [text |-> text, mtime |-> stamp]
    /\ UNCHANGED <<now, mtime, main, sched, new_cfg, cfg, bound>>

Remove ==
    /\ file' = None
    /\ UNCHANGED <<now, mtime, main, sched, new_cfg, cfg, bound>>

Tick ==
    /\ now < MaxTime
    /\ now' = now + 1
    /\ UNCHANGED <<file, mtime, main, sched, new_cfg, cfg, bound>>

Startup == StartLoad \/ StartStat \/ StartPin
Reload == ReloadStat \/ ReloadLoad \/ ReloadSwap

Next == \/ Startup
        \/ Reload
        \/ \E text \in Texts \cup Damaged, stamp \in 0..MaxTime : Write(text, stamp)
        \/ Remove
        \/ Tick

Spec == Init /\ [][Next]_vars

\* The main thread and the scheduler keep running; editors owe nothing.
FairSpec == Spec /\ WF_vars(Startup) /\ WF_vars(Reload)

-----------------------------------------------------------------------------
(* What the configuration promises.                                        *)

\* Every variable keeps its type.
TypeOK ==
    /\ now \in 1..MaxTime
    /\ file \in {None} \cup [text: Texts \cup Damaged, mtime: 0..MaxTime]
    /\ mtime \in {None} \cup 0..MaxTime
    /\ main \in {"load", "stat", "pin", "running", "failed"}
    /\ sched \in {"stat", "load", "swap", "dead"}
    /\ {new_cfg, cfg} \subseteq [text: Texts \cup {"defaults"},
                                 serial_port: {Port[t] : t \in Texts} \cup {None, PortFlag},
                                 db_path: {"sibling", "pinned"}]
    /\ bound = None \/ bound \in [serial_port: {Port[t] : t \in Texts} \cup {None, PortFlag},
                                  db_path: {"pinned"}]

\* "db_path and serial_port are startup-bound" (_sched_loop): what the daemon
\* believes is what Radio and DbThread use, through every reload.
StartupBound ==
    bound # None => /\ cfg.db_path = bound.db_path
                    /\ cfg.serial_port = bound.serial_port

\* A file newer than any the watcher looked at is applied, if it stays long
\* enough to be read and the scheduler has not died of an earlier one.
NewerIsApplied ==
    \A text \in Texts \cup {"broken"}, stamp \in 0..MaxTime :
        LET written == file = [text |-> text, mtime |-> stamp]
        IN  (main = "running" /\ written /\ (mtime = None \/ stamp > mtime))
              ~> (cfg.text = FromToml(text).text \/ ~written \/ sched = "dead")
=============================================================================

------------------------- MODULE ConfigReloadProofs -------------------------
(***************************************************************************)
(* Proofs about module ConfigReload: the settings that Radio and DbThread  *)
(* were built from stay those the daemon believes in, whatever happens to  *)
(* the file, for any contents of it.                                       *)
(***************************************************************************)
EXTENDS ConfigReload, TLAPS

Ports == {Port[t] : t \in Texts} \cup {None, PortFlag}

Config == [text: Texts \cup {"defaults"}, serial_port: Ports, db_path: {"sibling", "pinned"}]

File == [text: Texts \cup Damaged, mtime: 0..MaxTime]

IInv == TypeOK /\ StartupBound

LEMMA Loaded ==
    ASSUME NEW text \in Texts \cup Damaged \cup {None}
    PROVE  FromToml(text) \in Config
BY DEF FromToml, Defaults, Config, Ports

LEMMA FileText ==
    ASSUME TypeOK
    PROVE  /\ Text(file) \in Texts \cup Damaged \cup {None}
           /\ Stamp(file) \in {None} \cup 0..MaxTime
BY DEF TypeOK, Text, Stamp

LEMMA InitIInv == Init => IInv
<1> SUFFICES ASSUME Init PROVE IInv
  OBVIOUS
<1>1. Defaults \in Config
  BY DEF Defaults, Config, Ports
<1>2. file \in {None} \cup File /\ now \in 1..MaxTime
  BY ConfigAssumption DEF Init, File
<1>3. TypeOK
  BY <1>1, <1>2 DEF Init, TypeOK, Config, Ports, File
<1> QED BY <1>3 DEF Init, IInv, StartupBound

LEMMA StartupStep ==
    ASSUME IInv, Startup
    PROVE  IInv'
<1> DEFINE port == IF PortFlag # None THEN PortFlag ELSE new_cfg.serial_port
<1>1. FromToml(Text(file)) \in Config /\ new_cfg \in Config /\ cfg \in Config
  BY Loaded, FileText DEF IInv, TypeOK, Config, Ports
<1>2. CASE StartLoad
  BY <1>1, <1>2 DEF IInv, TypeOK, StartupBound, StartLoad, disk, Config, Ports
<1>3. CASE StartStat
  BY <1>3, FileText DEF IInv, TypeOK, StartupBound, StartStat, disk
<1>4. CASE StartPin
  <2>1. /\ cfg' = [new_cfg EXCEPT !.db_path = "pinned", !.serial_port = port]
        /\ bound' = [db_path |-> "pinned", serial_port |-> port]
        /\ port \in Ports
    BY <1>1, <1>4 DEF StartPin, Config, Ports
  <2>2. cfg' \in Config /\ cfg'.db_path = "pinned" /\ cfg'.serial_port = port
    BY <1>1, <2>1 DEF Config
  <2>3. TypeOK'
    BY <1>1, <1>4, <2>1, <2>2 DEF IInv, TypeOK, StartPin, disk, Config, Ports
  <2> QED BY <2>1, <2>2, <2>3 DEF IInv, StartupBound
<1> QED BY <1>2, <1>3, <1>4 DEF Startup

LEMMA ReloadStep ==
    ASSUME IInv, Reload
    PROVE  IInv'
<1>1. FromToml(Text(file)) \in Config /\ new_cfg \in Config /\ cfg \in Config
  BY Loaded, FileText DEF IInv, TypeOK, Config, Ports
<1>2. CASE ReloadStat
  BY <1>2, FileText DEF IInv, TypeOK, StartupBound, ReloadStat, disk
<1>3. CASE ReloadLoad
  BY <1>1, <1>3 DEF IInv, TypeOK, StartupBound, ReloadLoad, disk, Config, Ports
<1>4. CASE ReloadSwap
  <2>1. /\ Carried \in Config
        /\ Carried.db_path = cfg.db_path /\ Carried.serial_port = cfg.serial_port
    BY <1>1 DEF Carried, Config
  <2>2. TypeOK'
    BY <1>4, <2>1 DEF IInv, TypeOK, ReloadSwap, disk, Config, Ports
  <2> QED BY <1>4, <2>1, <2>2 DEF IInv, StartupBound, ReloadSwap
<1> QED BY <1>2, <1>3, <1>4 DEF Reload

LEMMA NextIInv ==
    ASSUME IInv, [Next]_vars
    PROVE  IInv'
<1>1. ASSUME NEW text \in Texts \cup Damaged, NEW stamp \in 0..MaxTime, Write(text, stamp)
      PROVE  IInv'
  <2>1. file' \in File
    BY <1>1 DEF Write, File
  <2> QED BY <1>1, <2>1 DEF IInv, TypeOK, StartupBound, Write, File
<1>2. CASE Remove \/ Tick
  BY <1>2, ConfigAssumption DEF IInv, TypeOK, StartupBound, Remove, Tick
<1>3. CASE UNCHANGED vars
  BY <1>3 DEF vars, disk, IInv, TypeOK, StartupBound
<1> QED BY <1>1, <1>2, <1>3, StartupStep, ReloadStep DEF Next

\* Every variable of ConfigReload keeps its type.
THEOREM TypeCorrect == Spec => []TypeOK
<1>1. IInv /\ [Next]_vars => IInv'
  BY NextIInv
<1>2. IInv => TypeOK
  BY DEF IInv
<1> QED BY InitIInv, <1>1, <1>2, PTL DEF Spec

\* No reload moves the daemon away from the port and the database it opened.
THEOREM StartupValuesStay == Spec => []StartupBound
<1>1. IInv /\ [Next]_vars => IInv'
  BY NextIInv
<1>2. IInv => StartupBound
  BY DEF IInv
<1> QED BY InitIInv, <1>1, <1>2, PTL DEF Spec
=============================================================================

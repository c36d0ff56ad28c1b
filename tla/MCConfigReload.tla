--------------------------- MODULE MCConfigReload ---------------------------
(* Model-checking instances of ConfigReload: two configurations, of which  *)
(* one names a serial port.                                                *)
EXTENDS ConfigReload, TLC

CONSTANTS t1, t2, p1

PortDef == (t1 :> None) @@ (t2 :> p1)
=============================================================================

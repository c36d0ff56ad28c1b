----------------------------- MODULE MCInbound ------------------------------
(* Model-checking instances of Inbound: two nodes, of which n1 has opted    *)
(* out of auto-delete in config.toml; the global default is one time unit.  *)
EXTENDS Inbound, TLC

CONSTANTS m1, m2, n1, n2

FromDef == (m1 :> n1) @@ (m2 :> n2)
TomlDef == (n1 :> 0) @@ (n2 :> None)
TTLsDef == {None, -1, 2}

\* One node writes both messages.
FromOneDef == (m1 :> n2) @@ (m2 :> n2)
=============================================================================

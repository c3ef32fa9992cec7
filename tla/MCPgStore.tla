------------------------------ MODULE MCPgStore ------------------------------
(***************************************************************************)
(* PgStore with small sets of runs and callers; see PgStore.cfg.           *)
(***************************************************************************)
EXTENDS PgStore
=============================================================================

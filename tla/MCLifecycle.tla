----------------------------- MODULE MCLifecycle -----------------------------
(***************************************************************************)
(* Lifecycle for TLC: every option a caller can pass, both dialects and the *)
(* one pggen does not know.                                                 *)
(***************************************************************************)
EXTENDS Lifecycle

MCLanguages == {"", "go", "other"}
MCDialects  == {"postgres", "clickhouse", "other"}
=============================================================================

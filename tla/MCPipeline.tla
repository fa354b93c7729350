----------------------------- MODULE MCPipeline -----------------------------
(***************************************************************************)
(* Pipeline for TLC: two stages, the first of which may be sent back once. *)
(***************************************************************************)
EXTENDS Pipeline

Retries == <<1, 0>>

=============================================================================

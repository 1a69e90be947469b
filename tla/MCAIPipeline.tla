----------------------------- MODULE MCAIPipeline -----------------------------
(* Small instances of AIPipeline. *)
EXTENDS AIPipeline
=============================================================================

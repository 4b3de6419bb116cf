--------------------------- MODULE MCEvalBackend ---------------------------
(***************************************************************************)
(* Two explorer threads on each backend.                                   *)
(***************************************************************************)
EXTENDS EvalBackend
=============================================================================

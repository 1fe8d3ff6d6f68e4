----------------------------- MODULE MCStreamRetry -----------------------------
(* Instance of StreamRetry for TLC. *)
EXTENDS StreamRetry
================================================================================

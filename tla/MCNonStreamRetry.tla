--------------------------- MODULE MCNonStreamRetry ---------------------------
(* Instance of NonStreamRetry for TLC. *)
EXTENDS NonStreamRetry
===============================================================================

----------------------------- MODULE MCElidedStore -----------------------------
(* Instance of ElidedStore for TLC. *)
EXTENDS ElidedStore
================================================================================

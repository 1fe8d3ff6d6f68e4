------------------------------ MODULE MCTagsCache ------------------------------
(* Instances of TagsCache for TLC. *)
EXTENDS TagsCache
================================================================================

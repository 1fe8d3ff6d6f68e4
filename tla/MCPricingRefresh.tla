--------------------------- MODULE MCPricingRefresh ---------------------------
(* Instances of PricingRefresh for TLC. *)
EXTENDS PricingRefresh
===============================================================================

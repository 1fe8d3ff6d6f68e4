----------------------------- MODULE MCGeminiCache -----------------------------
(* Instances of GeminiCache for TLC. *)
EXTENDS GeminiCache, TLC

\* Requests, resources, toolsets and choices are not told apart.
GeminiSymmetry ==
    Permutations(Requests) \union Permutations(Names)
        \union Permutations(Toolsets) \union Permutations(Choices)
================================================================================

----------------------------- MODULE PromptBudget -----------------------------
(***************************************************************************)
(* What is left of a conversation that is too long, and what is said       *)
(* twice: TrimContents (budget.go), DedupReplayedBlocks (dedup.go) and     *)
(* DedupSubstringBlocks (dedup_substring.go).                              *)
(***************************************************************************)
EXTENDS PromptParts

-------------------------------------------------------------------------------
\* The longest suffix that fits; the last turn is kept even if it does not.
TrimContents(contents, sysBytes, knobs) ==
    LET n == Len(contents)
        Bytes(from) == SumFunction([i \in from..n |-> ContentBytes(contents[i])])
        fitting == {i \in 1..n : sysBytes + Bytes(i) <= knobs.budget}
    IN IF knobs.budget = 0 \/ n = 1 THEN contents
       ELSE IF sysBytes >= knobs.budget THEN <<contents[n]>>
       ELSE SubSeq(contents, Min(fitting \union {n}), n)

-------------------------------------------------------------------------------
\* Equal texts of the same role, long enough: the first one stays.
DedupReplayedBlocks(contents, knobs) ==
    LET Long(p) == p.kind = "text" /\ TextSize(p) >= knobs.dedupMin
        Twins(i, j) ==
            {k \in {h \in 1..i : contents[h].role = contents[i].role} :
                \E m \in DOMAIN contents[k].parts :
                    /\ Before(<<k, m>>, <<i, j>>)
                    /\ contents[k].parts[m] = contents[i].parts[j]}
        Replace(i, j) ==
            LET p == contents[i].parts[j]
            IN IF Long(p) /\ Twins(i, j) # {} THEN Pointer(Min(Twins(i, j)), p) ELSE p
    IN MapParts(contents, Replace, LAMBDA i : knobs.dedup /\ Len(contents) >= 2)

\* A text that is nothing but a block stands verbatim inside a longer one.
IsBareBlock(p) ==
    /\ p.kind = "text"
    /\ p.says = "nothing"
    /\ p.block # NoBlock
    /\ p.env = "none"
    /\ p.shown = <<>>
    /\ ~p.nudged

Embeds(p, needle) ==
    /\ p.kind = "text"
    /\ p.shown = <<>>
    /\ p.block = needle.block
    /\ TextSize(p) > TextSize(needle)

\* Every later text that holds a bare block points at the block's turn.
DedupSubstringBlocks(contents, knobs) ==
    LET Needle(q) == IsBareBlock(q) /\ TextSize(q) >= knobs.dedupMin
        Sources(i, j) ==
            {k \in {h \in 1..i : contents[h].role = contents[i].role} :
                \E m \in DOMAIN contents[k].parts :
                    /\ Before(<<k, m>>, <<i, j>>)
                    /\ Needle(contents[k].parts[m])
                    /\ Embeds(contents[i].parts[j], contents[k].parts[m])}
        Replace(i, j) ==
            LET p == contents[i].parts[j]
            IN IF p.kind = "text" /\ p.block # NoBlock /\ Sources(i, j) # {}
               THEN [p EXCEPT !.at = Min(Sources(i, j))] ELSE p
    IN MapParts(contents, Replace, LAMBDA i : knobs.substring /\ Len(contents) >= 2)
===============================================================================

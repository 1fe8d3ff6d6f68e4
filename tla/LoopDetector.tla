------------------------------ MODULE LoopDetector ------------------------------
(***************************************************************************)
(* The runaway-repetition detector of pkg/api/stopdetect.go: a buffer of   *)
(* the last LoopWindow symbols and a count of its chunks.                  *)
(***************************************************************************)
EXTENDS Naturals, Sequences, FiniteSets

CONSTANTS
    LoopWindow,      \* GW_LOOP_DETECT_WINDOW, 512
    LoopChunk,       \* GW_LOOP_DETECT_CHUNK, 64
    LoopThreshold    \* GW_LOOP_DETECT_THRESHOLD, 6

\* envIntAPI returns positive values; NewLoopDetector falls back to its
\* defaults where the window holds fewer than two chunks.
ASSUME LoopDetectorAssumption ==
    /\ {LoopWindow, LoopChunk, LoopThreshold} \subseteq Nat \ {0}
    /\ LoopWindow >= 2 * LoopChunk

LastOf(seq, n) == IF Len(seq) <= n THEN seq ELSE SubSeq(seq, Len(seq) - n + 1, Len(seq))

ObserveUntrimmed(buf, text) == buf \o text

Observe(buf, text) == LastOf(buf \o text, LoopWindow)

ChunkAt(buf, i) == SubSeq(buf, i, i + LoopChunk - 1)
\* Chunks side by side instead of one per position.
ChunkStartsAligned(buf) ==
    {i \in 1..Len(buf) : i + LoopChunk - 1 <= Len(buf) /\ (i - 1) % LoopChunk = 0}

ChunkStarts(buf) == {i \in 1..Len(buf) : i + LoopChunk - 1 <= Len(buf)}
Occurrences(buf, i) == {j \in ChunkStarts(buf) : ChunkAt(buf, j) = ChunkAt(buf, i)}

LoopDetected(buf) ==
    /\ Len(buf) >= LoopChunk * LoopThreshold
    /\ \E i \in ChunkStarts(buf) : Cardinality(Occurrences(buf, i)) > LoopThreshold

-------------------------------------------------------------------------------
(* What the settings amount to. *)

\* The text ends in n symbols that repeat a block of p.
EndsInRepetition(text, p, n) ==
    /\ n <= Len(text)
    /\ \A i \in (Len(text) - n + 1)..(Len(text) - p) : text[i] = text[i + p]

\* Symbols of repetition after which a block of p must have been noticed: with
\* the defaults more than the window holds once p is longer than 74.
Tolerated(p) ==
    LET counted == LoopThreshold * p + LoopChunk
        buffered == LoopChunk * LoopThreshold
    IN IF counted > buffered THEN counted ELSE buffered
================================================================================

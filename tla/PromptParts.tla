------------------------------ MODULE PromptParts ------------------------------
(***************************************************************************)
(* The conversation the prompt pipeline (pkg/pipeline) works on: a         *)
(* sequence of turns, each a role and its parts.                           *)
(*                                                                         *)
(* Contents are abstract.  A text says something, may carry one pasted     *)
(* block and an <environment_details> snapshot.  A response belongs to the *)
(* call with its key.  What compression did to a part is in "shown": the   *)
(* forms it was given one after the other, <<>> for the original.  Sizes   *)
(* keep the order of the thresholds in config.go: a summary is smaller     *)
(* than DeepMax, an elided text is not, and so on.                         *)
(***************************************************************************)
EXTENDS Naturals, Sequences, SequencesExt

Retrieve == "retrieve_elided_content"
ReadFile == "read_file"
ListFiles == "list_files"
WriteFile == "write_to_file"

NoBlock == "none"
Blocks == {"paste", "json"}

Turn(role, parts) == [role |-> role, parts |-> parts]

\* says: a task, a question, a scolding or nothing but the block.
\* at: the turn where the block stands, 0 for here.
Text(says, block, env) ==
    [kind |-> "text", says |-> says, block |-> block, at |-> 0,
     env |-> env, nudged |-> FALSE, shown |-> <<>>]

\* The arguments of a call: the strings and numbers, and apart from them the
\* arrays and objects, if there are any.
Arguments == [scalars : STRING, complex : STRING]
NoComplex == "none"
Flat(scalars) == [scalars |-> scalars, complex |-> NoComplex]

\* key: the call's ID on the OpenAI surface; without IDs a history variable.
Call(name, arg, key) ==
    [kind |-> "call", name |-> name, arg |-> arg, key |-> key, shown |-> <<>>]

Response(name, call) ==
    [kind |-> "response", name |-> name, arg |-> call.arg, key |-> call.key,
     shown |-> <<>>]

\* "omitted by client", synthesized by the alignment.
Dummy(call) == [kind |-> "dummy", name |-> call.name, key |-> call.key]

\* "(superseded <name> call pruned)" or "... output pruned)".
Pruned(of, name) == [kind |-> "pruned", of |-> of, name |-> name]

\* "identical content already shown in turn <to>"; text is what it stands for.
Pointer(to, text) == [kind |-> "pointer", to |-> to, text |-> text]

-------------------------------------------------------------------------------
IsUser(turn) == turn.role = "user"
IsModel(turn) == turn.role = "model"
\* Positions <<turn, part>> in the order of the conversation.
Before(a, b) == a[1] < b[1] \/ (a[1] = b[1] /\ a[2] < b[2])

OfKind(turn, kind) == {j \in DOMAIN turn.parts : turn.parts[j].kind = kind}

\* <<Op(1), ..., Op(n)>>, which TLC evaluates once and not at every use.
Tabulate(n, Op(_)) == SubSeq([i \in 1..n |-> Op(i)], 1, n)

\* The n-th of a set of places, and the elements of a sequence there, in order.
NthPlace(places, n) == CHOOSE k \in places : Cardinality({h \in places : h <= k}) = n

ElementsAt(seq, places) ==
    Tabulate(Cardinality(places), LAMBDA n : seq[NthPlace(places, n)])

\* The parts of the turns the test selects, changed.
MapParts(contents, Change(_, _), Touched(_)) ==
    LET Parts(i) == Tabulate(Len(contents[i].parts), LAMBDA j : Change(i, j))
        Changed(i) == IF Touched(i) THEN Turn(contents[i].role, Parts(i)) ELSE contents[i]
    IN Tabulate(Len(contents), Changed)

-------------------------------------------------------------------------------
(* Sizes. *)

BlockSize(block) == CASE block = "paste" -> 3 [] block = "json" -> 10 [] OTHER -> 0
ElidedSize == 4
StubSize == 1

\* The size a part has in its latest form, given its original size.
ShownSize(part, original) ==
    IF part.shown = <<>> THEN original
    ELSE IF Last(part.shown) \in {"elided", "crushed"} THEN ElidedSize
    ELSE StubSize

TextSize(text) ==
    ShownSize(text, 1 + (IF text.at = 0 THEN BlockSize(text.block) ELSE 0)
                      + (IF text.env = "snapshot" THEN 2 ELSE 0))

\* The bytes of a tool's output: "a" is a large file, "b" a large JSON array.
OutputSize(response) ==
    ShownSize(response, IF response.arg.scalars \in {"a", "b"} THEN 10 ELSE 1)

IsJSON(part) ==
    \/ part.kind = "response" /\ part.arg.scalars = "b"
    \/ part.kind = "text" /\ part.block = "json"

\* contentBytes: calls and responses count 64 bytes, whatever they carry.
PartBytes(part) ==
    CASE part.kind = "text" -> TextSize(part)
      [] OTHER -> StubSize

ContentBytes(turn) == SumFunction([j \in DOMAIN turn.parts |-> PartBytes(turn.parts[j])])

-------------------------------------------------------------------------------
(* Placeholders. *)

\* The forms whose marker reads "Retrieve full content: hash=".  That of a
\* crushed JSON text, "original cached with hash=", does not.
Announced == {"elided", "masked", "summary", "deep"}

IsElided(part) == part.kind \in {"text", "call", "response"} /\ part.shown # <<>>

HasMarker(part) == IsElided(part) /\ Last(part.shown) \in Announced

\* The same scan is made for the retrieval tool and for the hint.
HasElided(contents) ==
    \E i \in DOMAIN contents : \E j \in DOMAIN contents[i].parts :
        HasMarker(contents[i].parts[j])

HasRetrievalToolCall(contents) ==
    \E i \in DOMAIN contents : \E j \in DOMAIN contents[i].parts :
        LET p == contents[i].parts[j]
        IN p.kind \in {"call", "response"} /\ p.name = Retrieve
===============================================================================

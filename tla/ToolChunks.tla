----------------------------- MODULE ToolChunks -----------------------------
(* How a buffered Chat Completions stream becomes the calls it carries: the    *)
(* fields of a call arrive in separate chunks, and its arguments in pieces     *)
(* that some upstreams repeat from the start.  A text is a sequence of         *)
(* letters; a piece of one is a shorter sequence.                              *)
EXTENDS Integers, Sequences, SequencesExt, FiniteSetsExt

\* indexes and places count from one; a stream is its deltas in order, each with
\* its place in its chunk, which stands for the index if it has none
NoIndex == 0
NoId == <<>>
NoTool == "no tool"

Delta(index, place, id, tool, part) ==
    [index |-> index, place |-> place, id |-> id, tool |-> tool, part |-> part]

\* how many objects are open after the first n letters
Opened(text, n) ==
    Cardinality({i \in 1 .. n : text[i] = "{"}) - Cardinality({i \in 1 .. n : text[i] = "}"})

\* json.Valid of a text: an object that is closed at its end and not before
WholeObject(text) ==
    /\ text # <<>> /\ text[1] = "{"
    /\ \A n \in 1 .. Len(text) : Opened(text, n) = 0 <=> n = Len(text)

\* Mutant: snapshots are joined like pieces
AppendToolCallArgsAlways(current, part) == current \o part

AppendToolCallArgs(current, part) ==
    IF part = <<>> THEN current
    ELSE IF \/ current = <<>>
            \/ WholeObject(current) /\ WholeObject(part)
            \/ IsPrefix(current, part) THEN part
    ELSE IF IsSuffix(part, current) THEN current
    ELSE current \o part

Position(delta) == IF delta.index = NoIndex THEN delta.place ELSE delta.index

Merged(call, delta) ==
    [call EXCEPT !.id   = IF delta.id = NoId THEN @ ELSE delta.id,
                 !.tool = IF delta.tool = NoTool THEN @ ELSE delta.tool,
                 !.text = AppendToolCallArgs(@, delta.part)]

\* one delta: its position's slot is made on first sight
Collected(state, delta) ==
    LET pos  == Position(delta)
        new  == pos \notin DOMAIN state.slots
        slot == IF new THEN Len(state.calls) + 1 ELSE state.slots[pos]
        call == IF new THEN [id |-> NoId, tool |-> NoTool, text |-> <<>>]
                       ELSE state.calls[slot]
    IN  [slots |-> [p \in DOMAIN state.slots \union {pos} |->
                       IF p = pos THEN slot ELSE state.slots[p]],
         calls |-> IF new THEN Append(state.calls, Merged(call, delta))
                          ELSE [state.calls EXCEPT ![slot] = Merged(call, delta)]]

CollectedUpTo(stream) ==
    LET state[n \in 0 .. Len(stream)] ==
            IF n = 0 THEN [slots |-> <<>>, calls |-> <<>>]
            ELSE Collected(state[n - 1], stream[n])
    IN  state

\* the calls of a stream, in the order their positions were first seen
CollectStreamToolCalls(stream) == CollectedUpTo(stream)[Len(stream)].calls

(* ------------------ the ways an upstream streams its calls ---------------- *)
\* a text cut into pieces, from its start to the n-th of them
Joined(cut, n) == FlattenSeq(SubSeq(cut, 1, n))

\* the cuts of a text into at most MaxPieces pieces
MaxPieces == 3
Cuts(text) ==
    {<<text>>}
    \union {<<SubSeq(text, 1, i), SubSeq(text, i + 1, Len(text))>> :
              i \in 1 .. Len(text) - 1}
    \union {<<SubSeq(text, 1, c[1]), SubSeq(text, c[1] + 1, c[2]),
              SubSeq(text, c[2] + 1, Len(text))>> :
              c \in {d \in (1 .. Len(text) - 1) \X (1 .. Len(text) - 1) : d[1] < d[2]}}

\* the same cut, told by an upstream that repeats the text from its start
Snapshots(cut) == [i \in DOMAIN cut |-> Joined(cut, i)]

\* no piece of the cut ends the text before it, or starts with it: the one is
\* taken for a piece that was sent already, the other for a snapshot
Distinct(cut) ==
    \A i \in 2 .. Len(cut) :
        ~IsSuffix(cut[i], Joined(cut, i - 1)) /\ ~IsPrefix(Joined(cut, i - 1), cut[i])

\* one call: its name first, then its pieces; index is where it stands
CallDeltas(call, index, pieces) ==
    <<Delta(index, 1, call.id, call.tool, <<>>)>>
    \o [i \in DOMAIN pieces |-> Delta(index, 1, NoId, NoTool, pieces[i])]

\* the orders in which calls of so many deltas may come in: each in its order,
\* mixed with the others in any way; a call starts after those before it did
Orders(sizes) ==
    {who \in UNION {[1 .. n -> DOMAIN sizes] : n \in 0 .. (MaxPieces + 1) * Len(sizes)} :
       /\ \A i \in DOMAIN sizes : Cardinality({t \in DOMAIN who : who[t] = i}) = sizes[i]
       /\ \A i, j \in DOMAIN sizes : i < j =>
             \E t \in DOMAIN who : who[t] = i /\ \A u \in DOMAIN who : who[u] = j => t < u}
=============================================================================

----------------------------- MODULE CoreEvents -----------------------------
(* The vocabulary every protocol adapter of internal/protocol speaks: the     *)
(* events of a Core stream (format.CoreStreamEvent) and the maps keyed by a   *)
(* content block's index that the adapters keep while they convert one.       *)
(* A text is the sequence of the pieces it was streamed in; a piece is        *)
(* <<n, form>>, where n is the ordinal of the upstream chunk that carried it. *)
EXTENDS Naturals, Sequences, SequencesExt, Functions

\* An event: its type, the index of the block it is about, the kind of that
\* block, its text and, for the events that end something, a stop reason.
CoreEvent(t, ix, kind, d, stop) ==
    [t |-> t, ix |-> ix, kind |-> kind, d |-> d, stop |-> stop]

Started(ix, kind) == CoreEvent("started", ix, kind, <<>>, "")
TextDelta(ix, d)  == CoreEvent("textDelta", ix, "", d, "")
ArgsDelta(ix, d)  == CoreEvent("argsDelta", ix, "", d, "")
ArgsDone(ix, d)   == CoreEvent("argsDone", ix, "", d, "")
BlockDone(ix)     == CoreEvent("blockDone", ix, "", <<>>, "")
DoneWith(ix, stop) == CoreEvent("blockDone", ix, "", <<>>, stop)
Lifecycle(t, stop) == CoreEvent(t, 0, "", <<>>, stop)

\* A block of a stream that carries tool calls: "tool" is a function tool,
\* "nested" a tool that expands a namespace whose action is an argument.
IsTool(kind) == kind \in {"tool", "nested"}

NoMap == <<>>
Has(f, k) == k \in DOMAIN f
Lookup(f, k, otherwise) == IF Has(f, k) THEN f[k] ELSE otherwise
Put(f, k, v) == [x \in DOMAIN f \union {k} |-> IF x = k THEN v ELSE f[x]]
Drop(f, k) == Restrict(f, DOMAIN f \ {k})

\* A slice of events kept only when the condition it was emitted under holds.
When(c, events) == IF c THEN events ELSE <<>>
=============================================================================

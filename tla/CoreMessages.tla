----------------------------- MODULE CoreMessages -----------------------------
(* The Core format's conversation (internal/format): messages of content      *)
(* blocks.  A text, a thought, a call's input or a result is a sequence of    *)
(* pieces, so that texts put together stay tellable apart; an id is a pair.   *)
EXTENDS Integers, Sequences, FiniteSets, SequencesExt

NoId == <<"", 0>>

Block(type, d) == [type |-> type, d |-> d, id |-> NoId, name |-> ""]
Call(id, name, d) == [type |-> "tool_use", d |-> d, id |-> id, name |-> name]
Result(id, d) == [type |-> "tool_result", d |-> d, id |-> id, name |-> ""]

Message(role, content) == [role |-> role, content |-> content]

OfType(blocks, types) == SelectSeq(blocks, LAMBDA b : b.type \in types)

\* The pieces of all blocks, in order: string concatenation.
Joined(blocks) == FlattenSeq([k \in DOMAIN blocks |-> blocks[k].d])
=============================================================================

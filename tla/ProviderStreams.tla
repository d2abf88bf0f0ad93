--------------------------- MODULE ProviderStreams ---------------------------
(* The provider adapters' stream converters, each a function of what the      *)
(* converter remembers and of one upstream chunk: the new memory and the Core *)
(* events it emits for the chunk (ToCoreStream of the chat, anthropic and     *)
(* google adapters) or for a whole answer (the two functions of               *)
(* adapter_dispatch.go that replay an answer as a stream).                    *)
(* Only the choice, or candidate, with index 0 is modelled: no request built  *)
(* in src/ asks an upstream for a second one.  Signatures, usage and ids are  *)
(* left out.                                                                  *)
EXTENDS CoreEvents, Selections

Emit(m, st, events) == [st |-> st, out |-> m.out \o events]
Quiet(st) == [st |-> st, out |-> <<>>]

-----------------------------------------------------------------------------
\* OpenAI Chat Completions.  A chunk's delta may carry the role, a piece of
\* reasoning, a piece of content, tool call deltas and the finish reason.
\* `local` is the adapter's localStreamHarness.
ChatInit == [open |-> FALSE, started |-> FALSE, block |-> 0, reasoning |-> FALSE,
             reasonIx |-> 0, next |-> 0, slots |-> NoMap, callsStarted |-> {}]

ChatLifecycle(local, m, c) ==
    IF local /\ ~m.st.open
    THEN Emit(m, [m.st EXCEPT !.open = TRUE],
              <<Lifecycle("created", ""), Lifecycle("inProgress", "")>>)
    ELSE m

\* A native provider's role chunk opens block 0 at once.
ChatRole(local, m, c) ==
    LET s == m.st  thinks == c.reason # <<>> IN
    IF ~local /\ ~s.started /\ c.role
    THEN Emit(m, [s EXCEPT !.started = TRUE,
                           !.reasoning = thinks \/ @,
                           !.reasonIx = IF thinks THEN s.block ELSE @],
              <<Started(s.block, IF thinks THEN "reasoning" ELSE "text")>>)
    ELSE m

\* The first piece of reasoning opens a reasoning block.  A local provider's
\* open text block is closed and the next index is used; a native provider's
\* block closed here is the one about to be opened.
ChatReasoningOpen(local, s) ==
    LET at == IF local /\ ~s.started THEN s.block ELSE s.block + 1 IN
    [st |-> [s EXCEPT !.block = at, !.reasonIx = at, !.reasoning = TRUE,
                      !.started = local \/ @],
     out |-> When(~local, <<BlockDone(at)>>)
             \o When(local /\ s.started, <<BlockDone(s.block)>>)
             \o <<Started(at, "reasoning")>>]

ChatReasoning(local, m, c) ==
    IF c.reason = <<>> THEN m
    ELSE LET o == IF m.st.reasoning THEN Quiet(m.st) ELSE ChatReasoningOpen(local, m.st)
         IN Emit(m, o.st, Append(o.out, TextDelta(o.st.reasonIx, c.reason)))

\* Mutant: content after reasoning stays in the reasoning block.
ChatContentInside(local, m, c) ==
    IF c.content = <<>> THEN m
    ELSE Emit(m, m.st, <<TextDelta(m.st.block, c.content)>>)

\* Content after reasoning closes the reasoning block and opens the next
\* index; a local provider's first content opens its block.
ChatContent(local, m, c) ==
    LET s == m.st
        at == IF s.reasoning THEN s.reasonIx + 1 ELSE s.block
        opens == s.reasoning \/ (local /\ ~s.started) IN
    IF c.content = <<>> THEN m
    ELSE Emit(m, [s EXCEPT !.block = at, !.reasoning = FALSE, !.started = local \/ @],
              When(s.reasoning, <<BlockDone(s.reasonIx)>>)
              \o When(opens, <<Started(at, "text")>>)
              \o <<TextDelta(at, c.content)>>)

\* Mutant: a call is known by its position in the chunk instead of its index.
ChatCallByPosition(m, call) ==
    LET s == IF m.st.slots = NoMap THEN [m.st EXCEPT !.next = m.st.block + 1] ELSE m.st
        slot == Lookup(s.slots, 0, s.next)
        names == call.name # "" /\ slot \notin s.callsStarted IN
    Emit(m, [s EXCEPT !.slots = Put(@, 0, slot), !.next = slot + 1,
                      !.callsStarted = @ \cup {slot}],
         When(names, <<Started(slot, call.name)>>)
         \o When(call.args # <<>>, <<ArgsDelta(slot, call.args)>>))

\* A tool call delta.  Its slot is the next free index after the block that was
\* open when the first call arrived; nothing is emitted before its name or id.
ChatCall(m, call) ==
    LET s == IF m.st.slots = NoMap THEN [m.st EXCEPT !.next = m.st.block + 1] ELSE m.st
        new == ~Has(s.slots, call.pos)
        slot == Lookup(s.slots, call.pos, s.next)
        names == call.name # "" /\ slot \notin s.callsStarted
        known == names \/ slot \in s.callsStarted IN
    Emit(m, [s EXCEPT !.slots = Put(@, call.pos, slot),
                      !.next = IF new THEN @ + 1 ELSE @,
                      !.callsStarted = IF names THEN @ \cup {slot} ELSE @],
         When(names, <<Started(slot, call.name)>>)
         \o When(known /\ call.args # <<>>, <<ArgsDelta(slot, call.args)>>))

\* The deltas of a chunk one after the other, from what was emitted before.
ChatCalledUpTo(m, calls) ==
    LET after[n \in 0..Len(calls)] ==
            IF n = 0 THEN m ELSE ChatCall(after[n - 1], calls[n])
    IN after

ChatCalled(m, calls) == ChatCalledUpTo(m, calls)[Len(calls)]

ChatStop(finish) ==
    CASE finish = "stop" -> "end_turn"
      [] finish = "length" -> "max_tokens"
      [] finish = "tool_calls" -> "tool_use"
      [] OTHER -> finish

\* The finish reason closes the open block and every started call after it.
ChatFinish(local, m, c) ==
    LET s == m.st
        calls == Selected([k \in 1..s.next |-> s.block + k],
                          {ix \in s.callsStarted : ix < s.next}) IN
    IF c.finish = "" THEN m
    ELSE Emit(m, IF local THEN [s EXCEPT !.started = FALSE, !.reasoning = FALSE] ELSE s,
              When(~local \/ s.started, <<DoneWith(s.block, ChatStop(c.finish))>>)
              \o FlattenSeq([k \in DOMAIN calls |->
                               <<ArgsDone(calls[k], <<>>), BlockDone(calls[k])>>]))

ChatStep(local, s, c) ==
    LET opened == ChatRole(local, ChatLifecycle(local, Quiet(s), c), c)
        said   == ChatContent(local, ChatReasoning(local, opened, c), c)
        called == ChatCalled(said, c.calls)
    IN ChatFinish(local, called, c)

\* The chunk channel was closed: always a completion, without a stop reason.
ChatEnd == <<Lifecycle("completed", "")>>

-----------------------------------------------------------------------------
\* Anthropic Messages.  types maps a content index to the type of its block,
\* suppress holds the indices at which a search status text was dropped.
AnthropicInit == [types |-> NoMap, suppress |-> {}]

AnthropicBlockStart(s, ev) ==
    [st |-> [s EXCEPT !.types = Put(@, ev.ix, ev.kind)],
     out |-> CASE ev.kind = "text" -> <<Started(ev.ix, "text")>>
               [] ev.kind = "thinking" -> <<Started(ev.ix, "reasoning")>>
               [] IsTool(ev.kind) -> <<Started(ev.ix, ev.kind), Lifecycle("itemAdded", "")>>
               [] OTHER -> <<>>]    \* server_tool_use, web_search_tool_result

\* The type of the delta and the type of the block both choose the event, in
\* this order; a text that announces search results is dropped.
AnthropicBlockDelta(s, ev) ==
    LET kind == Lookup(s.types, ev.ix, "") IN
    IF ev.delta = "text" \/ kind = "text"
    THEN IF ev.status THEN Quiet([s EXCEPT !.suppress = @ \cup {ev.ix}])
         ELSE [st |-> s, out |-> <<TextDelta(ev.ix, ev.d)>>]
    ELSE IF ev.delta = "json" \/ IsTool(kind)
    THEN [st |-> s, out |-> <<ArgsDelta(ev.ix, ev.d)>>]
    ELSE IF ev.delta = "thinking" \/ kind = "thinking"
    THEN [st |-> s, out |-> <<TextDelta(ev.ix, ev.d)>>]
    ELSE Quiet(s)

\* The end of a block in which a status was dropped is dropped with it.
AnthropicBlockStop(s, ev) ==
    IF ev.ix \in s.suppress THEN Quiet([s EXCEPT !.suppress = @ \ {ev.ix}])
    ELSE [st |-> s, out |-> <<BlockDone(ev.ix), Lifecycle("itemDone", "")>>]

AnthropicStep(s, ev) ==
    CASE ev.t = "message_start" ->
           [st |-> s, out |-> <<Lifecycle("created", ""), Lifecycle("itemAdded", "")>>]
      [] ev.t = "content_block_start" -> AnthropicBlockStart(s, ev)
      [] ev.t = "content_block_delta" -> AnthropicBlockDelta(s, ev)
      [] ev.t = "content_block_stop" -> AnthropicBlockStop(s, ev)
      [] ev.t = "message_delta" -> [st |-> s, out |-> <<Lifecycle("inProgress", ev.stop)>>]
      [] ev.t = "message_stop" -> [st |-> s, out |-> <<Lifecycle("completed", "")>>]
      [] ev.t = "error" -> [st |-> s, out |-> <<Lifecycle("failed", "")>>]
      [] OTHER -> [st |-> s, out |-> <<Lifecycle("ping", "")>>]

\* stream.Next failed: io.EOF ends the stream silently, another error fails it.
AnthropicEnd(eof) == When(~eof, <<Lifecycle("failed", "")>>)

-----------------------------------------------------------------------------
\* Google GenAI.  A chunk is a snapshot of the candidate's text; function calls
\* in its parts are not looked at.
GoogleInit == [started |-> FALSE, prev |-> <<>>]

ComputeDelta(prev, current) ==
    IF Len(current) <= Len(prev) THEN current
    ELSE SubSeq(current, Len(prev) + 1, Len(current))

GoogleStop(finish) ==
    CASE finish = "STOP" -> "end_turn"
      [] finish = "MAX_TOKENS" -> "max_tokens"
      [] finish \in {"SAFETY", "RECITATION"} -> "content_filter"
      [] finish = "OTHER" -> "error"
      [] finish = "FINISH_REASON_UNSPECIFIED" -> ""
      [] OTHER -> finish

GoogleStep(s, c) ==
    LET delta == ComputeDelta(s.prev, c.text) IN
    [st |-> [started |-> TRUE, prev |-> c.text],
     out |-> When(~s.started, <<Started(0, "text")>>)
             \o When(delta # <<>>, <<TextDelta(0, delta)>>)
             \o When(c.finish # "", <<DoneWith(0, GoogleStop(c.finish))>>)]

GoogleEnd == <<Lifecycle("completed", "")>>

-----------------------------------------------------------------------------
\* A whole answer replayed as a stream.  Its blocks are [kind, d] records; a
\* block of another kind without text is skipped but keeps its index.
ReplayBlock(ix, b) ==
    CASE b.kind = "reasoning" ->
           <<Started(ix, "reasoning")>> \o When(b.d # <<>>, <<TextDelta(ix, b.d)>>)
           \o <<BlockDone(ix)>>
      [] IsTool(b.kind) ->
           <<Started(ix, b.kind), ArgsDone(ix, b.d), BlockDone(ix)>>
      [] b.kind = "image" -> <<>>
      [] OTHER ->
           <<Started(ix, "text")>> \o When(b.d # <<>>, <<TextDelta(ix, b.d)>>)
           \o <<BlockDone(ix)>>

ReplayEnd(status, stop) ==
    CASE status = "failed" -> Lifecycle("failed", "")
      [] status = "incomplete" -> Lifecycle("incomplete", stop)
      [] OTHER -> Lifecycle("completed", stop)

\* coreResponseToCoreStream: the answer of a visual bridge or of an injected
\* web search.
ReplayAnswer(blocks, status, stop) ==
    <<Lifecycle("created", ""), Lifecycle("inProgress", "")>>
    \o FlattenSeq([k \in DOMAIN blocks |-> ReplayBlock(k - 1, blocks[k])])
    \o <<ReplayEnd(status, stop)>>

=============================================================================

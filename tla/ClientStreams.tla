---------------------------- MODULE ClientStreams ----------------------------
(* The client adapters' stream converters, each a function of what the        *)
(* converter remembers and of one Core event: the OpenAI Responses adapter's  *)
(* streamLoopWithBuf and the Chat Completions adapter's streamLoop.  What is  *)
(* sent to the client is the sequence `frames`.  Ids, sequence numbers, usage *)
(* and the plugins' hooks are left out.                                       *)
EXTENDS CoreEvents

\* A frame: its event, the output index (or tool index) it addresses and its
\* text, or for a lifecycle frame the output items as they then are.
Frame(f, oi, d) == [f |-> f, oi |-> oi, d |-> d]

Send(r, sent) == [r EXCEPT !.frames = @ \o sent]

-----------------------------------------------------------------------------
\* OpenAI Responses.  output is the response's list of items; the maps are
\* keyed by block index, outIx holding positions in output, from 0.
ResponsesInit ==
    [output |-> <<>>, status |-> "in_progress", contentText |-> NoMap,
     toolArgs |-> NoMap, outIx |-> NoMap, reason |-> {}, final |-> {},
     nested |-> NoMap, frames |-> <<>>, panicked |-> FALSE]

Item(type, d) == [type |-> type, d |-> d, status |-> "in_progress"]

\* The item a block index stands for.  An index the map does not know is the
\* map's zero value: the first item, if there is one.
ItemAt(r, ix) == Lookup(r.outIx, ix, 0)
IsItem(r, ix) == ItemAt(r, ix) < Len(r.output)

AddItem(r, ix, item) ==
    [r EXCEPT !.output = Append(@, item), !.outIx = Put(@, ix, Len(r.output))]
SetItem(r, ix, d) ==
    IF Has(r.outIx, ix) /\ IsItem(r, ix)
    THEN [r EXCEPT !.output[ItemAt(r, ix) + 1].d = d,
                   !.output[ItemAt(r, ix) + 1].status = "completed"]
    ELSE r

\* The frame that carries response.Output[outputIndexes[index]]: reading past
\* the end of the list is a panic of the converter's goroutine.
ItemDone(r, ix) ==
    IF IsItem(r, ix) THEN Send(r, <<Frame("output_item.done", ItemAt(r, ix), <<>>)>>)
    ELSE [r EXCEPT !.panicked = TRUE]

Announce(r, ix) == Send(r, <<Frame("output_item.added", ItemAt(r, ix), <<>>)>>)

\* core.content_block.started, by kind of block.
StartText(r, ix) == [r EXCEPT !.contentText = Put(@, ix, <<>>)]

StartReasoning(r, ix) ==
    LET q == AddItem(r, ix, Item("reasoning", <<>>)) IN
    Send(Announce([q EXCEPT !.contentText = Put(@, ix, <<>>), !.reason = @ \cup {ix}], ix),
         <<Frame("reasoning_summary_part.added", ItemAt(q, ix), <<>>)>>)

\* Mutant: a tool's item is announced without being added to the response.
StartToolUnlisted(r, ix, kind) ==
    IF kind = "nested"
    THEN [r EXCEPT !.nested = Put(@, ix, [emitted |-> FALSE, buf |-> <<>>])]
    ELSE Announce(r, ix)

\* A nested tool is announced only when its action is known.
StartTool(r, ix, kind) ==
    IF kind = "nested"
    THEN [r EXCEPT !.nested = Put(@, ix, [emitted |-> FALSE, buf |-> <<>>])]
    ELSE Announce(AddItem(r, ix, Item("function_call", <<>>)), ix)

BlockStarted(r, ev) ==
    CASE ev.kind = "text" -> StartText(r, ev.ix)
      [] ev.kind = "reasoning" -> StartReasoning(r, ev.ix)
      [] OTHER -> StartTool(r, ev.ix, ev.kind)

\* core.text.delta: a reasoning block's goes to its summary; a text block's
\* announces its item first.
OpenMessage(r, ix) ==
    IF Has(r.outIx, ix) THEN r
    ELSE LET q == AddItem(r, ix, Item("message", <<>>)) IN
         Send(Announce(q, ix), <<Frame("content_part.added", ItemAt(q, ix), <<>>)>>)

TextDeltaIn(r, ev) ==
    LET q == [r EXCEPT !.contentText = Put(@, ev.ix, Lookup(@, ev.ix, <<>>) \o ev.d)]
        o == IF ev.ix \in r.reason THEN q ELSE OpenMessage(q, ev.ix)
        f == IF ev.ix \in r.reason THEN "reasoning_summary_text.delta" ELSE "output_text.delta"
    IN Send(o, <<Frame(f, ItemAt(o, ev.ix), ev.d)>>)

-----------------------------------------------------------------------------
\* Nested tool calls.  A piece of form "act" carries the action and is cut off
\* before the JSON text ends, one of form "whole" is a complete JSON text with
\* the action: only that one is parsed and loses its action.
HasAction(buf) == \E k \in DOMAIN buf : buf[k][2] \in {"act", "whole"}
StripAction(buf) ==
    IF Len(buf) = 1 /\ buf[1][2] = "whole" THEN <<<<buf[1][1], "params">>>> ELSE buf

NestedDelta(r, ev) ==
    LET n == r.nested[ev.ix]
        buf == n.buf \o ev.d
        q == [r EXCEPT !.nested = Put(@, ev.ix, [n EXCEPT !.buf = buf])]
        added == AddItem([q EXCEPT !.nested[ev.ix].emitted = TRUE], ev.ix,
                         Item("function_call", <<>>))
        args(o, d) == Send(o, <<Frame("function_call_arguments.delta", ItemAt(o, ev.ix), d)>>)
    IN CASE n.emitted -> args(q, StripAction(ev.d))
         [] ~n.emitted /\ HasAction(buf) -> args(Announce(added, ev.ix), StripAction(buf))
         [] OTHER -> q

ArgsDeltaIn(r, ev) ==
    LET q == [r EXCEPT !.toolArgs = Put(@, ev.ix, Lookup(@, ev.ix, <<>>) \o ev.d)] IN
    IF Has(r.nested, ev.ix) THEN NestedDelta(q, ev)
    ELSE Send(q, <<Frame("function_call_arguments.delta", ItemAt(q, ev.ix), ev.d)>>)

\* The end of a call: its arguments and its item are reported done.
CallDone(r, ix, d) ==
    ItemDone(Send(r, <<Frame("function_call_arguments.done", ItemAt(r, ix), d)>>), ix)

\* core.tool_call_args.done.  A nested call whose action never came is
\* announced under the tool's own name and closed in one go.
FlushNested(r, ev) ==
    LET n == r.nested[ev.ix]
        d == IF n.buf = <<>> THEN ev.d ELSE n.buf
        q == SetItem(AddItem(r, ev.ix, Item("function_call", <<>>)), ev.ix, d)
    IN [CallDone(Announce(q, ev.ix), ev.ix, d) EXCEPT !.nested = Drop(@, ev.ix)]

ArgsDoneIn(r, ev) ==
    LET d == IF ev.d = <<>> THEN Lookup(r.toolArgs, ev.ix, <<>>) ELSE ev.d
        q == [SetItem(r, ev.ix, d) EXCEPT !.final = @ \cup {ev.ix}, !.nested = Drop(@, ev.ix)]
    IN CASE ev.ix \in r.final -> r
         [] ev.ix \notin r.final /\ Has(r.nested, ev.ix) /\ ~r.nested[ev.ix].emitted ->
              FlushNested(r, ev)
         [] OTHER -> CallDone(q, ev.ix, d)

-----------------------------------------------------------------------------
\* core.content_block.done, by what the index is known as.
ReasoningDone(local, r, ix) ==
    LET oi == ItemAt(r, ix)
        d == Lookup(r.contentText, ix, <<>>)
        q == Send(SetItem(r, ix, d),
                  When(local, <<Frame("reasoning_summary_text.done", oi, d)>>)
                  \o <<Frame("reasoning_summary_part.done", oi, <<>>)>>
                  \o When(local /\ oi < Len(r.output), <<Frame("output_item.done", oi, <<>>)>>))
    IN [q EXCEPT !.contentText = Drop(@, ix), !.outIx = Drop(@, ix), !.reason = @ \ {ix}]

\* The text of a block that had no delta: its item is added but not announced.
EnsureMessage(r, ix) ==
    IF Has(r.outIx, ix) THEN r ELSE AddItem(r, ix, Item("message", <<>>))

\* Mutant: the item is completed without its text.
StoreTextBare(r, ix, d) == [r EXCEPT !.output[ItemAt(r, ix) + 1].status = "completed"]

\* Only a message item has the content part the text is stored in.
StoreText(r, ix, d) ==
    LET k == ItemAt(r, ix) + 1
        text == IF r.output[k].type = "message" THEN d ELSE r.output[k].d
    IN [r EXCEPT !.output[k].d = text, !.output[k].status = "completed"]

TextBlockDone(r, ix) ==
    LET d == r.contentText[ix]
        q == StoreText(EnsureMessage(r, ix), ix, d)
        oi == ItemAt(q, ix)
    IN ItemDone(Send([q EXCEPT !.contentText = Drop(@, ix)],
                     <<Frame("output_text.done", oi, d), Frame("content_part.done", oi, <<>>)>>), ix)

ToolBlockDone(r, ix) ==
    LET d == Lookup(r.toolArgs, ix, <<>>)
        q == SetItem(r, ix, IF d = <<>> THEN r.output[ItemAt(r, ix) + 1].d ELSE d)
    IN [CallDone(q, ix, d) EXCEPT !.final = @ \cup {ix}, !.toolArgs = Drop(@, ix)]

\* Mutant: the end of a block does not ask whether its call was finalized.
BlockDoneInTwice(local, r, ix) ==
    CASE ix \in r.reason -> ReasoningDone(local, r, ix)
      [] ix \notin r.reason /\ Has(r.contentText, ix) -> TextBlockDone(r, ix)
      [] ix \notin r.reason /\ ~Has(r.contentText, ix) /\ Has(r.outIx, ix) -> ToolBlockDone(r, ix)
      [] OTHER -> r

BlockDoneIn(local, r, ix) ==
    CASE ix \in r.reason -> ReasoningDone(local, r, ix)
      [] ix \notin r.reason /\ Has(r.contentText, ix) -> TextBlockDone(r, ix)
      [] ix \notin r.reason /\ ~Has(r.contentText, ix) /\ Has(r.outIx, ix)
         /\ ix \notin r.final -> ToolBlockDone(r, ix)
      [] OTHER -> r

\* core.created, core.in_progress, core.completed, core.incomplete, core.failed.
LifecycleFrame(t) ==
    CASE t = "created" -> "response.created"
      [] t = "completed" -> "response.completed"
      [] t = "incomplete" -> "response.incomplete"
      [] t = "failed" -> "response.failed"
      [] OTHER -> "response.in_progress"

LifecycleIn(r, ev) ==
    LET status == CASE ev.t = "completed" -> "completed"
                    [] ev.t = "incomplete" -> "incomplete"
                    [] ev.t = "failed" -> "failed"
                    [] OTHER -> "in_progress"
    IN Send([r EXCEPT !.status = status], <<Frame(LifecycleFrame(ev.t), 0, r.output)>>)

\* The loop's switch.  No adapter emits core.text.done, the item and ping events
\* have no frame, and a converter that panicked handles nothing more.
ResponsesStep(local, r, ev) ==
    IF r.panicked THEN r
    ELSE CASE ev.t = "started" -> BlockStarted(r, ev)
           [] ev.t = "textDelta" -> TextDeltaIn(r, ev)
           [] ev.t = "argsDelta" -> ArgsDeltaIn(r, ev)
           [] ev.t = "argsDone" -> ArgsDoneIn(r, ev)
           [] ev.t = "blockDone" -> BlockDoneIn(local, r, ev.ix)
           [] ev.t \in {"itemAdded", "itemDone", "ping"} -> r
           [] OTHER -> LifecycleIn(r, ev)

-----------------------------------------------------------------------------
\* OpenAI Chat Completions.  blocks maps a block index to what the client was
\* told about it: its kind and, for a tool call, its index.
ChatClientInit ==
    [roleSent |-> FALSE, blocks |-> NoMap, nextTool |-> 0, finish |-> "", frames |-> <<>>]

OpenRole(r) ==
    IF r.roleSent THEN r ELSE Send([r EXCEPT !.roleSent = TRUE], <<Frame("role", 0, <<>>)>>)

KnowTool(r, ix) ==
    [r EXCEPT !.blocks = Put(@, ix, [kind |-> "tool_use", tool |-> r.nextTool]),
              !.nextTool = @ + 1]

ChatBlockStarted(r, ev) ==
    IF IsTool(ev.kind)
    THEN Send(KnowTool(r, ev.ix), <<Frame("tool_call", r.nextTool, <<>>)>>)
    ELSE [r EXCEPT !.blocks = Put(@, ev.ix, [kind |-> ev.kind, tool |-> 0])]

ChatTextDelta(r, ev) ==
    LET thinks == Has(r.blocks, ev.ix) /\ r.blocks[ev.ix].kind = "reasoning" IN
    Send(r, <<Frame(IF thinks THEN "reasoning_content" ELSE "content", 0, ev.d)>>)

\* Arguments of a block the client was not told of open a tool call of their own.
ChatArgsDelta(r, ev) ==
    LET q == IF Has(r.blocks, ev.ix) THEN r ELSE KnowTool(r, ev.ix) IN
    Send(q, <<Frame("tool_args", q.blocks[ev.ix].tool, ev.d)>>)

FinishReason(stop, hasTools) ==
    CASE stop \in {"tool_use", "tool_calls"} -> "tool_calls"
      [] stop \in {"max_tokens", "length"} -> "length"
      [] stop \in {"end_turn", "stop_sequence", "stop", ""} ->
           IF hasTools THEN "tool_calls" ELSE "stop"
      [] OTHER -> stop

ChatTerminal(r, ev) ==
    CASE ev.t = "failed" -> Send([r EXCEPT !.finish = "stop"], <<Frame("error", 0, <<>>)>>)
      [] ev.t = "incomplete" /\ ev.stop = "" -> [r EXCEPT !.finish = "length"]
      [] OTHER -> [r EXCEPT !.finish = FinishReason(ev.stop, r.nextTool > 0)]

ChatClientStep(r, ev) ==
    CASE ev.t = "created" -> OpenRole(r)
      [] ev.t = "started" -> ChatBlockStarted(OpenRole(r), ev)
      [] ev.t = "textDelta" -> ChatTextDelta(OpenRole(r), ev)
      [] ev.t = "argsDelta" -> ChatArgsDelta(OpenRole(r), ev)
      [] ev.t \in {"completed", "incomplete", "failed"} -> ChatTerminal(OpenRole(r), ev)
      [] OTHER -> r

\* The event channel was closed: the finish reason, then the sentinel.
ChatClientEnd(r) ==
    LET q == OpenRole(r)
        finish == IF q.finish = "" THEN FinishReason("", q.nextTool > 0) ELSE q.finish
    IN Send([q EXCEPT !.finish = finish], <<Frame("finish", 0, <<>>), Frame("[DONE]", 0, <<>>)>>)
=============================================================================

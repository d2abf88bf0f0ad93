---------------------------- MODULE ClientMessages ----------------------------
(* The two client protocols, between what a client sends or is sent and the   *)
(* Core format: the OpenAI Responses adapter's convertInput and               *)
(* FromCoreResponse, and those of the Chat Completions adapter.  A client's   *)
(* history is a sequence of items; Responses sends a call, a result and a     *)
(* thought as items of their own, Chat as parts of a message.                 *)
EXTENDS CoreMessages

-----------------------------------------------------------------------------
\* Responses.  pend is the Go slice of thoughts waiting for a message: its
\* elements, the capacity of its array and the messages whose content is a
\* slice of the same array.  calls is the batch of consecutive calls.
\* An item's content and a thought's summary, parsed: an empty part is none.
ContentBlocks(parts) == SelectSeq(parts, LAMBDA b : b.d # <<>>)
SummaryBlocks(parts) == SelectSeq(parts, LAMBDA b : b.d # <<>>)

Item(type, role, content) == [type |-> type, role |-> role, content |-> content]

InputStart ==
    [msgs |-> <<>>, system |-> <<>>, calls |-> <<>>,
     pend |-> [b |-> <<>>, cap |-> 0, owners |-> {}]]

\* Go's append: an array that is too small is replaced by one twice its size.
Grown(cap, need) == IF need > 2 * cap THEN need ELSE 2 * cap

\* What is written past the slice's length is written in every message that
\* shares its array.
Overwritten(content, from, blocks) ==
    [k \in DOMAIN content |->
       IF k \in (from + 1)..(from + Len(blocks)) THEN blocks[k - from] ELSE content[k]]

WriteThrough(s, blocks) ==
    [m \in DOMAIN s.msgs |->
       IF m \in s.pend.owners
       THEN [s.msgs[m] EXCEPT !.content = Overwritten(@, Len(s.pend.b), blocks)]
       ELSE s.msgs[m]]

Fits(s, blocks) == Len(s.pend.b) + Len(blocks) <= s.pend.cap

AppendPending(s, blocks) ==
    IF Fits(s, blocks)
    THEN [s EXCEPT !.msgs = WriteThrough(s, blocks), !.pend.b = @ \o blocks]
    ELSE [s EXCEPT !.pend = [b |-> @.b \o blocks, owners |-> {},
                             cap |-> Grown(@.cap, Len(@.b) + Len(blocks))]]

Flush(s, field, role) ==
    IF field = <<>> THEN s ELSE [s EXCEPT !.msgs = Append(@, Message(role, field))]
FlushCalls(s) == [Flush(s, s.calls, "assistant") EXCEPT !.calls = <<>>]
FlushPending(s) == [Flush(s, s.pend.b, "assistant") EXCEPT !.pend.b = <<>>]

\* The thoughts go before the first block that is not one.
MergeReasoning(blocks, thoughts) ==
    LET at == SelectInSeq(blocks, LAMBDA b : b.type # "reasoning")
        k == IF at = 0 THEN Len(blocks) ELSE at - 1
    IN SubSeq(blocks, 1, k) \o thoughts \o SubSeq(blocks, k + 1, Len(blocks))

InputOutput(s, it) ==
    LET q == IF s.calls # <<>> /\ s.pend.b # <<>>
             THEN [s EXCEPT !.calls = MergeReasoning(@, s.pend.b), !.pend.b = <<>>] ELSE s
        f == FlushPending(FlushCalls(q))
    IN [f EXCEPT !.msgs = Append(@, Message("tool", it.content))]

InputReasoning(s, it) ==
    LET thoughts == SummaryBlocks(it.content) IN
    IF s.calls # <<>> THEN [s EXCEPT !.calls = MergeReasoning(@, thoughts)]
    ELSE AppendPending(s, thoughts)

\* A reasoning model's function call is never without a thought before it.
InputCall(reasons, s, it) ==
    LET empty == reasons /\ it.type = "function_call" /\ s.pend.b = <<>>
        q == IF empty THEN AppendPending(s, <<Block("reasoning", <<>>)>>) ELSE s
    IN [q EXCEPT !.calls = @ \o q.pend.b \o it.content, !.pend.b = <<>>]

\* append(pendingReasoning, blocks...): when that fits the array, the message
\* keeps sharing it with the thoughts that come later.
InputAssistant(s, it) ==
    LET content == s.pend.b \o it.content
        shared == s.pend.b # <<>> /\ Fits(s, it.content)
        n == Len(s.msgs) + 1
        q == [s EXCEPT !.msgs = IF shared THEN WriteThrough(s, it.content) ELSE @,
                       !.pend.owners = IF shared /\ content # <<>> THEN @ \cup {n} ELSE @,
                       !.pend.b = <<>>]
    IN Flush(q, content, "assistant")

\* Mutant: the thoughts before an assistant's message are dropped with it.
InputMessageBare(s, it) ==
    CASE it.role \in {"system", "developer"} -> [s EXCEPT !.system = @ \o it.content]
      [] it.role = "assistant" -> Flush([s EXCEPT !.pend.b = <<>>], it.content, "assistant")
      [] OTHER -> Flush(s, it.content, "user")

InputMessage(s, it) ==
    CASE it.role \in {"system", "developer"} -> [s EXCEPT !.system = @ \o it.content]
      [] it.role = "assistant" -> InputAssistant(s, it)
      [] OTHER -> Flush(s, it.content, "user")

CallTypes == {"function_call", "custom_tool_call", "local_shell_call"}

InputItem(reasons, s, it) ==
    CASE it.type = "function_call_output" -> InputOutput(s, it)
      [] it.type = "reasoning" -> InputReasoning(s, it)
      [] it.type \in CallTypes -> InputCall(reasons, s, it)
      [] OTHER -> InputMessage(FlushCalls(s), [it EXCEPT !.content = ContentBlocks(@)])

\* The whole input, with the thoughts and calls nothing follows.
ResponsesToCore(reasons, items) ==
    LET s == FoldLeft(LAMBDA q, it : InputItem(reasons, q, it), InputStart, items)
        f == FlushCalls(FlushPending(s))
    IN [system |-> f.system, messages |-> f.msgs]

\* A Core answer as output items: consecutive texts are one message, which a
\* call ends but a thought does not.
AnswerItem(type, block) == Item(type, "", <<block>>)
\* An image is answered as the text "[Image]".
AnswerText(block) == IF block.type = "image" THEN Block("text", <<-2>>) ELSE block

EndMessage(s) ==
    IF s.parts = <<>> THEN s
    ELSE [out |-> Append(s.out, Item("message", "assistant", s.parts)), parts |-> <<>>]

AnswerBlock(s, b) ==
    CASE b.type \in {"text", "image"} -> [s EXCEPT !.parts = Append(@, AnswerText(b))]
      [] b.type = "reasoning" -> [s EXCEPT !.out = Append(@, AnswerItem("reasoning", b))]
      [] b.type = "tool_use" ->
           LET q == EndMessage(s) IN [q EXCEPT !.out = Append(@, AnswerItem("function_call", b))]
      [] OTHER -> s

ResponsesFromCore(blocks) ==
    EndMessage(FoldLeft(AnswerBlock, [out |-> <<>>, parts |-> <<>>], blocks)).out

-----------------------------------------------------------------------------
\* Chat Completions.  A message's content is its blocks; thoughts, text and
\* calls are fields of an assistant's.
ChatItem(role, content, reasoning, calls) ==
    [role |-> role, content |-> content, reasoning |-> reasoning, calls |-> calls]

\* A message's content, parsed: an empty text or part is none.
ChatContentBlocks(parts) == SelectSeq(parts, LAMBDA b : b.d # <<>>)

ChatInput(s, it) ==
    LET content == ChatContentBlocks(it.content)
        thought == IF it.reasoning = <<>> THEN <<>> ELSE <<Block("reasoning", it.reasoning)>>
    IN CASE it.role \in {"system", "developer"} -> [s EXCEPT !.system = @ \o content]
         [] it.role = "tool" -> Flush(s, content, "tool")
         [] it.role = "assistant" -> Flush(s, thought \o content \o it.calls, "assistant")
         [] OTHER -> Flush(s, content, "user")

ChatToCore(items) ==
    LET s == FoldLeft(ChatInput, InputStart, items) IN [system |-> s.system, messages |-> s.msgs]

ChatFromCore(blocks) ==
    LET texts == Joined([k \in DOMAIN OfType(blocks, {"text", "image"}) |->
                           AnswerText(OfType(blocks, {"text", "image"})[k])])
    IN ChatItem("assistant", IF texts = <<>> THEN <<>> ELSE <<Block("text", texts)>>,
                Joined(OfType(blocks, {"reasoning"})), OfType(blocks, {"tool_use"}))
=============================================================================

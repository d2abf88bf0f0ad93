--------------------------- MODULE ProviderMessages ---------------------------
(* The provider protocols, between the Core format and what an upstream is    *)
(* sent or answers: FromCoreRequest and ToCoreResponse of the Anthropic, the  *)
(* Chat Completions and the Google adapter.                                   *)
EXTENDS CoreMessages

\* The pieces the adapters write themselves: "_", a null content.
Placeholder == <<0>>

-----------------------------------------------------------------------------
\* Anthropic: tool results are a user's, and those of one turn one message.
AnthropicRole(role) == IF role = "tool" THEN "user" ELSE role
AnthropicBlock(b) == IF b.type = "reasoning" THEN [b EXCEPT !.type = "thinking"] ELSE b
OnlyResults(blocks) == blocks # <<>> /\ \A k \in DOMAIN blocks : blocks[k].type = "tool_result"

\* Mutant: every tool result is a message of its own.
AnthropicMessageEach(out, msg) ==
    IF msg.content = <<>> THEN out
    ELSE Append(out, Message(AnthropicRole(msg.role),
                             [k \in DOMAIN msg.content |-> AnthropicBlock(msg.content[k])]))

AnthropicMessage(out, msg) ==
    LET content == [k \in DOMAIN msg.content |-> AnthropicBlock(msg.content[k])]
        role == AnthropicRole(msg.role)
        n == Len(out)
    IN IF content = <<>> THEN out
       ELSE IF /\ n > 0 /\ role = "user" /\ out[n].role = "user"
               /\ OnlyResults(content) /\ OnlyResults(out[n].content)
            THEN [out EXCEPT ![n].content = @ \o content]
            ELSE Append(out, Message(role, content))

UserFirst(out) ==
    IF out # <<>> /\ out[1].role # "user"
    THEN <<Message("user", <<Block("text", Placeholder)>>)>> \o out ELSE out

ToAnthropic(core) ==
    [system |-> core.system,
     messages |-> UserFirst(FoldLeft(AnthropicMessage, <<>>, core.messages))]

\* A block of a type the bridge does not know becomes an empty text.
FromAnthropic(blocks) ==
    [k \in DOMAIN blocks |->
       CASE blocks[k].type = "thinking" -> [blocks[k] EXCEPT !.type = "reasoning"]
         [] blocks[k].type \in {"text", "tool_use"} -> blocks[k]
         [] OTHER -> Block("text", <<>>)]

\* Mutant: an answer cut short counts as a whole one.
AnthropicStatusWhole(stop) ==
    CASE stop = "content_filtered" -> "failed" [] stop = "" -> "in_progress" [] OTHER -> "completed"

AnthropicStatus(stop) ==
    CASE stop \in {"end_turn", "stop_sequence", "tool_use"} -> "completed"
      [] stop = "max_tokens" -> "incomplete"
      [] stop = "content_filtered" -> "failed"
      [] stop = "" -> "in_progress"
      [] OTHER -> "completed"

-----------------------------------------------------------------------------
\* Chat Completions.  A message with neither content nor calls is left out; its
\* thought is the last of its thoughts; a tool's message has one result.
ChatNothing == <<-1>>

ToChatMessage(msg) ==
    LET said == OfType(msg.content, {"text", "image", "tool_result"})
        calls == OfType(msg.content, {"tool_use"})
        thoughts == SelectSeq(msg.content, LAMBDA b : b.type = "reasoning" /\ b.d # <<>>)
        results == OfType(msg.content, {"tool_result"})
        isTool == msg.role = "tool" /\ calls = <<>> /\ results # <<>>
    IN [role |-> msg.role, calls |-> calls,
        reasoning |-> IF thoughts = <<>> THEN <<>> ELSE thoughts[Len(thoughts)].d,
        id |-> IF isTool THEN results[1].id ELSE NoId,
        content |-> IF isTool THEN results[1].d
                    ELSE IF said = <<>> \/ (calls # <<>> /\ Joined(said) = <<>>) THEN ChatNothing
                    ELSE Joined(said)]

\* Mutant: an assistant that only calls tools is taken for an empty message.
ChatSendsContent(m) == m.content # ChatNothing

ChatSends(m) == m.content # ChatNothing \/ m.calls # <<>>

ToChat(core) ==
    LET system == Joined(core.system)
        head == [role |-> "system", calls |-> <<>>, reasoning |-> <<>>, id |-> NoId, content |-> system]
    IN (IF system = <<>> THEN <<>> ELSE <<head>>)
       \o SelectSeq([k \in DOMAIN core.messages |-> ToChatMessage(core.messages[k])], ChatSends)

FromChat(choice) ==
    (IF choice.reasoning = <<>> THEN <<>> ELSE <<Block("reasoning", choice.reasoning)>>)
    \o choice.content \o choice.calls

ChatStopReason(finish) ==
    CASE finish = "stop" -> "end_turn" [] finish = "length" -> "max_tokens"
      [] finish = "tool_calls" -> "tool_use" [] OTHER -> finish
ChatStatus(finish) ==
    CASE finish = "length" -> "incomplete" [] finish = "content_filter" -> "failed"
      [] OTHER -> "completed"

-----------------------------------------------------------------------------
\* Google: roles alternate, a thought is text, and a result names its call's
\* function, which the calls seen before tell.
GoogleRole(role) == IF role = "assistant" THEN "model" ELSE "user"

GooglePart(names, b) ==
    CASE b.type = "tool_use" -> <<Call(NoId, b.name, b.d)>>
      [] b.type = "tool_result" ->
           LET known == {c \in DOMAIN names : names[c].id = b.id} IN
           <<[Result(NoId, b.d) EXCEPT !.name =
                IF known = {} THEN b.id[1] ELSE names[CHOOSE c \in known : \A e \in known : e <= c].name]>>
      [] b.type = "reasoning" -> IF b.d = <<>> THEN <<>> ELSE <<Block("text", b.d)>>
      [] OTHER -> <<b>>

GoogleMessage(s, msg) ==
    LET names == s.names \o OfType(msg.content, {"tool_use"})
        parts == FlattenSeq([k \in DOMAIN msg.content |-> GooglePart(names, msg.content[k])])
        role == GoogleRole(msg.role)
        n == Len(s.out)
    IN [names |-> names,
        out |-> IF parts = <<>> THEN s.out
                ELSE IF n > 0 /\ s.out[n].role = role
                     THEN [s.out EXCEPT ![n].content = @ \o parts]
                     ELSE Append(s.out, Message(role, parts))]

ToGoogle(core) ==
    LET out == FoldLeft(GoogleMessage, [names |-> <<>>, out |-> <<>>], core.messages).out
        start == IF out # <<>> /\ out[1].role = "model"
                 THEN <<Message("user", <<Block("text", Placeholder)>>)>> ELSE <<>>
    IN [system |-> core.system, messages |-> start \o out]

\* A function call has no id of its own: it gets its name and its number.
FromGoogle(parts) ==
    [k \in DOMAIN parts |->
       IF parts[k].type # "tool_use" THEN parts[k]
       ELSE [parts[k] EXCEPT !.id = <<parts[k].name,
               Cardinality({j \in 1..k : /\ parts[j].type = "tool_use"
                                         /\ parts[j].name = parts[k].name})>>]]

GoogleStopReason(finish) ==
    CASE finish = "STOP" -> "end_turn" [] finish = "MAX_TOKENS" -> "max_tokens"
      [] finish \in {"SAFETY", "RECITATION"} -> "content_filter" [] finish = "OTHER" -> "error"
      [] finish = "FINISH_REASON_UNSPECIFIED" -> "" [] OTHER -> finish
GoogleAnswerStatus(finish) ==
    CASE finish = "MAX_TOKENS" -> "incomplete"
      [] finish \in {"SAFETY", "RECITATION", "OTHER"} -> "failed" [] OTHER -> "completed"
=============================================================================

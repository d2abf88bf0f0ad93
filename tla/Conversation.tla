----------------------------- MODULE Conversation -----------------------------
(* A conversation held through MoonBridge without streaming.  The client      *)
(* keeps the history and sends all of it with every request; any provider may *)
(* answer, and the answer comes back as items the client adds to its history. *)
(* What the next request would be, for each provider, is a function of that   *)
(* history: the properties say that it is still the conversation that was     *)
(* held.  Tools are plain functions; one choice per answer; no images.        *)
EXTENDS ClientMessages, ProviderMessages

CONSTANTS
    Clients,      \* the protocols the client may speak
    Providers,    \* those that may answer it
    Names,        \* the functions it offers
    MaxBlocks,    \* bound: for every answer in turn, its blocks
    MaxSaid,      \* bound: messages of the user and of the system
    Repeated      \* whether thoughts may follow one another in the history

ASSUME ConversationAssumption ==
    /\ Clients \subseteq {"responses", "chat"} /\ Providers \subseteq {"anthropic", "chat", "google"}
    /\ MaxBlocks \in Seq(Nat) /\ MaxSaid \in Nat /\ Repeated \in BOOLEAN

VARIABLES client,   \* the client's protocol, and whether the model reasons
          history,  \* the items it would send
          log,      \* the blocks said so far, as they were meant
          open,     \* the calls its tools have not answered
          told      \* whether the last answer was cut short, and what the client was told
vars == <<client, history, log, open, told>>

Core == IF client.protocol = "responses" THEN ResponsesToCore(client.reasons, history)
        ELSE ChatToCore(history)

\* How a provider's answer may end: with a call, or not.
Stops(provider, calls) ==
    CASE provider = "anthropic" -> IF calls THEN {"tool_use"} ELSE {"end_turn", "max_tokens"}
      [] provider = "chat" -> IF calls THEN {"tool_calls"} ELSE {"stop", "length"}
      [] OTHER -> IF calls THEN {"STOP"} ELSE {"STOP", "MAX_TOKENS"}
Truncated == {"max_tokens", "length", "MAX_TOKENS"}

Init ==
    /\ client \in [protocol : Clients, reasons : BOOLEAN]
    /\ client.protocol = "chat" => ~client.reasons
    /\ history = <<>> /\ log = <<>> /\ open = {}
    /\ told = [cut |-> FALSE, as |-> ""]

-----------------------------------------------------------------------------
Said == Cardinality({k \in DOMAIN log : log[k].type = "text" /\ log[k].name # ""})
Answered == Cardinality({k \in DOMAIN log : log[k].type = "end"})

\* What the user, or the system, writes: logged under its role.
Says(role) ==
    LET b == Block("text", <<Len(log) + 1>>) IN
    /\ open = {} /\ Said < MaxSaid
    /\ history' = Append(history, IF client.protocol = "responses" THEN Item("message", role, <<b>>)
                                  ELSE ChatItem(role, <<b>>, <<>>, <<>>))
    /\ log' = Append(log, [b EXCEPT !.name = role])
    /\ UNCHANGED <<client, open, told>>

UserSays == Says("user")
SystemSays == Says("developer")

\* A tool returns.
ToolReturns ==
    \E call \in open :
      LET r == Result(call.id, <<Len(log) + 1>>) IN
      /\ history' = Append(history, IF client.protocol = "responses"
                                    THEN Item("function_call_output", "", <<r>>)
                                    ELSE ChatItem("tool", <<r>>, <<>>, <<>>))
      /\ log' = Append(log, r) /\ open' = open \ {call}
      /\ UNCHANGED <<client, told>>

\* An answer's blocks in Core form, added to the client's history.
Answer(blocks, stop, status, reason) ==
    /\ open = {} /\ Answered < Len(MaxBlocks)
    /\ history' = IF client.protocol = "responses" THEN history \o ResponsesFromCore(blocks)
                  ELSE Append(history, ChatFromCore(blocks))
    /\ log' = log \o blocks \o <<Block("end", <<>>)>>
    /\ open' = ToSet(OfType(blocks, {"tool_use"}))
    /\ told' = [cut |-> stop \in Truncated, as |-> IF client.protocol = "responses" THEN status ELSE reason]
    /\ UNCHANGED client

\* The finish reason a Chat client is told.
FinishTold(stop, blocks) ==
    CASE stop \in {"tool_use", "tool_calls"} -> "tool_calls"
      [] stop \in {"max_tokens", "length"} -> "length"
      [] stop \in {"end_turn", "stop_sequence", "stop", ""} ->
           IF OfType(blocks, {"tool_use"}) # <<>> THEN "tool_calls" ELSE "stop"
      [] OTHER -> stop

\* An answer of the given kinds of blocks; the pieces are numbered on from the log.
Piece(k) == <<Len(log) + k>>
Made(kinds, thought) ==
    [k \in DOMAIN kinds |->
       CASE kinds[k] = "text" -> Block("text", Piece(k))
         [] kinds[k] = "thought" -> Block(thought, Piece(k))
         [] kinds[k] = "other" -> Block("redacted_thinking", Piece(k))
         [] OTHER -> Call(<<"call", Len(log) + k>>, kinds[k], Piece(k))]

Kinds == {"text", "thought", "other"} \cup Names
Shapes ==
    IF Answered = Len(MaxBlocks) THEN {}
    ELSE {kinds \in BoundedSeq(Kinds, MaxBlocks[Answered + 1]) \ {<<>>} :
            LET count(kind) == Cardinality({k \in DOMAIN kinds : kinds[k] = kind}) IN
            ~Repeated => /\ count("thought") <= 1
                         /\ count("thought") < Len(kinds)
                         /\ count("other") = 0 \/ count("thought") = 0 \/ count("text") > 0}

AnthropicAnswers ==
    \E kinds \in Shapes : \E stop \in Stops("anthropic", kinds[Len(kinds)] \in Names) :
      LET blocks == FromAnthropic(Made(kinds, "thinking")) IN
      "anthropic" \in Providers
        /\ Answer(blocks, stop, AnthropicStatus(stop), FinishTold(stop, blocks))

\* A Chat answer has one thought, one text and then its calls.
ChatAnswers ==
    \E kinds \in Shapes : \E stop \in Stops("chat", kinds[Len(kinds)] \in Names) :
      LET made == Made(kinds, "reasoning")
          blocks == FromChat(ChatItem("assistant", OfType(made, {"text"}),
                             Joined(OfType(made, {"reasoning"})), OfType(made, {"tool_use"})))
      IN /\ "chat" \in Providers
         /\ "other" \notin ToSet(kinds)
         /\ \A t \in {"text", "thought"} : Cardinality({k \in DOMAIN kinds : kinds[k] = t}) <= 1
         /\ Answer(blocks, stop, ChatStatus(stop), FinishTold(ChatStopReason(stop), blocks))

GoogleAnswers ==
    \E kinds \in Shapes : \E stop \in Stops("google", kinds[Len(kinds)] \in Names) :
      LET blocks == FromGoogle(Made(kinds, "")) IN
      /\ "google" \in Providers
      /\ ToSet(kinds) \cap {"thought", "other"} = {}
      /\ Answer(blocks, stop, GoogleAnswerStatus(stop), FinishTold(GoogleStopReason(stop), blocks))

Next == \/ UserSays \/ SystemSays \/ ToolReturns
        \/ AnthropicAnswers \/ ChatAnswers \/ GoogleAnswers
Spec == Init /\ [][Next]_vars

-----------------------------------------------------------------------------
\* What was meant: the pieces of the log's blocks of some types, and the
\* pieces a request carries of them.
Meant(types, roles) ==
    Joined(SelectSeq(log, LAMBDA b : b.type \in types /\ b.name \in roles))
Carried(pieces, blocks) == SelectSeq(Joined(blocks), LAMBDA p : p \in ToSet(pieces))
Blocks(messages) == FlattenSeq([k \in DOMAIN messages |-> messages[k].content])
ChatContents(sent) == [k \in DOMAIN sent |-> Block("", IF ChatSends(sent[k]) /\ sent[k].content # ChatNothing
                                                      THEN sent[k].content ELSE <<>>)]
ChatCalls(sent) == FlattenSeq([k \in DOMAIN sent |-> sent[k].calls])
Texts == Meant({"text"}, {"", "user"})
Thoughts == Meant({"reasoning"}, {""})
Calls == Meant({"tool_use"}, Names)
Results == Meant({"tool_result"}, {""})

TypeOK ==
    /\ client \in [protocol : Clients, reasons : BOOLEAN]
    /\ \A m \in ToSet(Core.messages) : m.role \in {"user", "assistant", "tool"} /\ m.content # <<>>
    /\ open \subseteq ToSet(log)

\* Whatever was said, called and returned reaches every provider once and in
\* its order: nothing is lost in the client's own form of it, in the batching
\* of calls, in the merging of messages or in the skipping of empty ones.
SpeechCarried ==
    LET core == Core
        a == Blocks(ToAnthropic(core).messages)
        g == Blocks(ToGoogle(core).messages)
        c == ToChat(core)
        contents == ChatContents(c)
        kept(pieces, blocks) == Carried(pieces, blocks) = pieces
    IN /\ \A sent \in {a, g, contents} : kept(Texts, sent) /\ kept(Results, sent)
       /\ kept(Calls, a) /\ kept(Calls, g) /\ Joined(ChatCalls(c)) = Calls

\* What the system says goes before the conversation, to every provider.
SystemFirst ==
    LET system == Meant({"text"}, {"developer"})
        core == Core
        chat == ToChat(core)
    IN
    /\ Joined(ToAnthropic(core).system) = system /\ Joined(ToGoogle(core).system) = system
    /\ system # <<>> => /\ chat[1].role = "system" /\ chat[1].content = system
                        /\ \A k \in 2..Len(chat) : chat[k].role # "system"

\* The whole conversation, the system's part first, is what every provider gets.
SpeechKept == SpeechCarried /\ SystemFirst

\* The thoughts are kept as well, for a provider that takes them back.  (Chat takes one
\* per message; see the violated AnswersUnaltered for two in a row.)
ThoughtsKept ==
    LET a == OfType(Blocks(ToAnthropic(Core).messages), {"thinking"}) IN
    Carried(Thoughts, a) = Thoughts

\* No answer speaks after it called a tool.
CallsLast ==
    \A j, k \in DOMAIN log :
      (j < k /\ log[j].type = "tool_use" /\ log[k].type = "text" /\ log[k].name = "")
        => \E e \in j..k : log[e].type = "end"

\* What Anthropic demands: the first message is a user's, none is empty, and
\* the message after one with calls holds their results, all and only they.
IdsOf(blocks, type) == {b.id : b \in ToSet(OfType(blocks, {type}))}
AnthropicTurns ==
    LET out == ToAnthropic(Core).messages
        calls(k) == IdsOf(out[k].content, "tool_use")
        results(k) == IdsOf(out[k].content, "tool_result")
    IN /\ out # <<>> => out[1].role = "user"
       /\ (open = {} /\ CallsLast) =>
            \A k \in DOMAIN out :
              /\ calls(k) # {} => k < Len(out) /\ results(k + 1) = calls(k)
              /\ results(k) # {} => k > 1 /\ results(k) = calls(k - 1)

\* What Chat Completions demands: right after an assistant's message with calls
\* come the tools' messages, one for each of them.
ChatTurns ==
    LET out == ToChat(Core)
        n(k) == Len(out[k].calls)
    IN (open = {} /\ CallsLast) =>
         \A k \in DOMAIN out :
           /\ n(k) > 0 => /\ k + n(k) <= Len(out)
                          /\ {out[j].id : j \in (k + 1)..(k + n(k))} = {c.id : c \in ToSet(out[k].calls)}
           /\ out[k].role = "tool" =>
                \E j \in 1..(k - 1) : k <= j + n(j) /\ out[k].id \in {c.id : c \in ToSet(out[j].calls)}

\* What Google demands: the roles alternate, beginning with the user, and the
\* results that follow calls name the functions called.
GoogleTurns ==
    LET out == ToGoogle(Core).messages
        named(k, type) == {b.name : b \in ToSet(OfType(out[k].content, {type}))}
    IN \A k \in DOMAIN out :
         /\ out[k].role = IF k % 2 = 1 THEN "user" ELSE "model"
         /\ (open = {} /\ named(k, "tool_use") # {}) =>
              k < Len(out) /\ named(k + 1, "tool_result") = named(k, "tool_use")

\* Whatever provider answered before, the next request has the order of turns
\* that the provider it goes to demands.
UpstreamTurns == AnthropicTurns /\ ChatTurns /\ GoogleTurns

\* An answer that an upstream cut short at its token limit is told to the client
\* as incomplete, whatever it held and whichever protocols are in between.
TruncationKept ==
    told.cut => told.as \in {"incomplete", "length"}

\* Statement of openai/adapter.go, reasoningBlocksFromSummary: the thinking text
\* is preserved for upstream replay.  (What the answers said with it, too.)
AnswersUnaltered ==
    LET a == Blocks(ToAnthropic(Core).messages) IN
    /\ Carried(Thoughts, a) = Thoughts
    /\ Carried(Texts, a) = Texts
=============================================================================

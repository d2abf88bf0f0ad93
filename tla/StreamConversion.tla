--------------------------- MODULE StreamConversion ---------------------------
(* A provider adapter's stream converter feeding a client adapter's: one step *)
(* per upstream chunk, in which every Core event of the chunk reaches the     *)
(* client's converter.  (The channels between them are StreamPipeline's.)     *)
(* The upstream is the environment: it sends the chunks of its protocol in    *)
(* the orders its actions below allow, up to MaxChunks of them, and `sent`    *)
(* remembers what it said.                                                    *)
EXTENDS ProviderStreams, ClientStreams, FiniteSets

CONSTANTS MaxChunks,    \* bound: chunks an upstream sends, by kind of upstream
          MaxCalls,     \* bound: tool calls in one answer
          MaxBlocks,    \* bound: blocks of a whole answer that is replayed
          Upstreams,    \* the upstreams: see Setups
          Clients       \* subset of {"responses", "chat"}

ASSUME ConversionAssumption ==
    /\ MaxChunks \in [Upstreams -> Nat] /\ MaxCalls \in Nat /\ MaxBlocks \in Nat
    /\ Upstreams \subseteq {"native", "local", "anthropic", "google", "replay"}
    /\ Clients \subseteq {"responses", "chat"}

VARIABLES setup,   \* [upstream, client] of this stream
          sent,    \* what the upstream said so far
          conv,    \* the provider converter's memory
          client,  \* the client converter's memory
          ended    \* "": the stream runs; otherwise how its upstream ended

vars == <<setup, sent, conv, client, ended>>

Local == setup.upstream = "local"
Chatting == setup.upstream \in {"native", "local"}

\* What an upstream said: the pieces of its text and of its reasoning, its tool
\* calls, the index of the block it is in (Anthropic), and its finish reason.
Nothing == [n |-> 0, text |-> <<>>, thought |-> <<>>, calls |-> <<>>,
            ix |-> 0, block |-> "", searched |-> FALSE, finish |-> ""]

Piece(form) == <<<<sent.n, form>>>>
CallForms(name) == IF name = "nested" THEN {"act", "piece", "whole"} ELSE {"piece"}

Init == /\ setup \in [upstream : Upstreams, client : Clients]
        /\ sent = Nothing
        /\ conv = IF Chatting THEN ChatInit
                  ELSE IF setup.upstream = "anthropic" THEN AnthropicInit ELSE GoogleInit
        /\ client = IF setup.client = "responses" THEN ResponsesInit ELSE ChatClientInit
        /\ ended = ""

ClientStep(r, ev) ==
    IF setup.client = "responses" THEN ResponsesStep(Local, r, ev) ELSE ChatClientStep(r, ev)
ClientEnd(r) == IF setup.client = "responses" THEN r ELSE ChatClientEnd(r)

\* The client's converter after each of some events.
HeardUpTo(r, events) ==
    LET after[n \in 0..Len(events)] ==
            IF n = 0 THEN r ELSE ClientStep(after[n - 1], events[n])
    IN after

Heard(r, events) == HeardUpTo(r, events)[Len(events)]

\* One chunk through both converters.
Convert(step) == conv' = step.st /\ client' = Heard(client, step.out)

Running == ended = "" /\ sent.n < MaxChunks[setup.upstream]
Told(what) == sent' = [what EXCEPT !.n = @ + 1]

-----------------------------------------------------------------------------
\* Chat Completions chunks: the role on the first one if at all, a finish
\* reason on the last, and one kind of content in each.
Chunk(role, reason, content, calls, finish) ==
    [role |-> role, reason |-> reason, content |-> content, calls |-> calls, finish |-> finish]
Roles == IF sent.n = 0 THEN BOOLEAN ELSE {FALSE}
Finishes == {"", "stop", "length"}

Speaking(c) ==
    /\ Running /\ Chatting /\ sent.finish = ""
    /\ Convert(ChatStep(Local, conv, c))
    /\ UNCHANGED <<setup, ended>>

\* The order of an answer is assumed of Chat upstreams: reasoning, then content,
\* then tool calls, and of each chunk that it has one of them.  Only a local
\* server may think again after some content, as its template writes it.
ChatThinks ==
    \E role \in Roles :
      /\ sent.calls = <<>> /\ (sent.text = <<>> \/ Local)
      /\ Speaking(Chunk(role, Piece("piece"), <<>>, <<>>, ""))
      /\ Told([sent EXCEPT !.thought = @ \o Piece("piece")])

ChatSays ==
    \E role \in Roles, finish \in Finishes :
      /\ sent.calls = <<>>
      /\ Speaking(Chunk(role, <<>>, Piece("piece"), <<>>, finish))
      /\ Told([sent EXCEPT !.text = @ \o Piece("piece"), !.finish = finish])

\* A call's first delta names it, and may already carry arguments.
ChatCalls ==
    \E role \in Roles, name \in {"tool", "nested"} :
      \E args \in {<<>>} \cup {Piece(form) : form \in CallForms(name)} :
        /\ Len(sent.calls) < MaxCalls
        /\ Speaking(Chunk(role, <<>>, <<>>,
                          <<[pos |-> Len(sent.calls), name |-> name, args |-> args]>>, ""))
        /\ Told([sent EXCEPT !.calls = Append(@, [name |-> name, args |-> args])])

ChatArgues ==
    \E k \in DOMAIN sent.calls : \E form \in CallForms(sent.calls[k].name) \ {"whole"} :
      /\ Speaking(Chunk(FALSE, <<>>, <<>>,
                        <<[pos |-> k - 1, name |-> "", args |-> Piece(form)]>>, ""))
      /\ Told([sent EXCEPT !.calls[k].args = @ \o Piece(form)])

\* A chunk with only a role, or only a finish reason.
ChatBare ==
    \E role \in Roles, finish \in Finishes \cup {"tool_calls"} :
      /\ role \/ finish # ""
      /\ Speaking(Chunk(role, <<>>, <<>>, <<>>, finish))
      /\ Told([sent EXCEPT !.finish = finish])

-----------------------------------------------------------------------------
\* Anthropic events: a start, blocks one after the other, a delta with the stop
\* reason and a stop.  sent.block is the block that is open, "-" between blocks.
Block(t, kind, delta, d, status) ==
    [t |-> t, ix |-> sent.ix, kind |-> kind, delta |-> delta, d |-> d,
     status |-> status, stop |-> ""]

Telling(ev) ==
    /\ Running /\ setup.upstream = "anthropic"
    /\ Convert(AnthropicStep(conv, ev))
    /\ UNCHANGED <<setup, ended>>

AnthropicStarts ==
    /\ sent.n = 0
    /\ Telling(Block("message_start", "", "", <<>>, FALSE))
    /\ Told([sent EXCEPT !.block = "-"])

AnthropicOpens ==
    \E kind \in {"text", "thinking", "tool", "nested",
               "server_tool_use", "web_search_tool_result"} :
      /\ sent.block = "-" /\ sent.finish = ""
      /\ IsTool(kind) => Len(sent.calls) < MaxCalls
      /\ Telling(Block("content_block_start", kind, "", <<>>, FALSE))
      /\ Told([sent EXCEPT !.block = kind,
                 !.calls = IF IsTool(kind) THEN Append(@, [name |-> kind, args |-> <<>>]) ELSE @])

AnthropicSays ==
    /\ sent.block = "text"
    /\ Telling(Block("content_block_delta", "", "text", Piece("piece"), FALSE))
    /\ Told([sent EXCEPT !.text = @ \o Piece("piece")])

AnthropicThinks ==
    /\ sent.block = "thinking"
    /\ Telling(Block("content_block_delta", "", "thinking", Piece("piece"), FALSE))
    /\ Told([sent EXCEPT !.thought = @ \o Piece("piece")])

AnthropicArgues ==
    \E form \in CallForms(sent.block) :
      LET k == Len(sent.calls) IN
      /\ IsTool(sent.block) /\ (form = "whole" => sent.calls[k].args = <<>>)
      /\ Telling(Block("content_block_delta", "", "json", Piece(form), FALSE))
      /\ Told([sent EXCEPT !.calls[k].args = @ \o Piece(form)])

\* A search the provider runs itself: its arguments, and the status text it
\* may put in the answer.
AnthropicSearches ==
    /\ sent.block = "server_tool_use"
    /\ Telling(Block("content_block_delta", "", "json", Piece("piece"), FALSE))
    /\ Told([sent EXCEPT !.searched = TRUE])

AnthropicStatus ==
    /\ sent.block = "text"
    /\ Telling(Block("content_block_delta", "", "text", Piece("piece"), TRUE))
    /\ Told([sent EXCEPT !.searched = TRUE])

AnthropicCloses ==
    /\ sent.block \notin {"", "-"}
    /\ Telling(Block("content_block_stop", "", "", <<>>, FALSE))
    /\ Told([sent EXCEPT !.block = "-", !.ix = @ + 1])

AnthropicFinishes ==
    \E finish \in {"end_turn", "max_tokens"} :
      /\ sent.block = "-" /\ sent.finish = ""
      /\ Telling([Block("message_delta", "", "", <<>>, FALSE) EXCEPT !.stop = finish])
      /\ Told([sent EXCEPT !.finish = finish])

AnthropicStops ==
    /\ sent.finish # ""
    /\ Running /\ setup.upstream = "anthropic"
    /\ Convert(AnthropicStep(conv, Block("message_stop", "", "", <<>>, FALSE)))
    /\ Told(sent)
    /\ ended' = "finished" /\ UNCHANGED setup

-----------------------------------------------------------------------------
\* Google chunks: snapshots that only grow, the finish reason on the last one.
GoogleSays ==
    \E text \in {sent.text \o Piece("piece")}, finish \in {"", "STOP", "MAX_TOKENS"} :
      /\ Running /\ setup.upstream = "google" /\ sent.finish = ""
      /\ Convert(GoogleStep(conv, [text |-> text, finish |-> finish]))
      /\ Told([sent EXCEPT !.text = text, !.finish = finish])
      /\ UNCHANGED <<setup, ended>>

\* A whole answer, replayed as a stream in one go.  Its calls were decoded from
\* their namespace before, so none is nested.
Replays ==
    \E kinds \in BoundedSeq({"reasoning", "text", "tool", "image"}, MaxBlocks),
       status \in {"completed", "incomplete", "failed"} :
      LET blocks == [k \in DOMAIN kinds |-> [kind |-> kinds[k], d |-> <<<<k, "whole">>>>]]
          texts(kind) == FlattenSeq([k \in DOMAIN kinds |->
                                       IF kinds[k] = kind THEN blocks[k].d ELSE <<>>])
          tools == Selected(blocks, {b \in ToSet(blocks) : IsTool(b.kind)})
      IN /\ Running /\ setup.upstream = "replay"
         /\ client' = Heard(client, ReplayAnswer(blocks, status, "max_tokens"))
         /\ sent' = [sent EXCEPT !.n = 1, !.text = texts("text"), !.thought = texts("reasoning"),
                       !.calls = [k \in DOMAIN tools |-> [name |-> tools[k].kind, args |-> tools[k].d]],
                       !.finish = "max_tokens"]
         /\ ended' = "finished" /\ UNCHANGED <<setup, conv>>

\* The upstream's stream ends: after its finish reason, or broken off.
UpstreamEnds ==
    \E eof \in BOOLEAN :
      /\ ended = "" /\ setup.upstream # "replay"
      /\ LET broken == setup.upstream = "anthropic" \/ sent.finish = ""
             out == CASE setup.upstream = "anthropic" -> AnthropicEnd(eof)
                      [] setup.upstream = "google"    -> GoogleEnd
                      [] OTHER -> ChatEnd
         IN /\ client' = Heard(client, out)
            /\ ended' = IF broken THEN "broken" ELSE "finished"
      /\ UNCHANGED <<setup, sent, conv>>

\* The event channel is closed and the client's converter ends.
ClientEnds ==
    /\ ended \in {"finished", "broken"}
    /\ client' = ClientEnd(client)
    /\ ended' = IF ended = "finished" THEN "closed-finished" ELSE "closed-broken"
    /\ UNCHANGED <<setup, sent, conv>>

Next == \/ ChatThinks \/ ChatSays \/ ChatCalls \/ ChatArgues \/ ChatBare
        \/ AnthropicStarts \/ AnthropicOpens \/ AnthropicSays \/ AnthropicThinks
        \/ AnthropicArgues \/ AnthropicSearches \/ AnthropicStatus \/ AnthropicCloses
        \/ AnthropicFinishes \/ AnthropicStops
        \/ GoogleSays \/ Replays \/ UpstreamEnds \/ ClientEnds

Spec == Init /\ [][Next]_vars

-----------------------------------------------------------------------------
\* What the client was shown, read off the frames: the text of all frames of
\* some events, or of those that address one item.
FrameIx(P(_)) == {k \in DOMAIN client.frames : P(client.frames[k])}
ShownWhere(P(_)) ==
    FlattenSeq([k \in DOMAIN client.frames |->
                  IF P(client.frames[k]) THEN client.frames[k].d ELSE <<>>])
TextFrames    == {"output_text.delta", "content"}
ThoughtFrames == {"reasoning_summary_text.delta", "reasoning_content"}
ArgsFrames    == {"function_call_arguments.delta", "tool_args"}
Order(d) == [k \in DOMAIN d |-> d[k][1]]
Responses == setup.client = "responses"
Finished  == ended \in {"finished", "closed-finished"}

\* A nested call whose action never came, and the calls that are no such.
Actionless(call) == call.name = "nested" /\ ~HasAction(call.args)
TypeOK ==
    /\ setup \in [upstream : Upstreams, client : Clients]
    /\ ended \in {"", "finished", "broken", "closed-finished", "closed-broken"}
    /\ sent.n \in 0..MaxChunks[setup.upstream] /\ Len(sent.calls) <= IF setup.upstream = "replay" THEN MaxBlocks ELSE MaxCalls
    /\ Responses => /\ client.status \in {"in_progress", "completed", "incomplete", "failed"}
                    /\ \A oi \in DOMAIN client.output :
                         client.output[oi].type \in {"message", "reasoning", "function_call"}

\* Nothing is lost, repeated or moved between the upstream and the client: at
\* every moment the text frames spell what the upstream wrote and the reasoning
\* frames what it thought, through all the renumbering of blocks.
AnswerExact ==
    /\ ShownWhere(LAMBDA fr : fr.f \in TextFrames) = sent.text
    /\ ShownWhere(LAMBDA fr : fr.f \in ThoughtFrames) = sent.thought

\* The argument fragments a client collects under one index are those of one
\* tool call, in order: parallel calls are never mixed.  (A provider that ran a
\* search of its own is the exception: see SearchesStayHidden.)
ArgumentsNeverMixed ==
    ~sent.searched =>
      \A k \in FrameIx(LAMBDA fr : fr.f \in ArgsFrames) :
        LET shown == ShownWhere(LAMBDA fr : /\ fr.f \in ArgsFrames
                                            /\ fr.oi = client.frames[k].oi)
        IN \E c \in DOMAIN sent.calls : Order(shown) = Order(sent.calls[c].args)

\* An output item is announced once, before anything is said in it, and reported
\* done once, after everything: a client can build the item from the frames
\* alone.  A message without text is never announced, and a nested call whose
\* action never came is the exception CallDoneOnce is about.
ItemFrames(f, oi) == FrameIx(LAMBDA fr : fr.f = f /\ fr.oi = oi)
ResponsesFraming ==
    (Responses /\ ~sent.searched) =>
      /\ \A k \in FrameIx(LAMBDA fr : fr.f \in TextFrames \cup ThoughtFrames \cup ArgsFrames) :
           LET oi == client.frames[k].oi IN
           /\ \E a \in ItemFrames("output_item.added", oi) : a < k
           /\ \A d \in ItemFrames("output_item.done", oi) : k < d
      /\ \A oi \in 0..(Len(client.output) - 1) :
           /\ Cardinality(ItemFrames("output_item.added", oi)) <= 1
           /\ (\A c \in DOMAIN sent.calls : ~Actionless(sent.calls[c]))
                => Cardinality(ItemFrames("output_item.done", oi)) <= 1

\* The converter never reads past its list of items, which would end the whole
\* process: a done event for an index nobody opened needs an item to point at.
NeverPastItems == Responses => ~client.panicked

\* When the upstream finished, the final response holds the whole answer: every
\* item is completed, the messages spell the text, and every call is there with
\* all its arguments.  (Anthropic ends no call whose action never came, and a
\* dropped search status takes the end of its block with it.)
FinalResponseWhole ==
    (Responses /\ Finished /\ ~sent.searched) =>
      /\ \A oi \in DOMAIN client.output : client.output[oi].status = "completed"
      /\ FlattenSeq([k \in DOMAIN client.output |->
            IF client.output[k].type = "message" THEN client.output[k].d ELSE <<>>]) = sent.text
      /\ \A c \in DOMAIN sent.calls :
           \/ \E k \in DOMAIN client.output :
                /\ client.output[k].type = "function_call"
                /\ Order(client.output[k].d) = Order(sent.calls[c].args)
           \/ setup.upstream = "anthropic" /\ Actionless(sent.calls[c])

\* A Chat client is told its role first, of every call before its arguments, and
\* the finish reason and the sentinel last, once: whatever the upstream did.
ChatFraming ==
    ~Responses =>
      /\ client.frames # <<>> => client.frames[1].f = "role"
      /\ \A k \in FrameIx(LAMBDA fr : fr.f = "tool_args") :
           sent.searched \/ \E j \in 1..(k - 1) : /\ client.frames[j].f = "tool_call"
                                                /\ client.frames[j].oi = client.frames[k].oi
      /\ (ended \in {"closed-finished", "closed-broken"}) =>
           LET n == Len(client.frames) IN
           /\ FrameIx(LAMBDA fr : fr.f = "finish") = {n - 1}
           /\ FrameIx(LAMBDA fr : fr.f = "[DONE]") = {n}
           /\ (client.finish = "tool_calls") => (sent.calls # <<>> \/ sent.searched)

\* Either client can follow the stream from its frames alone, in every order of
\* chunks an upstream sends here: everything is announced, said and ended in
\* that order, once.
ItemsFramed == ResponsesFraming /\ ChatFraming

-----------------------------------------------------------------------------
\* Statements of the repository the converters do not keep: no run checks them,
\* and TLC finds each violated under the configuration of the run.

\* adapter_test.go's TestFromCoreStream_NoDuplicateDoneForToolUse: a tool call's
\* arguments and its item are reported done once.
CallDoneOnce ==
    Responses => \A oi \in 0..(Len(client.output) - 1) :
      Cardinality(ItemFrames("function_call_arguments.done", oi)) <= 1

\* anthropic/adapter.go: server-side tools are transparent to the client.
SearchesStayHidden ==
    (sent.calls = <<>>) => FrameIx(LAMBDA fr : fr.f \in ArgsFrames) = {}

\* chat-completions-ingress.md: max_tokens is told to a Chat client as length.
TruncationTold ==
    (~Responses /\ ended = "closed-finished" /\ sent.calls = <<>>
       /\ sent.finish \in {"length", "max_tokens", "MAX_TOKENS"}) => client.finish = "length"
=============================================================================
